------------------------------ MODULE MCParallax ------------------------------
EXTENDS ParallaxRuntime

Page == INSTANCE PageImages

\* Two scan rows of two positions; the pixels of geometry 2 reach across a row.
TwoShifts == <<{0}, {0, 1}>>

Change(m, t, f) == [mode |-> m, tune |-> t, fault |-> f]

SomeChanges ==
  {Change("keep", 2, "none"), Change("swap", 0, "none"), Change("latest", 2, "none"),
   Change("reset", 2, "key"), Change("keep", 2, "value"), Change("all", 2, "memory")}

Record(sh, k, n, b) == [shape |-> sh, kind |-> k, count |-> n, batches |-> b]

SomeSeries ==
  {Record("a", "u16", 5, <<{0, 1}, {2, 4}, {3}>>),
   Record("a", "u16", 4, <<{0, 1}, {2, 3}>>),
   Record("a", "u16", 8, <<{0, 1, 2}, {3, 4}, {5, 6, 7}>>),
   Record("a", "u32", 3, <<{0, 1}, {3}>>),
   Record("b", "u16", 0, <<>>)}

Session(l, v, e, m, p) == [live |-> l, viewer |-> v, endpoint |-> e, mode |-> m, passes |-> p]

SomeSetups ==
  {Session(FALSE, TRUE, FALSE, m, m \in {"swap", "latest"}) : m \in Modes \cup {"scan"}}
    \cup {Session(TRUE, TRUE, FALSE, "reset", TRUE), Session(TRUE, FALSE, TRUE, "latest", FALSE)}
-----------------------------------------------------------------------------
\* What the theorem about the images assumes of the batches.
ASSUME BatchesAssumption == OnePerPosition /\ LateByOnePass

\* What ParallaxProofs proves of the page's pictures, evaluated for small snapshots.
ASSUME PicturesInPlace ==
  /\ \A size \in 1 .. 6, start, len \in -1 .. 7, f \in 1 .. 4, reach \in 0 .. 2 :
       Page!AxisExact(start, len, size, f, reach)
  /\ \A h, w \in 1 .. 6, oh, ow \in -1 .. 7 : Page!FactorServes(h, w, oh, ow)

ASSUME SpectraInPlace ==
  /\ \A y0 \in 0 .. 3, h \in 8 .. 13, n \in {8, 10, 12}, first \in 0 .. 8, last \in 0 .. 18 :
       n <= h => Page!SquareExact(y0, h, n, <<first, last>>)
  /\ \A size \in {1, 9, 13}, start \in {-1, 0, 4, 12}, len \in {-1, 0, 8, 20},
       n \in {0, 8, 9, 30}, out \in {0, 2, 3, 8} :
       Page!FftInside([y0 |-> start, x0 |-> 0, h |-> len, w |-> 12, n |-> n, out |-> out], size, 12)
=============================================================================
