------------------------------ MODULE PageImages ------------------------------
(***************************************************************************)
(* Which pixels of a snapshot the page gets (streaming/web/server.py): the  *)
(* region of /view in whole blocks of f by f pixels, and the square of /fft *)
(* with the rows of a partly scanned image it is taken of.  Requests come   *)
(* from the URL: any integer, 0 where the default is wanted.                *)
(***************************************************************************)
EXTENDS Integers

Lesser(a, b)  == IF a < b THEN a ELSE b
Greater(a, b) == IF a > b THEN a ELSE b
OrElse(v, default) == IF v = 0 THEN default ELSE v

\* Along one axis of a snapshot of size pixels: where a region begins, how long it is.
Begin(at, size) == Greater(0, Lesser(at, size - 1))
Extent(at, len, size, least) == Greater(least, Lesser(len, size - Begin(at, size)))

-----------------------------------------------------------------------------
(* view                                                                      *)

\* The largest factor that leaves oh by ow blocks of an h by w region.
Factor(h, w, oh, ow) == Greater(1, Lesser(h \div Greater(oh, 1), w \div Greater(ow, 1)))

Blocks(len, f) == (len \div f) * f

\* One axis of what the filters run on: the region, and margin pixels around it as far as the
\* snapshot goes, widened from the region by whole blocks.
Widened(at, len, f, margin, size) ==
  [from |-> at - Blocks(at - Greater(0, at - margin), f),
   to   |-> at + len + Blocks(Lesser(size, at + len + margin) - at - len, f)]

\* The request of one axis, with a filter that reaches over reach blocks: the region at and len,
\* what is read of it, and the first block of the result.
ViewAxis(at, len, size, f, reach) ==
  LET a == Begin(at, size)
      n == Blocks(Extent(at, len, size, 1), f)
      r == Widened(a, n, f, reach * f, size)
  IN [at |-> a, len |-> n, from |-> r.from, to |-> r.to, first |-> (a - r.from) \div f]

\* _get_view: the factor of the two axes, a request without a size asking for everything
ViewFactor(q, H, W) ==
  LET h == OrElse(q.h, H)
      w == OrElse(q.w, W)
  IN Factor(Extent(q.y0, h, H, 1), Extent(q.x0, w, W, 1), OrElse(q.oh, h), OrElse(q.ow, w))

-----------------------------------------------------------------------------
(* power_spectrum                                                            *)

LeastRows == 8     \* fewer finished rows give a flat spectrum
MostPixels == 4096

\* Even, within the region, at most what was asked for
Wanted(n, h, w) == Greater(2, Blocks(Lesser(Lesser(n, MostPixels), Lesser(h, w)), 2))

\* ceil(n / out): pixels averaged, and the side of whole blocks of an even number
Bin(n, out)  == Greater(1, -((-n) \div Greater(out, 1)))
Side(n, out) == Greater(2 * Bin(n, out), Blocks(n, 2 * Bin(n, out)))

\* Where a square of side n goes in the h rows from y0, of which those from ra up to rb are
\* finished: onto as many of them as it can.
Placed(y0, h, n, ra, rb) ==
  IF rb - ra >= n THEN ra + (rb - ra - n) \div 2
  ELSE Lesser(Greater(y0, (ra + rb) \div 2 - n \div 2), y0 + h - n)

\* The square's first row and the rows windowed; rows from rows[1] up to rows[2] are finished.
Square(y0, h, n, rows) ==
  LET ra == Greater(rows[1], y0)
      rb == Lesser(rows[2], y0 + h)
      cy == Placed(y0, h, n, ra, rb)
  IN [top |-> cy, from |-> Greater(ra, cy), to |-> Lesser(rb, cy + n)]

\* Of a finished image, the middle of the region
Central(y0, h, n) ==
  LET cy == y0 + (h - n) \div 2 IN [top |-> cy, from |-> cy, to |-> cy + n]

Flat(s) == s.to - s.from < LeastRows

\* _get_fft: the side of the square for a request
FftSide(q, H, W) ==
  Side(Wanted(OrElse(q.n, 2048), Extent(q.y0, OrElse(q.h, H), H, 2),
              Extent(q.x0, OrElse(q.w, W), W, 2)), OrElse(q.out, 1024))

Fft(q, H, W, rows) ==
  LET y0 == Begin(q.y0, H)
      h  == Extent(q.y0, OrElse(q.h, H), H, 2)
      n  == FftSide(q, H, W)
  IN IF rows = <<>> THEN Central(y0, h, n) ELSE Square(y0, h, n, rows)

FftLeft(q, H, W) ==
  Begin(q.x0, W) + (Extent(q.x0, OrElse(q.w, W), W, 2) - FftSide(q, H, W)) \div 2

-----------------------------------------------------------------------------
\* What is read for one axis is whole blocks of the snapshot around the region, and block first + k
\* of it is the k-th f pixels of the region: the picture is not shifted or cut short, with
\* filters or at an edge of the scan (server.py:189-204).
AxisExact(at, len, size, f, reach) ==
  LET v == ViewAxis(at, len, size, f, reach)
  IN /\ 0 <= v.from /\ v.from <= v.at /\ v.at + v.len <= v.to /\ v.to <= size
     /\ v.from + v.first * f = v.at
     /\ (v.to - v.from) % f = 0 /\ v.len % f = 0

\* The page gets as many blocks as it asked for, where the region has the pixels.
FactorServes(h, w, oh, ow) ==
  LET f == Factor(h, w, oh, ow)
  IN /\ f >= 1 /\ f <= Greater(h, 1) /\ f <= Greater(w, 1)
     /\ oh >= 1 /\ h >= oh => h \div f >= oh
     /\ ow >= 1 /\ w >= ow => w \div f >= ow

\* A spectrum that is not flat is of a square of the region, and of its finished rows: of all of
\* those in view, or of as many as the square has rows (server.py:232-249).
SquareExact(y0, h, n, rows) ==
  LET s == Square(y0, h, n, rows)
  IN ~Flat(s) =>
       /\ y0 <= s.top /\ s.top + n <= y0 + h
       /\ s.top <= s.from /\ s.to <= s.top + n
       /\ rows[1] <= s.from /\ s.to <= rows[2]
       /\ \/ s.to - s.from = n
          \/ s.from = Greater(rows[1], y0) /\ s.to = Lesser(rows[2], y0 + h)

\* The square of a request is within the image, for a page that asks for at least two pixels a
\* side (one would double the side beyond the region).
FftInside(q, H, W) ==
  LET y0 == Begin(q.y0, H)
      x0 == Begin(q.x0, W)
      n  == FftSide(q, H, W)
  IN n >= LeastRows =>
       /\ n % 2 = 0
       /\ n <= Extent(q.y0, OrElse(q.h, H), H, 2) /\ n <= Extent(q.x0, OrElse(q.w, W), W, 2)
       /\ y0 + n <= H
       /\ x0 <= FftLeft(q, H, W) /\ FftLeft(q, H, W) + n <= W
=============================================================================
