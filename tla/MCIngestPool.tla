----------------------------- MODULE MCIngestPool -----------------------------
EXTENDS IngestMain

Native(w) == [width |-> w, big |-> FALSE, signed |-> FALSE]

\* A frame in blocks of that many pixels.
Block(raw) == [claim |-> 3, stored |-> 3, sound |-> TRUE, raw |-> raw]

ImageOf(i, shape, counts, w, cut) ==
  [kind |-> "image", id |-> i, readable |-> TRUE, shape |-> shape, dtype |-> Native(w), elem |-> w,
   algorithm |-> "bslz4", size |-> Len(counts) * w, block |-> cut * w, images |-> 0, counts |-> counts,
   blocks |-> <<Block(SubSeq(counts, 1, cut)), Block(SubSeq(counts, cut + 1, Len(counts)))>>]

Image(i)  == ImageOf(i, <<2, 2>>, <<i + 1, 1, 2, 3>>, 2, 3)
Wide(i)   == ImageOf(i, <<2, 2>>, <<100 + i, 4, 5, 6>>, 4, 3)
Narrow(i) == ImageOf(i, <<2, 2>>, <<3, 1, 2, 1>>, 1, 2)
Big(i)    == ImageOf(i, <<2, 3>>, <<1, 2, 3, 1, 2, 3>>, 2, 3)
Bad(i)    == [Image(i) EXCEPT !.readable = FALSE]
Damaged(i) == [Image(i) EXCEPT !.blocks[1].sound = FALSE]
Misframed(i) == [Image(i) EXCEPT !.blocks[1].claim = 2]
Short(i)  == [Image(i) EXCEPT !.blocks = SubSeq(@, 1, 1)]
Plain(i)  == [Image(i) EXCEPT !.algorithm = "lz4"]
Swapped(i) == [Image(i) EXCEPT !.dtype.big = TRUE]

Announce(shape, n) == [Image(0) EXCEPT !.kind = "start", !.shape = shape, !.images = n]
Start == Announce(Detector, 9)
End   == [Image(0) EXCEPT !.kind = "end"]

SomeStreams ==
  {<<Image(8), Start, Image(0), Image(1), Image(2), Start, Image(3), Image(4), Image(5), Image(7), End,
     Image(6)>>,
   <<Announce(<<>>, 0), Wide(0), Wide(1), Wide(2), End>>,
   <<Start, Narrow(2), Narrow(1), Narrow(0), End>>,
   <<Start, Image(0), Bad(1), Damaged(2), Image(3), Misframed(4), End>>,
   <<Start, Short(0), Plain(1), Image(2), Swapped(3), End>>,
   <<Start, Image(0), Big(1), Image(2), Big(3), Image(4), End>>,
   <<Start, Big(0), Big(1), Image(2), End>>,
   <<Start, Image(0), Image(9), End>>,
   <<Announce(<<2, 3>>, 9), Image(0), End>>,
   <<Announce(Detector, 10), Image(0), End>>}

File(shape, values) == [present |-> TRUE, shape |-> shape, values |-> values]
Absent == [File(<<>>, <<>>) EXCEPT !.present = FALSE]

SomeMasks ==
  {[flatfield |-> Absent, deadPx |-> Absent],
   [flatfield |-> File(<<2, 2>>, <<1, 1, 2, 1>>), deadPx |-> File(<<2, 2>>, <<1, 0, 1, 1>>)],
   [flatfield |-> Absent, deadPx |-> File(<<2, 3>>, <<1, 1, 1, 1, 1, 1>>)]}

SomeDetector == <<2, 2>>
SomeCentre == <<0, 1>>

ASSUME SoundSource == DistinctIds /\ CodecExact
=============================================================================
