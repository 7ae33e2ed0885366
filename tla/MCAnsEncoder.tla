---------------------------- MODULE MCAnsEncoder ----------------------------
(* Instance of SeriesConsumers for TLC. *)
EXTENDS SeriesConsumers

Start(n, height, width, images, edge) ==
  [kind |-> "start", series |-> n, height |-> height, width |-> width, images |-> images,
   shape |-> edge]
Images(n, edge, is) == [kind |-> "images", series |-> n, shape |-> edge, ids |-> is]
End(n, images) == [kind |-> "end", series |-> n, images |-> images]

Configured1x2 == <<1, 2>>

\* Whole series with and without an announced scan; gaps inside a batch and between batches,
\* too many images, images that are missing at the end, no END, a START that is refused,
\* an END that miscounts, and images of another shape.
SomeFeeds ==
  {<<Start(1, 0, 0, 4, 96), Images(1, 96, <<0>>), Images(1, 96, <<1, 2, 3>>), End(1, 4),
     Start(2, 1, 5, 9, 96), Images(2, 96, <<0, 1, 2>>), Images(2, 96, <<3, 4>>), End(2, 5)>>,
   <<Start(1, 0, 0, 4, 96), Images(1, 96, <<0>>), Images(1, 96, <<2, 3>>), Images(1, 96, <<4>>),
     End(1, 4), Start(2, 0, 0, 3, 96), Images(2, 96, <<0>>), Images(2, 96, <<1>>), End(2, 2)>>,
   <<Start(1, 2, 1, 2, 96), Images(1, 96, <<0, 1>>), Start(2, 0, 0, 4, 192),
     Images(2, 192, <<0, 1, 2>>), Start(3, 1, 2, 2, 192), End(3, 0)>>,
   <<Start(1, 3, 1, 3, 96), Images(1, 96, <<0>>), Images(1, 96, <<1, 2, 3>>), End(1, 4),
     Start(2, 1, 1, 1, 192), Images(2, 192, <<0>>), End(2, 1)>>,
   <<Start(1, 1, 3, 4, 96), Images(1, 96, <<0, 1>>), Images(1, 96, <<2, 4, 5>>), End(1, 5),
     Start(2, 2, 2, 4, 96), Images(2, 96, <<0, 2>>), End(2, 2),
     Start(3, 1, 1, 1, 96), Images(3, 96, <<0>>), End(3, 1)>>,
   <<Start(1, 1, 1, 1, 96), Images(1, 96, <<0>>), End(1, 1), Start(2, 3, 0, 3, 96)>>,
   <<Start(1, 1, 1, 1, 96), Images(1, 96, <<0>>), End(1, 0)>>,
   <<Start(1, 1, 1, 1, 96), Images(1, 96, <<0>>), End(1, 1), Start(2, 1, 2, 2, 192),
     Images(2, 192, <<0>>), Images(2, 96, <<1>>), End(2, 2)>>}
-----------------------------------------------------------------------------
\* What AnsEncoderProofs assumes of the batches holds of these.
ASSUME FeedsAssumption == FeedsOrdered /\ SeriesRise /\ SeriesInOrder
=============================================================================
