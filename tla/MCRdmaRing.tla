------------------------------ MODULE MCRdmaRing ------------------------------
(* Instances of RdmaRing for TLC. *)
EXTENDS RdmaRing

Start(s)       == [kind |-> "start", series |-> s, id |-> 0, n |-> 0]
Images(s, i, k) == [kind |-> "image", series |-> s, id |-> i, n |-> k]
End(s, k)      == [kind |-> "end", series |-> s, id |-> 0, n |-> k]

\* A frame larger than a batch, a short last frame, then an empty series.
SplitPlan ==
  <<Start(1), Images(1, 0, 3), Images(1, 3, 1), End(1, 4), Start(2), End(2, 0)>>

\* Single images: frames smaller than a batch, several credits in a row.
SmallPlan ==
  <<Start(1), Images(1, 0, 1), Images(1, 1, 1), Images(1, 2, 1), End(1, 3),
    Start(2), Images(2, 0, 2), End(2, 2)>>

\* A sender that goes away inside a series (--cut-after).
CutPlan == <<Start(1), Images(1, 0, 3), Images(1, 3, 3)>>

AllPlans   == {SplitPlan, SmallPlan, CutPlan}
=============================================================================
