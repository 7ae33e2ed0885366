---------------------------- MODULE MCAcquisition ----------------------------
(* Instance of Acquisition for TLC. *)
EXTENDS Acquisition

Start(s) == Item("start", s, 0)
Image(s, i) == Item("image", s, i)
End(s, n) == Item("end", s, n)

\* A batch and a half, an empty series, and exactly one batch.
Good == <<Start(1), Image(1, 0), Image(1, 1), Image(1, 2), End(1, 3),
          Start(2), End(2, 0), Start(3), Image(3, 0), Image(3, 2), End(3, 2)>>

\* A second START, an image and an END outside a series, and no END.
Twice   == <<Start(1), Image(1, 0), Start(2)>>
Outside == <<Start(1), Image(1, 0), End(1, 1), Image(1, 1)>>
EndOnly == <<End(1, 0)>>
Cut     == <<Start(1), Image(1, 0), Image(1, 1), Image(1, 2)>>

\* <<>>: the detector's messages.
AllPlans == {<<>>, Good, Twice, Outside, EndOnly, Cut}

Call(step, binned, time) == [step |-> step, binned |-> binned, frame_time |-> time]

SomeCalls ==
  {Call("check", TRUE, 0), Call("apply", TRUE, 3), Call("apply", FALSE, 1), Call("arm", FALSE, 0),
   Call("disarm", FALSE, 0), Call("scan", TRUE, 0), Call("scan", FALSE, 3)}

Parameters(mode, triggers, per, time) ==
  [mode |-> mode, ntrigger |-> triggers, nimages |-> per, frame_time |-> time,
   count_time |-> time - 1]

\* A DCU that is set up, without binning; and one that needs everything.
SomeSetups ==
  {Parameters("enabled", 2, 1, 3),
   [binning_mode |-> "1x1", mode |-> "disabled", ntrigger |-> 1, nimages |-> 2, frame_time |-> 5,
    count_time |-> 4],
   [binning_mode |-> "2x2", mode |-> "enabled", ntrigger |-> 2, nimages |-> 2, frame_time |-> 3,
    count_time |-> 2]}

Meddles == {<<"nimages", 2>>}
=============================================================================
