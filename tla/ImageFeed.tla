------------------------------- MODULE ImageFeed -------------------------------
(***************************************************************************)
(* What an ingest source promises downstream: READY once, then the items   *)
(* the sender produced (START, images, END of each series) in order and    *)
(* exactly once.  An output message is one START or END, or a batch of     *)
(* consecutive images of one series.                                       *)
(***************************************************************************)
EXTENDS Integers, Sequences

CONSTANT BatchSize

VARIABLES
  produced,   \* items the sender has committed to
  delivered,  \* items emitted downstream
  ready       \* READY has been emitted

feedVars == <<produced, delivered, ready>>

Init == produced = <<>> /\ delivered = <<>> /\ ready = FALSE

\* The sender's next record: one control item, or some images.
Produce ==
  /\ Len(produced') > Len(produced)
  /\ SubSeq(produced', 1, Len(produced)) = produced
  /\ UNCHANGED <<delivered, ready>>

Announce ==
  /\ ~ready /\ delivered = <<>>
  /\ ready' = TRUE
  /\ UNCHANGED <<produced, delivered>>

NextItems(k) == SubSeq(produced, Len(delivered) + 1, Len(delivered) + k)

Message(items) ==
  \/ Len(items) = 1
  \/ /\ Len(items) \in 1 .. BatchSize
     /\ \A i \in DOMAIN items :
          items[i].kind = "image" /\ items[i].series = items[1].series

Deliver ==
  /\ ready
  /\ \E k \in 1 .. (Len(produced) - Len(delivered)) :
       /\ Message(NextItems(k))
       /\ delivered' = delivered \o NextItems(k)
  /\ UNCHANGED <<produced, ready>>

Next == Produce \/ Announce \/ Deliver

Spec == Init /\ [][Next]_feedVars
=============================================================================
