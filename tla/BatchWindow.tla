----------------------------- MODULE BatchWindow -----------------------------
(***************************************************************************)
(* batch_window.hpp: one publisher numbers its batches 1, 2, ... and stops  *)
(* Capacity ahead of the slowest consumer's release.  A consumer takes the  *)
(* batches in order; its callback releases a batch before the runtime       *)
(* commits that the input is consumed, so a released batch may still hold   *)
(* its queue slot.                                                          *)
(***************************************************************************)
EXTENDS Integers

CONSTANTS
  Capacity,   \* capacity_
  Consumers,  \* consumer numbers
  Last        \* batches the publisher has to publish

\* What the theorems assume of the constants.
WindowConstants ==
  /\ Capacity \in Nat \ {0}
  /\ Last \in Nat

VARIABLES
  published,  \* batches published so far
  released,   \* released_[c]: the highest batch consumer c has released
  taken       \* batches consumer c has consumed, as the runtime sees it

windowVars == <<published, released, taken>>

-----------------------------------------------------------------------------
\* admits: `next` is at most Capacity ahead of the least of the values loaded.
\* (The code's other disjunct only avoids an unsigned difference below zero.)
Admits(next, seen) == \A c \in DOMAIN seen : next - seen[c] <= Capacity

\* admits loads the counters one after the other while consumers advance them:
\* what it has seen of each is its value now or an earlier one.
Seen == {s \in [DOMAIN released -> 0 .. published] :
           \A c \in DOMAIN released : s[c] <= released[c]}

MayPublish(next) == \E s \in Seen : Admits(next, s)

\* release only ever raises the counter.
Released(c, id) == [released EXCEPT ![c] = IF @ < id THEN id ELSE @]

-----------------------------------------------------------------------------
Init ==
  /\ published = 0
  /\ released = [c \in Consumers |-> 0]
  /\ taken = [c \in Consumers |-> 0]

Publish ==
  /\ published < Last
  /\ MayPublish(published + 1)
  /\ published' = published + 1
  /\ UNCHANGED <<released, taken>>

\* The callback of c releases its input...
Release(c) ==
  /\ taken[c] < published /\ released[c] <= taken[c]
  /\ released' = Released(c, taken[c] + 1)
  /\ UNCHANGED <<published, taken>>

\* ...and returns.
Commit(c) ==
  /\ released[c] > taken[c]
  /\ taken' = [taken EXCEPT ![c] = @ + 1]
  /\ UNCHANGED <<published, released>>

Next == Publish \/ \E c \in Consumers : Release(c) \/ Commit(c)

Spec == Init /\ [][Next]_windowVars

-----------------------------------------------------------------------------
TypeOK ==
  /\ published \in 0 .. Last
  /\ released \in [Consumers -> 0 .. Last]
  /\ taken \in [Consumers -> 0 .. Last]

\* A consumer's queue never holds more than Capacity + 1 batches, however the
\* loads of admits interleave with releases: with a capacity of queue_depth - 1
\* (app.py) the publisher cannot meet a full queue.
EdgeBound == \A c \in Consumers : published - taken[c] <= Capacity + 1

\* A release speaks of the batch in the consumer's hands, never of a later one.
ReleaseInOrder ==
  \A c \in Consumers : released[c] - taken[c] \in {0, 1} /\ released[c] <= published
=============================================================================
