---------------------------- MODULE ParallaxProofs ----------------------------
(***************************************************************************)
(* What is tuned is what is shown and what is saved, and the page is shown  *)
(* it in order, for every scan, every series and every change, whatever is  *)
(* refused, interrupted or fails.  The first parts are about the engine: a  *)
(* batch is a loop over its passes, and keeps what the accumulator was      *)
(* built for.  Then: an image holds what its mode says, if the batches come *)
(* as OnePerPosition and LateByOnePass say, and what is saved is the scan   *)
(* that came, with a file for each of its passes.  The last part is about   *)
(* the pictures of the page, for every snapshot size and every request.     *)
(***************************************************************************)
EXTENDS ParallaxRuntime, PageImages, FiniteSetTheorems, WellFoundedInduction, SequenceTheorems, TLAPS

-----------------------------------------------------------------------------
(* Finite sets of integers.                                                 *)

\* A finite set of integers has a greatest element.
LEMMA Greatest ==
  ASSUME NEW S \in SUBSET Int, S # {}, IsFiniteSet(S)
  PROVE  Max(S) \in S /\ \A x \in S : x <= Max(S)
<1> DEFINE Above(x) == {y \in S : y > x}
           T == {Above(x) : x \in S}
           R == StrictSubsetOrdering(S)
<1>1. T \subseteq FiniteSubsetsOf(S)
  <2> SUFFICES ASSUME NEW x \in S PROVE Above(x) \in FiniteSubsetsOf(S)
    OBVIOUS
  <2>1. Above(x) \in SUBSET S
    OBVIOUS
  <2>2. IsFiniteSet(Above(x))
    BY <2>1, FS_Subset
  <2> QED
    BY <2>1, <2>2 DEF FiniteSubsetsOf
<1>2. IsWellFoundedOn(R, FiniteSubsetsOf(S))
  BY FS_StrictSubsetOrderingWellFounded
<1>3. T # {}
  OBVIOUS
<1> HIDE DEF R
<1>4. PICK t \in T : \A u \in T : ~ (<<u, t>> \in R)
  BY <1>1, <1>2, <1>3, WFMin
<1>5. PICK m \in S : t = Above(m)
  OBVIOUS
<1>6. ASSUME NEW x \in S, x > m PROVE FALSE
  <2>1. Above(x) \subseteq Above(m) /\ x \in Above(m) /\ x \notin Above(x)
    <3>1. \A y \in S : y \in Int
      OBVIOUS
    <3>2. \A y \in S : y > x => y > m
      BY <1>6, <3>1
    <3>3. ~ (x > x)
      BY <3>1
    <3> QED
      BY <1>6, <3>2, <3>3
  <2>2. Above(x) \in T /\ Above(x) \in SUBSET S /\ Above(m) \in SUBSET S
    OBVIOUS
  <2>3. <<Above(x), Above(m)>> \in R
    BY <2>1, <2>2 DEF R, StrictSubsetOrdering
  <2> QED
    BY <2>2, <2>3, <1>4, <1>5
<1>7. \A x \in S : m >= x
  BY <1>6
<1> QED
  BY <1>7 DEF Max

\* And a least one.
LEMMA Least ==
  ASSUME NEW S \in SUBSET Int, S # {}, IsFiniteSet(S)
  PROVE  Min(S) \in S /\ \A x \in S : Min(S) <= x
<1> DEFINE T == {-x : x \in S}
<1>1. T \in SUBSET Int /\ T # {}
  <2>1. PICK x : x \in S
    OBVIOUS
  <2>2. -x \in T
    BY <2>1
  <2> QED
    BY <2>2
<1>2. IsFiniteSet(T)
  <2> DEFINE f == [x \in S |-> -x]
  <2>1. f \in Surjection(S, T)
    BY DEF Surjection
  <2> QED
    BY <2>1, FS_Surjection
<1>3. Max(T) \in T /\ \A y \in T : y <= Max(T)
  BY <1>1, <1>2, Greatest
<1>4. PICK m \in S : Max(T) = -m
  BY <1>3
<1>5. \A x \in S : m =< x
  <2> TAKE x \in S
  <2>1. -x <= -m
    BY <1>3, <1>4
  <2> QED
    BY <2>1
<1> QED
  BY <1>5 DEF Min


\* What holds below an interval, and of each of its numbers if of the one before it, holds of all.
LEMMA Climb ==
  ASSUME NEW lo \in Int, NEW hi \in Int, lo - 1 <= hi, NEW S,
         lo - 1 \in S, \A k \in lo .. hi : k - 1 \in S => k \in S
  PROVE  \A k \in (lo - 1) .. hi : k \in S
<1> DEFINE Missed == {k \in (lo - 1) .. hi : k \notin S}
<1>1. SUFFICES ASSUME Missed # {} PROVE FALSE
  OBVIOUS
<1>2. IsFiniteSet(Missed)
  <2>1. IsFiniteSet((lo - 1) .. hi)
    BY FS_Interval
  <2> QED
    BY <2>1, FS_Subset
<1>3. Missed \in SUBSET Int
  OBVIOUS
<1>4. Min(Missed) \in Missed /\ \A x \in Missed : Min(Missed) <= x
  BY <1>1, <1>2, <1>3, Least
<1> DEFINE m == Min(Missed)
<1>5. m \in (lo - 1) .. hi /\ m \notin S /\ \A x \in Missed : m <= x
  BY <1>4
<1> HIDE DEF m
<1>6. m \in lo .. hi
  BY <1>5
<1>7. m - 1 \in (lo - 1) .. hi /\ ~ (m <= m - 1)
  BY <1>6
<1>8. m - 1 \in S
  BY <1>5, <1>7
<1> QED
  BY <1>5, <1>6, <1>8

-----------------------------------------------------------------------------
(* The passes of a batch, one after the other.                              *)

\* The accumulator behind each pass of a batch.
Behind(f, acc_, lo, hi, frames, disk) ==
  /\ f = [k \in (lo - 1) .. hi |-> f[k]]
  /\ f[lo - 1] = acc_
  /\ \A k \in lo .. hi : f[k] = TakePass(f[k - 1], k, frames, disk)

\* There is one, and it is what TakePasses computes.
LEMMA PassByPass ==
  ASSUME NEW lo \in Int, NEW hi \in Int, lo - 1 <= hi, NEW acc_, NEW frames, NEW disk
  PROVE  \E f : Behind(f, acc_, lo, hi, frames, disk) /\ TakePasses(acc_, lo, hi, frames, disk) = f[hi]
<1> DEFINE Step(c, k) == TakePass(c, k, frames, disk)
           Upto(g, n) == /\ g = [k \in (lo - 1) .. n |-> g[k]]
                         /\ g[lo - 1] = acc_
                         /\ \A k \in lo .. n : g[k] = Step(g[k - 1], k)
           S == {n \in (lo - 1) .. hi : \E g : Upto(g, n)}
<1> HIDE DEF Step
<1>1. lo - 1 \in S
  <2> DEFINE g == [k \in (lo - 1) .. (lo - 1) |-> acc_]
  <2>1. Upto(g, lo - 1)
    OBVIOUS
  <2> QED
    BY <2>1
<1>2. ASSUME NEW n \in lo .. hi, n - 1 \in S PROVE n \in S
  <2>1. PICK g : Upto(g, n - 1)
    BY <1>2
  <2> DEFINE h == [k \in (lo - 1) .. n |-> IF k = n THEN Step(g[n - 1], n) ELSE g[k]]
  <2>2. h = [k \in (lo - 1) .. n |-> h[k]]
    OBVIOUS
  <2>3. h[lo - 1] = acc_
    BY <2>1
  <2>4. ASSUME NEW k \in lo .. n PROVE h[k] = Step(h[k - 1], k)
    <3>1. k - 1 \in (lo - 1) .. n /\ k \in (lo - 1) .. n /\ k - 1 # n
      OBVIOUS
    <3>2. h[k - 1] = g[k - 1]
      BY <3>1
    <3>3. CASE k = n
      BY <3>1, <3>2, <3>3
    <3>4. CASE k # n
      <4>1. k \in lo .. (n - 1)
        BY <3>4
      <4> QED
        BY <3>1, <3>2, <3>4, <4>1, <2>1
    <3> QED
      BY <3>3, <3>4
  <2>5. Upto(h, n)
    BY <2>2, <2>3, <2>4
  <2> HIDE DEF Upto, h
  <2> QED
    BY <2>5
<1>3. hi \in S
  <2> HIDE DEF S
  <2>1. \A k \in (lo - 1) .. hi : k \in S
    BY <1>1, <1>2, Climb
  <2> QED
    BY <2>1
<1>4. PICK f : Upto(f, hi)
  BY <1>3
<1>5. Behind(f, acc_, lo, hi, frames, disk)
  BY <1>4 DEF Behind, Step
<1> DEFINE Rule(g) == [k \in (lo - 1) .. hi |-> IF k < lo THEN acc_ ELSE Step(g[k - 1], k)]
           value == CHOOSE g : g = Rule(g)
<1>6. f = Rule(f)
  <2>1. \A k \in (lo - 1) .. hi : f[k] = IF k < lo THEN acc_ ELSE Step(f[k - 1], k)
    <3> TAKE k \in (lo - 1) .. hi
    <3>1. CASE k < lo
      <4>1. k = lo - 1
        BY <3>1
      <4> QED
        BY <4>1, <3>1, <1>4
    <3>2. CASE ~ (k < lo)
      <4>1. k \in lo .. hi
        BY <3>2
      <4> QED
        BY <4>1, <3>2, <1>4
    <3> QED
      BY <3>1, <3>2
  <2> QED
    BY <2>1, <1>4
<1>7. value = Rule(value)
  BY <1>6
<1>8. \A k \in (lo - 1) .. hi : value[k] = f[k]
  <2> DEFINE Same == {k \in (lo - 1) .. hi : value[k] = f[k]}
  <2>1. lo - 1 \in Same
    <3>1. lo - 1 \in (lo - 1) .. hi /\ lo - 1 < lo
      OBVIOUS
    <3>2. value[lo - 1] = acc_
      BY <3>1, <1>7
    <3> QED
      BY <3>1, <3>2, <1>4
  <2>2. ASSUME NEW k \in lo .. hi, k - 1 \in Same PROVE k \in Same
    <3>1. k \in (lo - 1) .. hi /\ ~ (k < lo)
      OBVIOUS
    <3>2. value[k] = Step(value[k - 1], k)
      BY <3>1, <1>7
    <3> HIDE DEF value
    <3> QED
      BY <3>1, <3>2, <2>2, <1>4
  <2> HIDE DEF Same
  <2>3. \A k \in (lo - 1) .. hi : k \in Same
    BY <2>1, <2>2, Climb
  <2> USE DEF Same
  <2> QED
    BY <2>3
<1>9. TakePasses(acc_, lo, hi, frames, disk) = value[hi]
  BY DEF TakePasses, Step
<1>10. hi \in (lo - 1) .. hi
  OBVIOUS
<1> HIDE DEF value
<1> QED
  BY <1>5, <1>8, <1>9, <1>10

-----------------------------------------------------------------------------
(* The accumulator.                                                         *)

\* A frame, and an accumulator, as far as the proofs look into them.
IsFrame(f) == {"s", "i", "a", "g"} \subseteq DOMAIN f /\ f.s \in Nat /\ f.i \in Nat /\ f.a \in Nat
IsFront(c) == {"pass", "frames"} \subseteq DOMAIN c /\ c.pass \in Int /\ \A f \in c.frames : IsFrame(f)

IsAcc(a) ==
  /\ {"mode", "wrap", "geo", "kind", "offset", "last", "start", "image", "pass", "closed", "front",
      "filed", "done"} \subseteq DOMAIN a
  /\ a.wrap \in BOOLEAN /\ a.closed \in BOOLEAN /\ a.filed \in BOOLEAN
  /\ a.offset \in Nat /\ a.last \in Int /\ a.last >= -1 /\ a.pass \in Int /\ a.pass >= -1
  /\ \A f \in a.image : IsFrame(f)
  /\ \A c \in a.front : IsFront(c)

\* What the frames of a batch do not change.
Carried(a, b) ==
  /\ IsAcc(b) /\ b.last = a.last
  /\ b.mode = a.mode /\ b.geo = a.geo /\ b.wrap = a.wrap /\ b.offset = a.offset /\ b.filed = a.filed

LEMMA PositionsPositive == Positions \in Nat /\ Positions > 0
<1>1. \A m, n \in Nat \ {0} : m * n \in Nat /\ m * n > 0
  OBVIOUS
<1> QED
  BY <1>1, ParallaxAssumption DEF Positions

LEMMA PassIsNat ==
  ASSUME NEW f, IsFrame(f) PROVE PassOf(f) \in Nat
  BY PositionsPositive DEF PassOf, IsFrame

LEMMA DepositCarries ==
  ASSUME NEW a, IsAcc(a), NEW frames, \A f \in frames : IsFrame(f)
  PROVE  Carried(a, Deposit(a, frames))
<1>1. \A f \in Held(a, frames) : IsFrame(f)
  BY DEF Held, IsAcc
<1> QED
  BY <1>1 DEF Deposit, Begun, Carried, IsAcc

LEMMA LateCarries ==
  ASSUME NEW a, IsAcc(a), NEW frames, \A f \in frames : IsFrame(f)
  PROVE  Carried(a, Late(a, frames))
<1>1. CASE a.mode = "swap"
  <2> DEFINE More(c) == [c EXCEPT !.frames = @ \cup frames]
  <2>1. \A c \in a.front : IsFront(More(c))
    BY DEF IsAcc, IsFront
  <2> HIDE DEF More
  <2>2. Late(a, frames) = [a EXCEPT !.front = {More(c) : c \in @}]
    BY <1>1 DEF Late, More
  <2> QED
    BY <2>1, <2>2 DEF Carried, IsAcc
<1>2. CASE a.mode = "reset"
  BY <1>2 DEF Late, Carried
<1>3. CASE a.mode \notin {"swap", "reset"}
  BY <1>3, DepositCarries DEF Late
<1> QED
  BY <1>1, <1>2, <1>3

LEMMA ClosePassCarries ==
  ASSUME NEW a, IsAcc(a) PROVE Carried(a, ClosePass(a))
<1>1. CASE KeepsFront(a)
  <2> DEFINE c == [pass |-> a.pass, frames |-> a.image]
             now == [a EXCEPT !.front = {c}, !.image = {}, !.start = NoId]
  <2>1. IsFront(c)
    BY DEF IsAcc, IsFront
  <2>2. Carried(a, now)
    BY <2>1 DEF Carried, IsAcc
  <2>3. \E x : ClosePass(a) = [now EXCEPT !.closed = TRUE, !.done = x]
    BY <1>1 DEF ClosePass
  <2> HIDE DEF now
  <2> QED
    BY <2>2, <2>3 DEF Carried, IsAcc
<1>2. CASE ~KeepsFront(a)
  <2>1. \E x : ClosePass(a) = [a EXCEPT !.closed = TRUE, !.done = x]
    BY <1>2 DEF ClosePass
  <2> QED
    BY <2>1 DEF Carried, IsAcc
<1> QED
  BY <1>1, <1>2

LEMMA OpenPassCarries ==
  ASSUME NEW a, IsAcc(a), NEW k \in Nat
  PROVE  Carried(a, OpenPass(a, k))
<1>1. CASE k <= a.pass
  BY <1>1 DEF OpenPass, Carried
<1>2. CASE ~ (k <= a.pass)
  <2> DEFINE b == IF Closes(a, k) THEN ClosePass(a) ELSE a
  <2>1. Carried(a, b)
    BY ClosePassCarries DEF Carried
  <2>2. OpenPass(a, k) = [b EXCEPT !.pass = k, !.closed = FALSE]
    BY <1>2 DEF OpenPass
  <2> HIDE DEF b
  <2> QED
    BY <2>1, <2>2 DEF Carried, IsAcc
<1> QED
  BY <1>1, <1>2

LEMMA AcceptPassCarries ==
  ASSUME NEW a, IsAcc(a), NEW k \in Nat, NEW frames, \A f \in frames : IsFrame(f)
  PROVE  Carried(a, AcceptPass(a, k, frames))
<1> DEFINE b == OpenPass(a, k)
<1>1. Carried(a, b) /\ IsAcc(b)
  BY OpenPassCarries DEF Carried
<1>2. AcceptPass(a, k, frames) = IF k < b.pass \/ b.closed THEN Late(b, frames) ELSE Deposit(b, frames)
  BY DEF AcceptPass
<1> HIDE DEF b
<1>3. Carried(b, AcceptPass(a, k, frames))
  BY <1>1, <1>2, LateCarries, DepositCarries
<1> QED
  BY <1>1, <1>3 DEF Carried

LEMMA TakePassCarries ==
  ASSUME NEW a, IsAcc(a), NEW k \in Nat, NEW frames, \A f \in frames : IsFrame(f), NEW disk
  PROVE  Carried(a, TakePass(a, k, frames, disk))
<1>1. \A f \in InPass(frames, k) : IsFrame(f)
  BY DEF InPass
<1>2. Carried(a, a)
  BY DEF Carried
<1> QED
  BY <1>1, <1>2, ClosePassCarries, AcceptPassCarries DEF TakePass

\* The first and the last pass of a batch.
LEMMA PassRange ==
  ASSUME NEW frames, frames # {}, IsFiniteSet(frames), \A f \in frames : IsFrame(f)
  PROVE  /\ FirstPass(frames) \in Nat /\ FinalPass(frames) \in Nat
         /\ FirstPass(frames) <= FinalPass(frames)
         /\ \A f \in frames : PassOf(f) \in FirstPass(frames) .. FinalPass(frames)
         /\ \E f \in frames : PassOf(f) = FirstPass(frames)
<1> DEFINE S == {PassOf(f) : f \in frames}
<1>1. S \in SUBSET Nat
  BY PassIsNat
<1>2. S \in SUBSET Int /\ S # {}
  BY <1>1
<1>3. IsFiniteSet(S)
  <2> DEFINE h == [f \in frames |-> PassOf(f)]
  <2>1. h \in Surjection(frames, S)
    BY DEF Surjection
  <2> QED
    BY <2>1, FS_Surjection
<1> HIDE DEF S
<1>4. Min(S) \in S /\ Max(S) \in S /\ (\A x \in S : Min(S) <= x) /\ (\A x \in S : x <= Max(S))
  BY <1>2, <1>3, Greatest, Least
<1>5. FirstPass(frames) = Min(S) /\ FinalPass(frames) = Max(S)
  BY DEF FirstPass, FinalPass, S
<1>6. \A f \in frames : PassOf(f) \in S
  BY DEF S
<1>7. ASSUME NEW f \in frames PROVE PassOf(f) \in Min(S) .. Max(S)
  <2>1. PassOf(f) \in S /\ PassOf(f) \in Nat /\ Min(S) \in Nat /\ Max(S) \in Nat
    BY <1>1, <1>4, <1>6
  <2>2. Min(S) <= PassOf(f) /\ PassOf(f) <= Max(S)
    BY <2>1, <1>4
  <2> QED
    BY <2>1, <2>2
<1>8. \E f \in frames : PassOf(f) = Min(S)
  BY <1>4 DEF S
<1> QED
  BY <1>1, <1>4, <1>5, <1>7, <1>8

\* The passes of a batch change the image and the pass, nothing else.
LEMMA TakePassesCarries ==
  ASSUME NEW a, IsAcc(a), NEW lo \in Nat, NEW hi \in Nat, lo <= hi,
         NEW frames, \A f \in frames : IsFrame(f), NEW disk
  PROVE  Carried(a, TakePasses(a, lo, hi, frames, disk))
<1>1. PICK g : Behind(g, a, lo, hi, frames, disk) /\ TakePasses(a, lo, hi, frames, disk) = g[hi]
  BY PassByPass
<1> DEFINE S == {k \in (lo - 1) .. hi : Carried(a, g[k])}
<1>2. lo - 1 \in S
  BY <1>1 DEF Behind, Carried
<1>3. ASSUME NEW k \in lo .. hi, k - 1 \in S PROVE k \in S
  <2>1. g[k] = TakePass(g[k - 1], k, frames, disk)
    BY <1>1 DEF Behind
  <2>2. Carried(a, g[k - 1])
    BY <1>3
  <2>3. k \in Nat /\ k \in (lo - 1) .. hi
    OBVIOUS
  <2>4. Carried(g[k - 1], g[k])
    BY <2>1, <2>2, <2>3, TakePassCarries DEF Carried
  <2>5. Carried(a, g[k])
    BY <2>2, <2>4 DEF Carried
  <2> QED
    BY <2>3, <2>5
<1> HIDE DEF S
<1>4. hi \in S
  BY <1>2, <1>3, Climb
<1> QED
  BY <1>1, <1>4 DEF S

\* The same for a step that moves the scan cursor.
Fed(a, b) ==
  /\ IsAcc(b)
  /\ b.mode = a.mode /\ b.geo = a.geo /\ b.wrap = a.wrap /\ b.offset = a.offset /\ b.filed = a.filed

LEMMA MovedIs ==
  ASSUME NEW a, IsAcc(a), NEW frames, frames # {}, IsFiniteSet(frames), \A f \in frames : IsFrame(f)
  PROVE  /\ Fed(a, Moved(a, frames))
         /\ \A f \in frames : f.a <= Moved(a, frames).last
         /\ a.last <= Moved(a, frames).last
         /\ \E x : Moved(a, frames) = [a EXCEPT !.last = x]
<1> DEFINE S == {a.last} \cup {f.a : f \in frames}
<1>1. S \in SUBSET Int /\ S # {}
  BY DEF IsAcc, IsFrame
<1>2. IsFiniteSet(S)
  <2> DEFINE h == [f \in frames |-> f.a]
             T == {f.a : f \in frames}
  <2>1. h \in Surjection(frames, T)
    BY DEF Surjection
  <2>2. IsFiniteSet(T)
    BY <2>1, FS_Surjection
  <2>3. IsFiniteSet(T \cup {a.last})
    BY <2>2, FS_AddElement
  <2>4. S = T \cup {a.last}
    OBVIOUS
  <2> QED
    BY <2>3, <2>4
<1>3. Max(S) \in S /\ \A x \in S : x <= Max(S)
  BY <1>1, <1>2, Greatest
<1>4. Moved(a, frames) = [a EXCEPT !.last = Max(S)]
  BY DEF Moved
<1>5. a.last \in S /\ \A f \in frames : f.a \in S
  OBVIOUS
<1> HIDE DEF S
<1>6. Max(S) \in Int /\ Max(S) >= -1
  <2>1. a.last \in Int /\ a.last >= -1 /\ a.last <= Max(S) /\ Max(S) \in Int
    BY <1>1, <1>3, <1>5 DEF IsAcc
  <2> QED
    BY <2>1
<1>7. Moved(a, frames).last = Max(S)
  BY <1>4 DEF IsAcc
<1>8. Fed(a, Moved(a, frames))
  BY <1>4, <1>6 DEF Fed, IsAcc
<1> QED
  BY <1>3, <1>4, <1>5, <1>7, <1>8

LEMMA ProcessFeeds ==
  ASSUME NEW a, IsAcc(a), NEW kind, NEW disk,
         NEW frames, frames # {}, IsFiniteSet(frames), \A f \in frames : IsFrame(f)
  PROVE  Fed(a, Process(a, kind, frames, disk))
<1> DEFINE x == IF a.mode = "latest" /\ Moved(a, frames).kind = "none" THEN kind ELSE Moved(a, frames).kind
           m == [Moved(a, frames) EXCEPT !.kind = x]
<1>1. Fed(a, m)
  BY MovedIs DEF Fed, IsAcc
<1>2. Process(a, kind, frames, disk)
        = IF Tracks(a) THEN TakePasses(m, FirstPass(frames), FinalPass(frames), frames, disk)
          ELSE Deposit(m, frames)
  BY DEF Process
<1> HIDE DEF m
<1>3. Carried(m, Process(a, kind, frames, disk))
  BY <1>1, <1>2, PassRange, TakePassesCarries, DepositCarries DEF Fed
<1> QED
  BY <1>1, <1>3 DEF Fed, Carried

LEMMA RefusedFeeds ==
  ASSUME NEW a, IsAcc(a), NEW frames, frames # {}, IsFiniteSet(frames), \A f \in frames : IsFrame(f)
  PROVE  Fed(a, Refused(a, frames))
<1> DEFINE m == Moved(a, frames)
           o == OpenPass(m, FirstPass(frames))
<1>1. Fed(a, m) /\ IsAcc(m)
  BY MovedIs DEF Fed
<1>2. Carried(m, o)
  BY <1>1, PassRange, OpenPassCarries
<1> HIDE DEF m, o
<1>3. \E x : Refused(a, frames) = [o EXCEPT !.start = x] \/ Refused(a, frames) = [m EXCEPT !.start = x]
  BY DEF Refused, Begun, m, o
<1> QED
  BY <1>1, <1>2, <1>3 DEF Fed, Carried, IsAcc

LEMMA EndSeriesCarries ==
  ASSUME NEW a, IsAcc(a) PROVE Carried(a, EndSeries(a))
  BY ClosePassCarries DEF EndSeries, Carried

LEMMA SettledCarries ==
  ASSUME NEW a, IsAcc(a) PROVE Carried(a, Settled(a)) /\ Settled(a).done = <<>>
  BY DEF Settled, Carried, IsAcc

\* The quotient and the rest.
LEMMA Quotient ==
  ASSUME NEW n \in Nat, NEW d \in Nat, d > 0
  PROVE  n \div d \in Nat /\ n % d \in 0 .. (d - 1) /\ n = d * (n \div d) + (n % d)
<1>1. n = d * (n \div d) + (n % d) /\ 0 <= n % d /\ n % d < d /\ n \div d \in Int /\ n % d \in Int
  BY SMT
<1>2. ASSUME NEW q \in Int, q < 0 PROVE d * q <= -d
  BY <1>2, SMT
<1>3. ~ (n \div d < 0)
  <2> SUFFICES ASSUME n \div d < 0 PROVE FALSE
    OBVIOUS
  <2> DEFINE q == n \div d
  <2>1. d * q <= -d /\ q \in Int
    BY <1>1, <1>2
  <2>2. n = d * q + (n % d)
    BY <1>1
  <2> HIDE DEF q
  <2> QED
    BY <2>1, <2>2, <1>1, SMT
<1>4. n % d \in 0 .. (d - 1)
  BY <1>1
<1>5. n \div d \in Nat
  BY <1>1, <1>3
<1> QED
  BY <1>1, <1>4, <1>5

\* A multiple divides without a rest.
LEMMA Multiple ==
  ASSUME NEW q \in Nat, NEW d \in Nat, d > 0
  PROVE  q * d \in Nat /\ (q * d) % d = 0 /\ (q * d) \div d = q
  BY SMT

LEMMA NextMultiple ==
  ASSUME NEW n \in Nat, NEW d \in Nat, d > 0
  PROVE  LET x == (n \div d + 1) * d IN x \in Nat /\ x % d = 0 /\ x > n
<1> DEFINE q == n \div d
<1>1. q \in Nat /\ n % d \in 0 .. (d - 1) /\ n = d * q + (n % d)
  BY Quotient
<1> HIDE DEF q
<1>2. q + 1 \in Nat /\ (q + 1) * d = d * q + d /\ d * q \in Nat
  BY <1>1
<1>3. (q + 1) * d \in Nat /\ ((q + 1) * d) % d = 0
  BY <1>2, Multiple
<1>4. (q + 1) * d > n
  BY <1>1, <1>2
<1> QED
  BY <1>3, <1>4 DEF q

\* A new series continues behind the last pass.
LEMMA StartSeriesIs ==
  ASSUME NEW a, IsAcc(a), a.offset % Positions = 0
  PROVE  /\ IsAcc(StartSeries(a)) /\ StartSeries(a).offset % Positions = 0
         /\ StartSeries(a) = a \/ StartSeries(a) = [a EXCEPT !.offset = NextOffset(a)]
         /\ a.wrap /\ a.last >= 0 => StartSeries(a).offset > a.last
<1> DEFINE P == Positions
<1>1. P \in Nat /\ P > 0
  BY PositionsPositive
<1> HIDE DEF P
<1>2. \A n \in Nat : LET x == (n \div P + 1) * P IN x \in Nat /\ x % P = 0 /\ x > n
  BY <1>1, NextMultiple
<1>3. NextOffset(a) \in Nat /\ NextOffset(a) % P = 0 /\ (a.last >= 0 => NextOffset(a) > a.last)
  <2>1. CASE a.last >= 0
    <3>1. a.last \in Nat
      BY <2>1 DEF IsAcc
    <3>2. NextOffset(a) = (a.last \div P + 1) * P
      BY <2>1 DEF NextOffset, P
    <3> QED
      BY <3>1, <3>2, <1>2
  <2>2. CASE ~ (a.last >= 0)
    BY <2>2 DEF NextOffset, IsAcc, P
  <2> QED
    BY <2>1, <2>2
<1>4. CASE a.wrap
  <2>1. StartSeries(a) = [a EXCEPT !.offset = NextOffset(a)]
    BY <1>4 DEF StartSeries
  <2> QED
    BY <2>1, <1>3 DEF IsAcc, P
<1>5. CASE ~a.wrap
  BY <1>5 DEF StartSeries
<1> QED
  BY <1>4, <1>5

LEMMA SetGeometryIs ==
  ASSUME NEW a, IsAcc(a), NEW geo
  PROVE  LET b == SetGeometry(a, geo)
         IN /\ IsAcc(b) /\ b.geo = geo /\ b.mode = a.mode /\ b.wrap = a.wrap /\ b.filed = a.filed
            /\ b.done = a.done /\ b.offset = a.offset /\ b.last = a.last /\ b.pass = a.pass
            /\ b.closed = a.closed
<1>1. CASE a.mode = "latest"
  <2> DEFINE Shifted(f) == [f EXCEPT !.g = geo]
  <2>1. \A f \in a.image : IsFrame(Shifted(f))
    BY DEF IsAcc, IsFrame
  <2> HIDE DEF Shifted
  <2>2. SetGeometry(a, geo) = [a EXCEPT !.geo = geo, !.image = {Shifted(f) : f \in @}]
    BY <1>1 DEF SetGeometry, Shifted
  <2> QED
    BY <2>1, <2>2 DEF IsAcc
<1>2. CASE a.mode # "latest"
  BY <1>2 DEF SetGeometry, Restarted, IsAcc
<1> QED
  BY <1>1, <1>2

LEMMA FramesAre ==
  ASSUME NEW a, IsAcc(a), NEW s \in Nat, NEW ids \in SUBSET Nat, ids # {}, IsFiniteSet(ids)
  PROVE  LET frames == FramesOf(a, s, ids)
         IN /\ frames # {} /\ IsFiniteSet(frames)
            /\ \A f \in frames : IsFrame(f) /\ f.g = a.geo /\ f.s = s /\ f.i \in ids
                                 /\ f.a = f.i + (IF a.wrap THEN a.offset ELSE 0)
            /\ \A i \in ids : \E f \in frames : f.i = i
<1> DEFINE base == IF a.wrap THEN a.offset ELSE 0
           F(i) == [s |-> s, i |-> i, a |-> i + base, g |-> a.geo]
           h == [i \in ids |-> F(i)]
<1>1. FramesOf(a, s, ids) = {F(i) : i \in ids}
  BY DEF FramesOf
<1>2. base \in Nat
  BY DEF IsAcc
<1>3. h \in Surjection(ids, {F(i) : i \in ids})
  BY DEF Surjection
<1>4. IsFiniteSet({F(i) : i \in ids})
  BY <1>3, FS_Surjection
<1> HIDE DEF base
<1>5. \A i \in ids : IsFrame(F(i)) /\ F(i).g = a.geo /\ F(i).s = s /\ F(i).i = i /\ F(i).a = i + base
  BY <1>2 DEF IsFrame
<1>6. PICK i0 : i0 \in ids
  OBVIOUS
<1> HIDE DEF F
<1>7. F(i0) \in FramesOf(a, s, ids)
  BY <1>1, <1>6
<1> QED
  BY <1>1, <1>4, <1>5, <1>7 DEF base

-----------------------------------------------------------------------------
(* The control: what is tuned is what is shown.                             *)

AccOk(a) ==
  /\ IsAcc(a) /\ a.done = <<>> /\ a.offset % Positions = 0
  /\ a = NoAcc \/ (a.mode \in Modes /\ a.wrap = (setup.mode # "scan") /\ a.filed = setup.passes)
ArgsOk(x) ==
  /\ {"mode", "tune"} \subseteq DOMAIN x
  /\ x.mode \in Modes \cup {"scan"} /\ (x.mode = "scan" <=> setup.mode = "scan")
Match(a, x) == a = NoAcc \/ (a.geo = x.tune /\ a.mode = ModeOf(x.mode))

ControlInv ==
  /\ setup \in Setups /\ rounds \in Nat /\ revision \in Nat /\ at \in Nat
  /\ series \in Series \cup {NoSeries}
  /\ AccOk(acc) /\ ArgsOk(args) /\ torn \in BOOLEAN
  /\ ~torn => Match(acc, args)
  /\ rounds > 0 => acc # NoAcc
  /\ active => rounds > 0

LEMMA NoAccIs == IsAcc(NoAcc) /\ NoAcc.mode = "none" /\ NoAcc.done = <<>> /\ NoAcc.offset = 0
                 /\ NoAcc.image = {} /\ NoAcc.front = {} /\ NoAcc.pass = -1 /\ NoAcc.last = -1
<1> DEFINE b == Build("all", 1, "none", FALSE)
<1>1. /\ IsAcc(b) /\ b.done = <<>> /\ b.offset = 0 /\ b.last = -1 /\ b.pass = -1
      /\ b.image = {} /\ b.front = {}
  BY DEF Build, IsAcc
<1>2. NoAcc = [b EXCEPT !.mode = "none"]
  BY DEF NoAcc
<1> HIDE DEF b
<1> QED
  BY <1>1, <1>2 DEF IsAcc

LEMMA SomeAcc ==
  ASSUME NEW a, a.mode \in Modes PROVE a # NoAcc
  BY NoAccIs DEF Modes

LEMMA BuildOk ==
  ASSUME setup \in Setups, NEW mode \in Modes \cup {"scan"}, mode = "scan" <=> setup.mode = "scan",
         NEW geo, NEW shape
  PROVE  LET b == Build(mode, geo, shape, setup.passes)
         IN AccOk(b) /\ b # NoAcc /\ b.geo = geo /\ b.mode = ModeOf(mode)
<1> DEFINE b == Build(mode, geo, shape, setup.passes)
<1>1. setup.passes \in BOOLEAN
  BY ParallaxAssumption
<1>2. /\ IsAcc(b) /\ b.mode = ModeOf(mode) /\ b.geo = geo /\ b.wrap = (mode # "scan")
      /\ b.filed = setup.passes /\ b.done = <<>> /\ b.offset = 0
  BY <1>1 DEF Build, IsAcc
<1>3. b.mode \in Modes
  BY <1>2 DEF ModeOf, Modes
<1>4. 0 % Positions = 0
  BY PositionsPositive
<1> HIDE DEF b
<1>5. AccOk(b)
  BY <1>2, <1>3, <1>4 DEF AccOk
<1> QED
  BY <1>2, <1>3, <1>5, SomeAcc DEF b

\* A step of the reconstruction keeps the accumulator what it was built for.
LEMMA FedOk ==
  ASSUME NEW a, AccOk(a), a # NoAcc, NEW b, Fed(a, b), b.done = <<>>
  PROVE  AccOk(b) /\ b # NoAcc /\ b.geo = a.geo /\ b.mode = a.mode
<1>1. b.mode \in Modes
  BY DEF AccOk, Fed
<1> QED
  BY <1>1, SomeAcc DEF AccOk, Fed

LEMMA SettledFedOk ==
  ASSUME NEW a, AccOk(a), a # NoAcc, NEW b, Fed(a, b)
  PROVE  AccOk(Settled(b)) /\ Settled(b) # NoAcc /\ Settled(b).geo = a.geo /\ Settled(b).mode = a.mode
<1>1. Fed(a, Settled(b)) /\ Settled(b).done = <<>>
  BY SettledCarries DEF Fed, Carried
<1> QED
  BY <1>1, FedOk

LEMMA RetunedOk ==
  ASSUME NEW a, AccOk(a), a # NoAcc, NEW geo
  PROVE  LET b == SetGeometry(a, geo)
         IN AccOk(b) /\ b # NoAcc /\ b.geo = geo /\ b.mode = a.mode
<1> DEFINE b == SetGeometry(a, geo)
<1>1. /\ IsAcc(b) /\ b.geo = geo /\ b.mode = a.mode /\ b.wrap = a.wrap /\ b.filed = a.filed
      /\ b.done = a.done /\ b.offset = a.offset
  BY SetGeometryIs DEF AccOk
<1> HIDE DEF b
<1>2. b.mode \in Modes
  BY <1>1 DEF AccOk
<1>3. AccOk(b) /\ b # NoAcc
  BY <1>1, <1>2, SomeAcc DEF AccOk
<1> QED
  BY <1>1, <1>3 DEF b

\* A change: the accumulator and the arguments agree behind it, or it failed in its second half.
Ends == {"done", "refused", "crashed"}
Change(x) == /\ {"acc", "args", "end"} \subseteq DOMAIN x
             /\ AccOk(x.acc) /\ ArgsOk(x.args) /\ x.end \in Ends
Broke(x, c) == x.end # "done" /\ c.fault \in {"value", "memory"}

LEMMA SwitchIs ==
  ASSUME setup \in Setups, NEW x, Change(x), x.end = "done", NEW c
  PROVE  LET y == Switch(x, c)
         IN /\ Change(y) /\ (y.acc = NoAcc <=> x.acc = NoAcc)
            /\ Match(x.acc, x.args) => Broke(y, c) \/ Match(y.acc, y.args)
<1> DEFINE set == [x EXCEPT !.args.mode = c.mode]
           y == Switch(x, c)
<1>1. CASE c.mode \in {"keep", x.args.mode}
  BY <1>1 DEF Switch
<1>2. CASE c.mode \notin {"keep", x.args.mode} /\ Unselectable(c)
  <2>1. y = [x EXCEPT !.end = "refused"]
    BY <1>2 DEF Switch
  <2>2. Change(y) /\ y.acc = x.acc /\ y.args = x.args
    BY <2>1 DEF Change, Ends
  <2> HIDE DEF y
  <2> QED
    BY <2>2 DEF y
<1>3. CASE c.mode \notin {"keep", x.args.mode} /\ ~Unselectable(c)
  <2>1. c.mode \in Modes /\ setup.mode # "scan" /\ c.mode # "scan"
    BY <1>3 DEF Unselectable, Selectable, Modes
  <2>2. /\ {"acc", "args", "end"} \subseteq DOMAIN set /\ set.acc = x.acc /\ set.end = "done"
        /\ ArgsOk(set.args) /\ set.args.mode = c.mode /\ set.args.tune = x.args.tune
    BY <2>1 DEF Change, ArgsOk, Ends
  <2>3. y = IF x.acc = NoAcc THEN set
            ELSE IF c.fault = "memory" THEN [set EXCEPT !.end = "crashed"]
            ELSE [set EXCEPT !.acc = Build(c.mode, x.args.tune, x.acc.shape, setup.passes)]
    BY <1>3 DEF Switch
  <2> HIDE DEF set, y
  <2>4. CASE x.acc = NoAcc
    <3>1. Change(y) /\ y.acc = NoAcc
      BY <2>2, <2>3, <2>4 DEF Change, Ends
    <3> QED
      BY <3>1, <2>4 DEF y, Match
  <2>5. CASE x.acc # NoAcc /\ c.fault = "memory"
    <3>1. y = [set EXCEPT !.end = "crashed"]
      BY <2>3, <2>5
    <3>2. Change(y) /\ y.acc = x.acc /\ y.end = "crashed"
      BY <2>2, <3>1 DEF Change, Ends
    <3> QED
      BY <3>2, <2>5 DEF y, Broke
  <2>6. CASE x.acc # NoAcc /\ c.fault # "memory"
    <3> DEFINE b == Build(c.mode, x.args.tune, x.acc.shape, setup.passes)
    <3>1. AccOk(b) /\ b # NoAcc /\ b.geo = x.args.tune /\ b.mode = ModeOf(c.mode)
      BY <2>1, BuildOk
    <3>2. y = [set EXCEPT !.acc = b]
      BY <2>3, <2>6
    <3> HIDE DEF b
    <3>3. Change(y) /\ y.acc = b /\ y.args.tune = x.args.tune /\ y.args.mode = c.mode
      BY <2>2, <3>1, <3>2 DEF Change, Ends
    <3> QED
      BY <3>1, <3>3, <2>6 DEF y, Match
  <2> QED
    BY <2>4, <2>5, <2>6
<1> QED
  BY <1>1, <1>2, <1>3

LEMMA RetuneIs ==
  ASSUME NEW x, Change(x), NEW c
  PROVE  LET y == Retune(x, c)
         IN /\ Change(y) /\ (y.acc = NoAcc <=> x.acc = NoAcc)
            /\ Broke(x, c) => Broke(y, c)
            /\ Match(x.acc, x.args) => Broke(y, c) \/ Match(y.acc, y.args)
<1> DEFINE set == [x EXCEPT !.args.tune = c.tune]
           y == Retune(x, c)
<1>1. CASE x.end # "done" \/ c.tune = 0
  BY <1>1 DEF Retune
<1>2. CASE ~(x.end # "done" \/ c.tune = 0) /\ c.fault = "key"
  <2>1. y = [x EXCEPT !.end = "refused"]
    BY <1>2 DEF Retune
  <2>2. Change(y) /\ y.acc = x.acc /\ y.args = x.args
    BY <2>1 DEF Change, Ends
  <2> HIDE DEF y
  <2> QED
    BY <2>2, <1>2 DEF y, Broke
<1>3. CASE ~(x.end # "done" \/ c.tune = 0) /\ c.fault # "key"
  <2>1. /\ {"acc", "args", "end"} \subseteq DOMAIN set /\ set.acc = x.acc /\ set.end = "done"
        /\ ArgsOk(set.args) /\ set.args.mode = x.args.mode /\ set.args.tune = c.tune
    BY <1>3 DEF Change, ArgsOk, Ends
  <2>2. y = IF c.fault = "value" THEN [set EXCEPT !.end = "refused"]
            ELSE IF c.fault = "memory" THEN [set EXCEPT !.end = "crashed"]
            ELSE IF x.acc = NoAcc THEN set
            ELSE [set EXCEPT !.acc = SetGeometry(x.acc, c.tune)]
    BY <1>3 DEF Retune
  <2> HIDE DEF set, y
  <2>3. CASE c.fault \in {"value", "memory"}
    <3>1. \E e \in Ends : e # "done" /\ y = [set EXCEPT !.end = e]
      BY <2>2, <2>3 DEF Ends
    <3>2. Change(y) /\ y.acc = x.acc /\ y.end # "done"
      BY <2>1, <3>1 DEF Change, Ends
    <3> QED
      BY <3>2, <2>3 DEF y, Broke
  <2>4. CASE c.fault \notin {"value", "memory"} /\ x.acc = NoAcc
    <3>1. Change(y) /\ y.acc = NoAcc
      BY <2>1, <2>2, <2>4 DEF Change, Ends
    <3> QED
      BY <3>1, <2>4 DEF y, Match, Broke
  <2>5. CASE c.fault \notin {"value", "memory"} /\ x.acc # NoAcc
    <3> DEFINE b == SetGeometry(x.acc, c.tune)
    <3>1. AccOk(b) /\ b # NoAcc /\ b.geo = c.tune /\ b.mode = x.acc.mode
      BY <2>5, RetunedOk DEF Change, Ends
    <3>2. y = [set EXCEPT !.acc = b]
      BY <2>2, <2>5
    <3> HIDE DEF b
    <3>3. Change(y) /\ y.acc = b /\ y.args.tune = c.tune /\ y.args.mode = x.args.mode
      BY <2>1, <3>1, <3>2 DEF Change, Ends
    <3> QED
      BY <3>1, <3>3, <2>5 DEF y, Match, Broke
  <2> QED
    BY <2>3, <2>4, <2>5
<1> QED
  BY <1>1, <1>2, <1>3

LEMMA UpdatedIs ==
  ASSUME setup \in Setups, AccOk(acc), ArgsOk(args), NEW c
  PROVE  LET y == Updated(c)
         IN /\ AccOk(y.acc) /\ ArgsOk(y.args) /\ y.end \in Ends /\ (y.acc = NoAcc <=> acc = NoAcc)
            /\ Match(acc, args) => Broke(y, c) \/ Match(y.acc, y.args)
<1> DEFINE x == [acc |-> acc, args |-> args, end |-> "done"]
           w == Switch(x, c)
           y == Retune(w, c)
<1>1. Change(x) /\ x.end = "done" /\ x.acc = acc /\ x.args = args
  BY DEF Change, Ends
<1> HIDE DEF x
<1>2. /\ Change(w) /\ (w.acc = NoAcc <=> x.acc = NoAcc)
      /\ Match(x.acc, x.args) => Broke(w, c) \/ Match(w.acc, w.args)
  BY <1>1, SwitchIs
<1> HIDE DEF w
<1>3. /\ Change(y) /\ (y.acc = NoAcc <=> w.acc = NoAcc)
      /\ Broke(w, c) => Broke(y, c)
      /\ Match(w.acc, w.args) => Broke(y, c) \/ Match(y.acc, y.args)
  BY <1>2, RetuneIs
<1> HIDE DEF y
<1>4. Updated(c) = y
  BY DEF Updated, y, w, x
<1> QED
  BY <1>1, <1>2, <1>3, <1>4 DEF Change, Ends

cvars == <<setup, rounds, revision, at, series, acc, args, torn, active>>

LEMMA ControlStays == ControlInv /\ UNCHANGED cvars => ControlInv'
<1> SUFFICES ASSUME ControlInv, UNCHANGED cvars PROVE ControlInv'
  OBVIOUS
<1>1. AccOk(acc)' /\ ArgsOk(args)' /\ (Match(acc, args)' <=> Match(acc, args))
  BY DEF ControlInv, cvars, AccOk, ArgsOk, Match
<1> QED
  BY <1>1 DEF ControlInv, cvars

LEMMA ControlBegins == Init => ControlInv
<1> SUFFICES ASSUME Init PROVE ControlInv
  OBVIOUS
<1>1. setup \in Setups /\ setup.mode \in Modes \cup {"scan"}
  BY ParallaxAssumption DEF Init
<1>2. 0 % Positions = 0
  BY PositionsPositive
<1>3. AccOk(acc)
  BY NoAccIs, <1>2 DEF Init, ControlInit, AccOk
<1>4. ArgsOk(args)
  BY <1>1 DEF Init, ControlInit, ArgsOk
<1>5. Match(acc, args)
  BY DEF Init, ControlInit, Match
<1>6. /\ rounds = 0 /\ revision = 0 /\ at = 0 /\ series = NoSeries
      /\ ~active /\ torn \in BOOLEAN
  BY DEF Init, ControlInit
<1>7. series \in Series \cup {NoSeries}
  BY <1>6
<1>8. rounds \in Nat /\ revision \in Nat /\ at \in Nat /\ ~(rounds > 0)
  BY <1>6
<1> QED
  BY <1>1, <1>3, <1>4, <1>5, <1>6, <1>7, <1>8 DEF ControlInv

\* A step that puts another accumulator in the place of one: it must serve the same arguments.
LEMMA ControlKept ==
  ASSUME ControlInv, UNCHANGED <<setup, rounds, revision, series, args, active>>,
         at' \in Nat, torn' = torn, acc # NoAcc, AccOk(acc'), acc' # NoAcc,
         acc'.geo = acc.geo, acc'.mode = acc.mode
  PROVE  ControlInv'
<1>1. AccOk(acc)'
  BY DEF AccOk
<1>2. ArgsOk(args)'
  BY DEF ControlInv, ArgsOk
<1>3. (~torn => Match(acc, args))'
  BY DEF ControlInv, Match
<1> QED
  BY <1>1, <1>2, <1>3 DEF ControlInv

LEMMA ControlOverStart == ControlInv /\ Start => ControlInv'
<1> SUFFICES ASSUME ControlInv, Start PROVE ControlInv'
  OBVIOUS
<1>1. PICK x \in Series :
        IF StartRefused(x) THEN Fail /\ UNCHANGED <<acc, series_, log, began>>
        ELSE /\ acc' = Started(x) /\ series' = x /\ at' = 0
             /\ rounds' = rounds + 1 /\ active' = TRUE
  BY DEF Start
<1>2. UNCHANGED <<setup, args, revision, torn>>
  BY DEF Start, control
<1>3. CASE StartRefused(x)
  <2>1. UNCHANGED cvars
    BY <1>1, <1>2, <1>3 DEF cvars, series_
  <2> QED
    BY <2>1, ControlStays
<1>4. CASE ~StartRefused(x)
  <2>1. ArgsOk(args)'
    BY <1>2 DEF ControlInv, ArgsOk
  <2>2. CASE Persistent
    <3>1. AccOk(acc) /\ acc # NoAcc
      BY <2>2 DEF ControlInv, Persistent
    <3>2. acc' = StartSeries(acc)
      BY <1>1, <1>4, <2>2 DEF Started
    <3>3. IsAcc(StartSeries(acc)) /\ StartSeries(acc).offset % Positions = 0
          /\ (StartSeries(acc) = acc \/ StartSeries(acc) = [acc EXCEPT !.offset = NextOffset(acc)])
      BY <3>1, StartSeriesIs DEF AccOk
    <3>4. /\ acc'.mode = acc.mode /\ acc'.geo = acc.geo /\ acc'.wrap = acc.wrap
          /\ acc'.filed = acc.filed /\ acc'.done = <<>>
      BY <3>1, <3>2, <3>3 DEF AccOk, IsAcc
    <3>5. acc'.mode \in Modes
      BY <3>1, <3>4 DEF AccOk
    <3>6. AccOk(acc)' /\ acc' # NoAcc
      BY <3>1, <3>2, <3>3, <3>4, <3>5, <1>2, SomeAcc DEF AccOk
    <3>7. (~torn => Match(acc, args))'
      BY <3>1, <3>4, <1>2 DEF ControlInv, Match
    <3> QED
      BY <1>1, <1>2, <1>4, <2>1, <3>6, <3>7 DEF ControlInv
  <2>3. CASE ~Persistent
    <3> DEFINE b == Build(args.mode, args.tune, x.shape, setup.passes)
    <3>1. acc' = b
      BY <1>1, <1>4, <2>3 DEF Started
    <3>2. args.mode \in Modes \cup {"scan"} /\ (args.mode = "scan" <=> setup.mode = "scan") /\ setup \in Setups
      BY DEF ControlInv, ArgsOk
    <3>3. AccOk(b) /\ b # NoAcc /\ b.geo = args.tune /\ b.mode = ModeOf(args.mode)
      BY <3>2, BuildOk
    <3> HIDE DEF b
    <3>4. AccOk(acc)' /\ acc' # NoAcc
      BY <3>1, <3>3, <1>2 DEF AccOk
    <3>5. Match(acc, args)'
      BY <3>1, <3>3, <1>2 DEF Match
    <3> QED
      BY <1>1, <1>2, <1>4, <2>1, <3>4, <3>5 DEF ControlInv
  <2> QED
    BY <2>2, <2>3
<1> QED
  BY <1>3, <1>4

\* The frames of the next batch.
LEMMA BatchIs ==
  ASSUME ControlInv, active, at < Len(series.batches)
  PROVE  LET ids == series.batches[at + 1]
         IN /\ ids \in SUBSET Nat /\ ids # {} /\ IsFiniteSet(ids)
            /\ series \in Series /\ at + 1 \in DOMAIN series.batches
            /\ rounds \in Nat /\ IsAcc(acc) /\ AccOk(acc) /\ acc # NoAcc
<1>1. series # NoSeries
  <2>1. ASSUME series = NoSeries PROVE FALSE
    BY <2>1 DEF NoSeries, ControlInv
  <2> QED
    BY <2>1
<1>2. series \in Series /\ series.batches \in Seq(SUBSET Nat)
  BY <1>1, ParallaxAssumption DEF ControlInv
<1>3. at + 1 \in DOMAIN series.batches
  <2> DEFINE q == series.batches
  <2>1. q \in Seq(SUBSET Nat) /\ at \in Nat /\ at < Len(q)
    BY <1>2 DEF ControlInv
  <2> HIDE DEF q
  <2> QED
    BY <2>1 DEF q
<1>4. series.batches[at + 1] \in SUBSET Nat
  BY <1>2, <1>3
<1>5. series.batches[at + 1] # {} /\ IsFiniteSet(series.batches[at + 1])
  BY <1>2, <1>3, ParallaxAssumption
<1> QED
  BY <1>2, <1>3, <1>4, <1>5 DEF ControlInv, AccOk

LEMMA ControlOverFeed == ControlInv /\ Feed => ControlInv'
<1> SUFFICES ASSUME ControlInv, Feed PROVE ControlInv'
  OBVIOUS
<1> DEFINE ids    == series.batches[at + 1]
           frames == FramesOf(acc, rounds, ids)
<1>1. UNCHANGED <<setup, rounds, revision, series, args, torn, active>>
  BY DEF Feed, control
<1>2. /\ ids \in SUBSET Nat /\ ids # {} /\ IsFiniteSet(ids)
      /\ rounds \in Nat /\ IsAcc(acc) /\ AccOk(acc) /\ acc # NoAcc
  BY BatchIs DEF Feed
<1>3. frames # {} /\ IsFiniteSet(frames) /\ \A f \in frames : IsFrame(f)
  BY <1>2, FramesAre
<1>4. \/ acc' = acc
      \/ acc' = Settled(Refused(acc, frames))
      \/ acc' = Settled(Process(acc, series.kind, frames, FALSE))
      \/ acc' = Settled(Process(acc, series.kind, frames, TRUE))
  BY DEF Feed
<1>a. at' = at \/ at' = at + 1
  BY DEF Feed
<1>5. at' \in Nat
  BY <1>a DEF ControlInv
<1> HIDE DEF ids, frames
<1>6. /\ Fed(acc, Refused(acc, frames))
      /\ \A disk : Fed(acc, Process(acc, series.kind, frames, disk))
  BY <1>2, <1>3, RefusedFeeds, ProcessFeeds
<1>7. AccOk(acc') /\ acc' # NoAcc /\ acc'.geo = acc.geo /\ acc'.mode = acc.mode
  BY <1>2, <1>4, <1>6, SettledFedOk
<1> QED
  BY <1>1, <1>2, <1>5, <1>7, ControlKept

LEMMA ControlOverFinish == ControlInv /\ Finish => ControlInv'
<1> SUFFICES ASSUME ControlInv, Finish PROVE ControlInv'
  OBVIOUS
<1>1. /\ UNCHANGED <<setup, rounds, revision, series, args, torn, active, at>>
      /\ acc' = acc \/ acc' = Settled(EndSeries(acc))
      /\ active
  BY DEF Finish, control, series_, history
<1>2. AccOk(acc) /\ acc # NoAcc /\ IsAcc(acc)
  BY <1>1 DEF ControlInv, AccOk
<1>3. Fed(acc, EndSeries(acc))
  BY <1>2, EndSeriesCarries DEF Carried, Fed
<1>4. AccOk(acc') /\ acc' # NoAcc /\ acc'.geo = acc.geo /\ acc'.mode = acc.mode
  BY <1>1, <1>2, <1>3, SettledFedOk
<1>5. at' \in Nat
  BY <1>1 DEF ControlInv
<1> QED
  BY <1>1, <1>2, <1>4, <1>5, ControlKept

\* A change of the control, whoever applies it.
LEMMA ControlOverApply ==
  ASSUME ControlInv, NEW c,
         acc' = Updated(c).acc, args' = Updated(c).args, revision' \in Nat,
         torn' = (torn \/ (Updated(c).end # "done" /\ c.fault \in {"value", "memory"})),
         UNCHANGED <<setup, series_>>
  PROVE  ControlInv'
<1> DEFINE y == Updated(c)
<1>1. /\ AccOk(y.acc) /\ ArgsOk(y.args) /\ (y.acc = NoAcc <=> acc = NoAcc)
      /\ Match(acc, args) => Broke(y, c) \/ Match(y.acc, y.args)
  BY UpdatedIs DEF ControlInv
<1>2. acc' = y.acc /\ args' = y.args /\ torn' = (torn \/ Broke(y, c))
  BY DEF Broke
<1> HIDE DEF y
<1>3. AccOk(acc)' /\ ArgsOk(args)'
  BY <1>1, <1>2 DEF AccOk, ArgsOk
<1>4. (~torn => Match(acc, args))'
  BY <1>1, <1>2 DEF ControlInv, Match
<1>5. torn' \in BOOLEAN
  BY <1>2
<1>6. /\ (rounds > 0 => acc # NoAcc)' /\ (active => rounds > 0)'
      /\ (setup \in Setups)' /\ (rounds \in Nat)' /\ (at \in Nat)'
      /\ (series \in Series \cup {NoSeries})'
  BY <1>1, <1>2 DEF ControlInv, series_
<1> QED
  BY <1>3, <1>4, <1>5, <1>6 DEF ControlInv

LEMMA RevisionIs ==
  ASSUME ControlInv, NEW c, Updated(c).end \in Ends, NEW A, NEW B, NEW C, Apply(c, A, B, C)
  PROVE  revision' \in Nat /\ (revision' = revision \/ revision' = revision + 1)
<1>1. revision' = revision \/ revision' = revision + 1
  BY DEF Apply, Ends
<1> QED
  BY <1>1 DEF ControlInv

LEMMA ControlOverUpdate == ControlInv /\ Update => ControlInv'
<1> SUFFICES ASSUME ControlInv, Update PROVE ControlInv'
  OBVIOUS
<1>1. UNCHANGED <<setup, series_>>
  BY DEF Update
<1>2. PICK c \in Changes :
        Apply(c, IF acc' = NoAcc THEN UNCHANGED <<http, lock>> ELSE http' = "publish" /\ lock' = "http",
              UNCHANGED <<http, lock>>, UNCHANGED <<http, lock>>)
  BY DEF Update
<1>3. /\ acc' = Updated(c).acc /\ args' = Updated(c).args
      /\ torn' = (torn \/ (Updated(c).end # "done" /\ c.fault \in {"value", "memory"}))
  BY <1>2 DEF Apply
<1>a. Updated(c).end \in Ends
  BY UpdatedIs DEF ControlInv
<1>4. revision' \in Nat
  BY <1>2, <1>a, RevisionIs
<1> QED
  BY <1>1, <1>3, <1>4, ControlOverApply

LEMMA ControlOverApplyPending == ControlInv /\ ApplyPending => ControlInv'
<1> SUFFICES ASSUME ControlInv, ApplyPending PROVE ControlInv'
  OBVIOUS
<1>1. UNCHANGED <<setup, series_>>
  BY DEF ApplyPending
<1> DEFINE c == Head(pending)
<1>2. Apply(c, main' = "tuning" /\ lock' = "main", UNCHANGED <<main, lock>>, Fail /\ UNCHANGED lock)
  BY DEF ApplyPending
<1> HIDE DEF c
<1>3. /\ acc' = Updated(c).acc /\ args' = Updated(c).args
      /\ torn' = (torn \/ (Updated(c).end # "done" /\ c.fault \in {"value", "memory"}))
  BY <1>2 DEF Apply
<1>a. Updated(c).end \in Ends
  BY UpdatedIs DEF ControlInv
<1>4. revision' \in Nat
  BY <1>2, <1>a, RevisionIs
<1> QED
  BY <1>1, <1>3, <1>4, ControlOverApply

LEMMA ControlPreserved == ControlInv /\ [Next]_vars => ControlInv'
<1> SUFFICES ASSUME ControlInv, [Next]_vars PROVE ControlInv'
  OBVIOUS
<1>1. CASE UNCHANGED vars
  BY <1>1, ControlStays DEF vars, cvars, control, series_, history
<1>2. CASE Interrupt
  BY <1>2, ControlStays DEF Interrupt, cvars, control, series_, history
<1>3. CASE Exhausted
  BY <1>3, ControlStays DEF Exhausted, cvars, control, series_, history
<1>4. CASE CloseReads
  BY <1>4, ControlStays DEF CloseReads, cvars, control, series_
<1>5. CASE CloseSaves
  BY <1>5, ControlStays DEF CloseSaves, cvars, control, series_, history
<1>6. CASE Enqueue
  BY <1>6, ControlStays DEF Enqueue, cvars, control, series_, history
<1>7. CASE View
  BY <1>7, ControlStays DEF View, cvars, control, series_, history
<1>8. ASSUME NEW t \in Writers, TakeFrame(t) PROVE ControlInv'
  BY <1>8, ControlStays DEF TakeFrame, cvars, control, series_, history
<1>9. ASSUME NEW t \in Writers, PutFrame(t) PROVE ControlInv'
  <2>1. /\ UNCHANGED <<setup, rounds, revision, at, series, acc, args, torn>>
        /\ active' = active \/ active' = FALSE
    BY <1>9 DEF PutFrame, control, history
  <2>2. AccOk(acc)' /\ ArgsOk(args)' /\ (~torn => Match(acc, args))'
    BY <2>1 DEF ControlInv, AccOk, ArgsOk, Match
  <2> QED
    BY <2>1, <2>2 DEF ControlInv
<1>10. CASE Start
  BY <1>10, ControlOverStart
<1>11. CASE Feed
  BY <1>11, ControlOverFeed
<1>12. CASE Finish
  BY <1>12, ControlOverFinish
<1>13. CASE Update
  BY <1>13, ControlOverUpdate
<1>14. CASE ApplyPending
  BY <1>14, ControlOverApplyPending
<1> QED
  BY <1>1, <1>2, <1>3, <1>4, <1>5, <1>6, <1>7, <1>8, <1>9, <1>10, <1>11, <1>12, <1>13, <1>14 DEF Next

\* The control's invariant holds of every run.
THEOREM ControlInvariance == Spec => []ControlInv
<1>1. Init => ControlInv
  BY ControlBegins
<1>2. ControlInv /\ [Next]_vars => ControlInv'
  BY ControlPreserved
<1> QED
  BY <1>1, <1>2, PTL DEF Spec

\* The arguments, which build the next accumulator and are shown to the user, describe the image,
\* whatever is fed, switched, retuned or refused, unless a change failed after its first half.
THEOREM ArgumentsDescribeTheImage == Spec => []ArgsMatchImage
<1>1. ControlInv => ArgsMatchImage
  BY DEF ControlInv, ArgsMatchImage, Match
<1> QED
  BY <1>1, ControlInvariance, PTL

-----------------------------------------------------------------------------
(* The save: what was tuned is in the files that close leaves.              *)

Closing == {"resave", "last", "closed"}

SavedInv ==
  /\ savedRev \in Nat /\ file.rev \in Int /\ saveErrors \in Nat /\ rev0 \in Int
  /\ closed \in BOOLEAN
  /\ closed <=> main \in Closing
  /\ closed => rev0 <= revision
  /\ main \in {"final", "last"} => lock = "main" /\ file.rev = revision
  /\ rounds > 0 /\ ~active => file.rev >= savedRev
  /\ SavedIsTuned

svars == <<main, lock, rounds, active, revision, savedRev, closed, file, rev0, saveErrors>>

LEMMA SavedStays == SavedInv /\ UNCHANGED svars => SavedInv'
  BY DEF SavedInv, svars, SavedIsTuned

LEMMA SavedBegins == Init => SavedInv
<1> SUFFICES ASSUME Init PROVE SavedInv
  OBVIOUS
<1>1. /\ main = "run" /\ lock = "none" /\ rounds = 0 /\ savedRev = 0 /\ saveErrors = 0 /\ rev0 = -1
      /\ file.rev = -1 /\ ~closed /\ closed \in BOOLEAN
  BY DEF Init, ControlInit, NoFile
<1> QED
  BY <1>1 DEF SavedInv, Closing, SavedIsTuned

\* As long as the session runs, only what is behind the last series matters.
LEMMA SavedRuns ==
  ASSUME SavedInv, main \notin Closing, main' \notin Closing \cup {"final"}, closed' = closed,
         UNCHANGED <<savedRev, file, rev0>>, saveErrors' \in Nat,
         (rounds' = rounds /\ active' = active) \/ active'
  PROVE  SavedInv'
  BY DEF SavedInv, SavedIsTuned, Closing

LEMMA SavedOverFinish == ControlInv /\ SavedInv /\ Finish => SavedInv'
<1> SUFFICES ASSUME ControlInv, SavedInv, Finish PROVE SavedInv'
  OBVIOUS
<1>1. /\ main = "run" /\ active /\ UNCHANGED <<savedRev, closed, revision, rounds, active, rev0>>
      /\ saveErrors' = saveErrors \/ saveErrors' = saveErrors + 1
      /\ \/ main' = "stop" /\ file' = file
         \/ main' = "final" /\ lock' = "main" /\ file' = [rev |-> revision, round |-> rounds, frames |-> Completed(acc')]
  BY DEF Finish, Fail, Save, SaveFails, control, series_, queue_, history
<1>2. CASE main' = "stop" /\ file' = file
  BY <1>1, <1>2 DEF SavedInv, SavedIsTuned, Closing
<1>3. CASE main' = "final" /\ lock' = "main" /\ file' = [rev |-> revision, round |-> rounds, frames |-> Completed(acc')]
  <2>1. file'.rev = revision /\ revision \in Nat
    BY <1>3 DEF ControlInv
  <2> QED
    BY <1>1, <1>3, <2>1 DEF SavedInv, SavedIsTuned, Closing
<1> QED
  BY <1>1, <1>2, <1>3

LEMMA SavedOverCloseReads == ControlInv /\ SavedInv /\ CloseReads => SavedInv'
<1> SUFFICES ASSUME ControlInv, SavedInv, CloseReads PROVE SavedInv'
  OBVIOUS
<1>1. /\ main = "stop" /\ closed' /\ closed' \in BOOLEAN /\ rev0' = revision /\ revision \in Nat
      /\ UNCHANGED <<savedRev, file, revision, rounds, active, saveErrors>>
  BY DEF CloseReads, control, series_, saved_, counters, ControlInv
<1>2. main' = "resave" \/ (main' = "closed" /\ revision = savedRev /\ ~active)
  BY DEF CloseReads, Unsaved
<1>3. CASE main' = "resave"
  BY <1>1, <1>3 DEF SavedInv, SavedIsTuned, Closing
<1>4. CASE main' = "closed" /\ revision = savedRev /\ ~active
  BY <1>1, <1>4 DEF SavedInv, SavedIsTuned, Closing
<1> QED
  BY <1>2, <1>3, <1>4

LEMMA SavedOverCloseSaves == ControlInv /\ SavedInv /\ CloseSaves => SavedInv'
<1> SUFFICES ASSUME ControlInv, SavedInv, CloseSaves PROVE SavedInv'
  OBVIOUS
<1> DEFINE image == [rev |-> revision, round |-> rounds, frames |-> Completed(acc')]
<1>1. /\ main = "resave" /\ UNCHANGED <<closed, revision, rounds, active, rev0>> /\ revision \in Nat
      /\ closed
  BY DEF CloseSaves, control, series_, queue_, history, ControlInv, SavedInv, Closing
<1>2. \/ active /\ file' = image /\ main' = "last" /\ lock' = "main" /\ UNCHANGED <<savedRev, saveErrors>>
      \/ ~active /\ file' = image /\ savedRev' = revision /\ main' = "closed" /\ saveErrors' = saveErrors
      \/ /\ main' = "closed" /\ UNCHANGED <<savedRev, file>>
         /\ saveErrors' = saveErrors + 1 \/ (acc = NoAcc /\ saveErrors' = saveErrors)
  BY DEF CloseSaves, Save, SaveFails
<1>3. image.rev = revision
  OBVIOUS
<1> HIDE DEF image
<1>4. CASE active /\ file' = image /\ main' = "last" /\ lock' = "main" /\ UNCHANGED <<savedRev, saveErrors>>
  BY <1>1, <1>3, <1>4 DEF SavedInv, SavedIsTuned, Closing
<1>5. CASE ~active /\ file' = image /\ savedRev' = revision /\ main' = "closed" /\ saveErrors' = saveErrors
  BY <1>1, <1>3, <1>5 DEF SavedInv, SavedIsTuned, Closing
<1>6. CASE /\ main' = "closed" /\ UNCHANGED <<savedRev, file>>
           /\ saveErrors' = saveErrors + 1 \/ (acc = NoAcc /\ saveErrors' = saveErrors)
  <2>1. rounds > 0 => saveErrors' = saveErrors + 1
    BY <1>6 DEF ControlInv
  <2>2. SavedIsTuned'
    BY <2>1, <1>1 DEF SavedInv, SavedIsTuned
  <2>3. saveErrors' \in Nat
    BY <1>6 DEF SavedInv
  <2> QED
    BY <1>1, <1>6, <2>2, <2>3 DEF SavedInv, Closing
<1> QED
  BY <1>2, <1>4, <1>5, <1>6

LEMMA SavedOverPutFrame ==
  ASSUME ControlInv, SavedInv, NEW t \in Writers, PutFrame(t) PROVE SavedInv'
<1>1. /\ UNCHANGED <<revision, rounds, closed, file, rev0, saveErrors>> /\ revision \in Nat
      /\ lock' = Released(t)
  BY DEF PutFrame, control, queue_, history, counters, ControlInv
<1>2. CASE t = "http"
  <2>1. UNCHANGED <<main, savedRev, active>> /\ (lock = "main" => lock' = "main")
    BY <1>1, <1>2 DEF PutFrame, Released
  <2> QED
    BY <1>1, <2>1 DEF SavedInv, SavedIsTuned
<1>3. CASE t # "http"
  <2>1. t = "main"
    BY <1>3, ParallaxAssumption
  <2>2. /\ main \in {"preview", "tuning", "final", "last"}
        /\ main' = IF main = "last" THEN "closed" ELSE "run"
        /\ IF main \in {"final", "last"} THEN savedRev' = revision /\ active' = FALSE
           ELSE UNCHANGED <<savedRev, active>>
    BY <1>3, <2>1 DEF PutFrame, Publishing
  <2>3. CASE main = "last"
    BY <1>1, <2>2, <2>3 DEF SavedInv, SavedIsTuned, Closing
  <2>4. CASE main = "final"
    BY <1>1, <2>2, <2>4 DEF SavedInv, SavedIsTuned, Closing
  <2>5. CASE main \in {"preview", "tuning"}
    BY <1>1, <2>2, <2>5 DEF SavedInv, SavedIsTuned, Closing
  <2> QED
    BY <2>2, <2>3, <2>4, <2>5
<1> QED
  BY <1>2, <1>3

\* A change is applied under the lock, so that what finish_series has saved is not changed before
\* its revision is noted.
LEMMA SavedOverUpdate == ControlInv /\ SavedInv /\ Update => SavedInv'
<1> SUFFICES ASSUME ControlInv, SavedInv, Update PROVE SavedInv'
  OBVIOUS
<1>1. PICK c \in Changes :
        Apply(c, IF acc' = NoAcc THEN UNCHANGED <<http, lock>> ELSE http' = "publish" /\ lock' = "http",
              UNCHANGED <<http, lock>>, UNCHANGED <<http, lock>>)
  BY DEF Update
<1>2. Updated(c).end \in Ends
  BY UpdatedIs DEF ControlInv
<1>3. revision \in Nat /\ (revision' = revision \/ revision' = revision + 1)
  BY <1>1, <1>2, RevisionIs DEF ControlInv
<1>4. /\ main # "closed" /\ lock = "none"
      /\ UNCHANGED <<main, rounds, active, savedRev, file, closed, rev0, saveErrors>>
  BY DEF Update, Post, series_, saved_, queue_
<1> QED
  BY <1>3, <1>4 DEF SavedInv, SavedIsTuned, Closing

LEMMA SavedOverApplyPending == ControlInv /\ SavedInv /\ ApplyPending => SavedInv'
<1> SUFFICES ASSUME ControlInv, SavedInv, ApplyPending PROVE SavedInv'
  OBVIOUS
<1> DEFINE c == Head(pending)
<1>1. Apply(c, main' = "tuning" /\ lock' = "main", UNCHANGED <<main, lock>>, Fail /\ UNCHANGED lock)
  BY DEF ApplyPending
<1> HIDE DEF c
<1>2. Updated(c).end \in Ends
  BY UpdatedIs DEF ControlInv
<1>3. main = "run" /\ main' \in {"tuning", "run", "stop"}
  <2>1. main = "run"
    BY DEF ApplyPending
  <2>2. main' = "tuning" \/ main' = main \/ main' = "stop"
    BY <1>1, <1>2 DEF Apply, Ends, Fail
  <2> QED
    BY <2>1, <2>2
<1>4. UNCHANGED <<rounds, active, savedRev, file, closed, rev0, saveErrors>>
  BY DEF ApplyPending, series_, saved_, counters
<1> QED
  BY <1>3, <1>4, SavedRuns DEF Closing, SavedInv

LEMMA SavedPreserved == ControlInv /\ SavedInv /\ [Next]_vars => SavedInv'
<1> SUFFICES ASSUME ControlInv, SavedInv, [Next]_vars PROVE SavedInv'
  OBVIOUS
<1>1. CASE UNCHANGED vars
  BY <1>1, SavedStays DEF vars, svars, control, series_, saved_, queue_, history, counters
<1>2. CASE Start
  <2>1. /\ main = "run" /\ main' \in {"run", "stop"} /\ (active' \/ (rounds' = rounds /\ active' = active))
        /\ UNCHANGED <<savedRev, file, closed, rev0, saveErrors>>
    BY <1>2 DEF Start, Fail, saved_, queue_, counters, series_
  <2> QED
    BY <2>1, SavedRuns DEF Closing, SavedInv
<1>3. CASE Feed
  <2>1. /\ main = "run" /\ main' \in {"run", "preview", "stop"} /\ UNCHANGED <<rounds, active>>
        /\ UNCHANGED <<savedRev, file, closed, rev0>>
        /\ saveErrors' = saveErrors \/ saveErrors' = saveErrors + 1
    BY <1>3 DEF Feed, Fail, SaveFails, saved_, queue_
  <2> QED
    BY <2>1, SavedRuns DEF Closing, SavedInv
<1>4. CASE Finish
  BY <1>4, SavedOverFinish
<1>5. CASE Interrupt
  <2>1. /\ main \in {"run", "preview", "final", "linger"} /\ main' \in {"linger", "stop"}
        /\ UNCHANGED <<rounds, active, savedRev, file, closed, rev0, saveErrors>>
    BY <1>5 DEF Interrupt, saved_, queue_, series_, history, counters
  <2> QED
    BY <2>1, SavedRuns DEF Closing, SavedInv
<1>6. CASE Exhausted
  <2>1. /\ main = "run" /\ main' \in {"linger", "stop"}
        /\ UNCHANGED <<rounds, active, savedRev, file, closed, rev0, saveErrors>>
    BY <1>6 DEF Exhausted, Fail, saved_, queue_, series_, history, counters
  <2> QED
    BY <2>1, SavedRuns DEF Closing, SavedInv
<1>7. CASE CloseReads
  BY <1>7, SavedOverCloseReads
<1>8. CASE CloseSaves
  BY <1>8, SavedOverCloseSaves
<1>9. CASE Update
  BY <1>9, SavedOverUpdate
<1>10. CASE Enqueue
  BY <1>10, SavedStays DEF Enqueue, Post, svars, control, series_, saved_, history
<1>11. CASE ApplyPending
  BY <1>11, SavedOverApplyPending
<1>12. ASSUME NEW t \in Writers, TakeFrame(t) PROVE SavedInv'
  <2>1. /\ UNCHANGED <<main, rounds, active, revision, savedRev, file, closed, rev0, saveErrors>>
        /\ lock = "main" => lock' = "main"
    BY <1>12 DEF TakeFrame, control, series_, saved_, queue_, history, counters
  <2> QED
    BY <2>1 DEF SavedInv, SavedIsTuned
<1>13. ASSUME NEW t \in Writers, PutFrame(t) PROVE SavedInv'
  BY <1>13, SavedOverPutFrame
<1>14. CASE View
  BY <1>14, SavedStays DEF View, svars, control, series_, saved_, queue_, history, counters
<1> QED
  BY <1>1, <1>2, <1>3, <1>4, <1>5, <1>6, <1>7, <1>8, <1>9, <1>10, <1>11, <1>12, <1>13, <1>14 DEF Next

\* What was tuned before close began is in the files it leaves, unless saving failed.
THEOREM TunedImageIsSaved == Spec => []SavedIsTuned
<1>1. Init => ControlInv /\ SavedInv
  BY ControlBegins, SavedBegins
<1>2. ControlInv /\ SavedInv /\ [Next]_vars => (ControlInv /\ SavedInv)'
  BY ControlPreserved, SavedPreserved
<1>3. SavedInv => SavedIsTuned
  BY DEF SavedInv
<1> QED
  BY <1>1, <1>2, <1>3, PTL DEF Spec

-----------------------------------------------------------------------------
(* The page: its frames are ordered.                                        *)

Frame == [seq : Nat, rev : Nat]

\* The frames q of a store whose next number is n, at revision r of the control.
Ordered(q, n, r) ==
  /\ q \in Seq(Frame)
  /\ \A i \in 1 .. Len(q) : \A j \in 1 .. (i - 1) : q[j].seq < q[i].seq /\ q[j].rev <= q[i].rev
  /\ \A i \in 1 .. Len(q) : q[i].seq < n /\ q[i].rev <= r
  /\ q # <<>> => q[Len(q)].seq = n - 1

StoreInv ==
  /\ next \in Nat /\ Ordered(store, next, revision)
  /\ taken \in [Writers -> Frame \cup {NoFrame}]
  /\ \A t \in Writers : taken[t] # NoFrame =>
       /\ lock = t /\ taken[t].seq = next /\ taken[t].rev <= revision
       /\ \A i \in 1 .. Len(store) : store[i].rev <= taken[t].rev
  /\ taken["main"] # NoFrame => main \in {"preview", "tuning", "final", "last"}
  /\ lock = "http" => http = "publish"
  /\ setup.live => http = "idle"
  /\ pending # <<>> => setup.live

pvars == <<setup, main, http, lock, revision, pending, store, next, taken>>

LEMMA StoreStays == StoreInv /\ UNCHANGED pvars => StoreInv'
  BY DEF StoreInv, pvars, Ordered

LEMMA FramesTyped ==
  ASSUME NEW q, NEW n, NEW r, Ordered(q, n, r)
  PROVE  \A i \in 1 .. Len(q) : q[i].seq \in Nat /\ q[i].rev \in Nat
<1> SUFFICES ASSUME NEW i \in 1 .. Len(q) PROVE q[i].seq \in Nat /\ q[i].rev \in Nat
  OBVIOUS
<1>1. q[i] \in Frame
  BY ElementOfSeq DEF Ordered
<1> QED
  BY <1>1 DEF Frame

\* A frame of the next number keeps the order.
LEMMA OrderedAppend ==
  ASSUME NEW q, NEW n \in Nat, NEW r \in Nat, Ordered(q, n, r), NEW f \in Frame,
         f.seq = n, f.rev <= r, \A i \in 1 .. Len(q) : q[i].rev <= f.rev
  PROVE  Ordered(Append(q, f), n + 1, r) /\ Append(q, f) # <<>>
<1> DEFINE p == Append(q, f)
<1>1. /\ p \in Seq(Frame) /\ Len(p) = Len(q) + 1 /\ Len(q) \in Nat /\ p # <<>>
      /\ \A i \in 1 .. Len(q) : p[i] = q[i]
      /\ p[Len(q) + 1] = f
  <2>1. q \in Seq(Frame)
    BY DEF Ordered
  <2> QED
    BY <2>1, AppendProperties, LenProperties
<1> HIDE DEF p
<1>2. \A i \in 1 .. Len(q) : q[i].seq \in Nat /\ q[i].rev \in Nat
  BY FramesTyped
<1>3. f.seq \in Nat /\ f.rev \in Nat
  BY DEF Frame
<1>4. ASSUME NEW i \in 1 .. Len(p), NEW j \in 1 .. (i - 1)
      PROVE  p[j].seq < p[i].seq /\ p[j].rev <= p[i].rev
  <2>1. j \in 1 .. Len(q) /\ p[j] = q[j]
    BY <1>1
  <2>2. CASE i = Len(q) + 1
    <3>1. p[i] = f /\ q[j].seq < n /\ q[j].rev <= f.rev
      BY <2>1, <2>2, <1>1 DEF Ordered
    <3> QED
      BY <2>1, <3>1
  <2>3. CASE i # Len(q) + 1
    <3>1. i \in 1 .. Len(q) /\ p[i] = q[i]
      BY <2>3, <1>1
    <3> QED
      BY <2>1, <3>1 DEF Ordered
  <2> QED
    BY <2>2, <2>3
<1>5. ASSUME NEW i \in 1 .. Len(p) PROVE p[i].seq < n + 1 /\ p[i].rev <= r
  <2>1. CASE i = Len(q) + 1
    BY <2>1, <1>1, <1>3
  <2>2. CASE i # Len(q) + 1
    <3>1. i \in 1 .. Len(q) /\ p[i] = q[i]
      BY <2>2, <1>1
    <3>2. q[i].seq < n /\ q[i].rev <= r /\ q[i].seq \in Nat
      BY <3>1, <1>2 DEF Ordered
    <3> QED
      BY <3>1, <3>2
  <2> QED
    BY <2>1, <2>2
<1>6. p[Len(p)].seq = (n + 1) - 1
  BY <1>1
<1> QED
  BY <1>1, <1>4, <1>5, <1>6 DEF Ordered, p

\* What the store drops is at its front, and never its newest frame.
LEMMA TrimmedIs ==
  ASSUME NEW q \in Seq(Frame), q # <<>>
  PROVE  LET t == Trimmed(q)
         IN /\ t \in Seq(Frame) /\ t # <<>>
            /\ \E d \in Nat : Len(t) = Len(q) - d /\ \A i \in 1 .. Len(t) : t[i] = q[i + d]
<1> DEFINE keep == IF History > 1 THEN History ELSE 1
           t == Trimmed(q)
<1>1. keep \in Nat /\ keep >= 1
  BY ParallaxAssumption
<1>2. Len(q) \in Nat /\ Len(q) > 0
  BY EmptySeq, LenProperties
<1>3. t = IF Len(q) > keep THEN SubSeq(q, Len(q) - keep + 1, Len(q)) ELSE q
  BY DEF Trimmed
<1> HIDE DEF keep, t
<1>4. CASE Len(q) > keep
  <2> DEFINE d == Len(q) - keep
  <2>1. d \in Nat /\ d + 1 \in 1 .. Len(q) /\ Len(q) - (d + 1) + 1 = keep /\ Len(q) - d = keep
    BY <1>1, <1>2, <1>4
  <2>2. t = SubSeq(q, d + 1, Len(q))
    BY <1>3, <1>4
  <2> HIDE DEF d
  <2>3. \A i \in (d + 1) .. Len(q) : i \in 1 .. Len(q)
    BY <2>1, <1>2
  <2>4. t \in Seq(Frame) /\ Len(t) = keep /\ \A i \in 1 .. keep : t[i] = q[i + d]
    BY <1>1, <1>2, <2>1, <2>2, <2>3, SMT
  <2>5. t # <<>>
    BY <2>4, <1>1, EmptySeq
  <2> QED
    BY <2>1, <2>4, <2>5 DEF t
<1>5. CASE ~ (Len(q) > keep)
  <2>1. t = q /\ 0 \in Nat /\ Len(t) = Len(q) - 0 /\ \A i \in 1 .. Len(t) : t[i] = q[i + 0]
    BY <1>2, <1>3, <1>5
  <2> QED
    BY <2>1 DEF t
<1> QED
  BY <1>4, <1>5

LEMMA OrderedTrimmed ==
  ASSUME NEW q, NEW n \in Nat, NEW r \in Nat, Ordered(q, n, r), q # <<>>
  PROVE  Ordered(Trimmed(q), n, r)
<1> DEFINE t == Trimmed(q)
<1>1. t \in Seq(Frame) /\ t # <<>>
      /\ \E d \in Nat : Len(t) = Len(q) - d /\ \A i \in 1 .. Len(t) : t[i] = q[i + d]
  BY TrimmedIs DEF Ordered
<1> HIDE DEF t
<1>2. PICK d \in Nat : Len(t) = Len(q) - d /\ \A i \in 1 .. Len(t) : t[i] = q[i + d]
  BY <1>1
<1>3. Len(q) \in Nat /\ Len(t) \in Nat /\ Len(t) > 0
  BY <1>1, EmptySeq, LenProperties DEF Ordered
<1>4. \A i \in 1 .. Len(t) : i + d \in 1 .. Len(q) /\ \A j \in 1 .. (i - 1) : j + d \in 1 .. (i + d - 1) /\ j \in 1 .. Len(t)
  BY <1>2, <1>3
<1>5. ASSUME NEW i \in 1 .. Len(t), NEW j \in 1 .. (i - 1)
      PROVE  t[j].seq < t[i].seq /\ t[j].rev <= t[i].rev
  <2>1. i + d \in 1 .. Len(q) /\ j + d \in 1 .. (i + d - 1) /\ t[i] = q[i + d] /\ t[j] = q[j + d]
    BY <1>2, <1>4
  <2> QED
    BY <2>1 DEF Ordered
<1>6. \A i \in 1 .. Len(t) : t[i].seq < n /\ t[i].rev <= r
  BY <1>2, <1>4 DEF Ordered
<1>7. t[Len(t)].seq = n - 1
  <2>1. Len(t) \in 1 .. Len(t) /\ Len(t) + d = Len(q)
    BY <1>2, <1>3
  <2>2. t[Len(t)] = q[Len(q)]
    BY <1>2, <2>1
  <2> QED
    BY <2>2 DEF Ordered
<1> QED
  BY <1>1, <1>5, <1>6, <1>7 DEF Ordered, t

LEMMA StoreBegins == Init => StoreInv
<1> SUFFICES ASSUME Init PROVE StoreInv
  OBVIOUS
<1>1. /\ store = <<>> /\ next = 0 /\ revision = 0 /\ lock = "none" /\ http = "idle" /\ pending = <<>>
      /\ taken = [t \in Writers |-> NoFrame]
  BY DEF Init, ControlInit, ViewInit
<1>2. Ordered(store, next, revision)
  BY <1>1 DEF Ordered
<1>3. "main" \in Writers
  BY ParallaxAssumption
<1> QED
  BY <1>1, <1>2, <1>3 DEF StoreInv

\* Nothing is being published when the lock is free, nor when main is between two batches and
\* not kept out by the handler.
LEMMA NothingTaken ==
  ASSUME StoreInv, lock = "none" \/ (lock # "http" /\ main \notin {"preview", "tuning", "final", "last"})
  PROVE  \A t \in Writers : taken[t] = NoFrame
<1> SUFFICES ASSUME NEW t \in Writers, taken[t] # NoFrame PROVE FALSE
  OBVIOUS
<1>1. lock = t /\ (t = "main" \/ t = "http")
  BY ParallaxAssumption DEF StoreInv
<1> QED
  BY <1>1 DEF StoreInv

\* A step that publishes nothing, and changes the lock only when nothing is taken.
LEMMA StoreIdle ==
  ASSUME StoreInv, UNCHANGED <<setup, store, next, taken>>, revision \in Nat, revision' \in Nat,
         revision <= revision', \A t \in Writers : taken[t] # NoFrame => lock' = t,
         taken["main"] # NoFrame => main' = main,
         lock' = "http" => http' = "publish", setup.live => http' = "idle",
         pending' # <<>> => setup.live
  PROVE  StoreInv'
<1>1. Ordered(store, next, revision)'
  <2>1. \A i \in 1 .. Len(store) : store[i].rev \in Nat
    BY FramesTyped DEF StoreInv
  <2>2. \A i \in 1 .. Len(store) : store[i].rev <= revision'
    BY <2>1 DEF StoreInv, Ordered
  <2> QED
    BY <2>2 DEF StoreInv, Ordered
<1>2. ASSUME NEW t \in Writers, taken[t] # NoFrame
      PROVE  /\ lock' = t /\ taken[t].seq = next /\ taken[t].rev <= revision'
             /\ \A i \in 1 .. Len(store) : store[i].rev <= taken[t].rev
  <2>1. taken[t].rev \in Nat /\ taken[t].rev <= revision
    BY <1>2 DEF StoreInv, Frame
  <2> QED
    BY <1>2, <2>1 DEF StoreInv
<1>3. \A t \in Writers : taken'[t] # NoFrame =>
         /\ lock' = t /\ taken'[t].seq = next' /\ taken'[t].rev <= revision'
         /\ \A i \in 1 .. Len(store') : store'[i].rev <= taken'[t].rev
  BY <1>2
<1>4. /\ next' \in Nat /\ taken' \in [Writers -> Frame \cup {NoFrame}]
      /\ taken'["main"] # NoFrame => main' \in {"preview", "tuning", "final", "last"}
      /\ setup'.live => http' = "idle"
      /\ pending' # <<>> => setup'.live
  BY DEF StoreInv
<1> QED
  BY <1>1, <1>3, <1>4 DEF StoreInv

LEMMA StoreOverTakeFrame ==
  ASSUME ControlInv, StoreInv, NEW t \in Writers, TakeFrame(t) PROVE StoreInv'
<1>1. /\ UNCHANGED <<setup, main, http, revision, pending, store, next>>
      /\ taken' = [taken EXCEPT ![t] = [seq |-> next, rev |-> revision]]
      /\ lock' = t /\ lock \in {"none", t} /\ taken[t] = NoFrame /\ Publishing(t)
  BY DEF TakeFrame, Take, MayPublish, Free, control, queue_
<1>2. ASSUME NEW u \in Writers, u # t PROVE taken[u] = NoFrame
  BY <1>1, <1>2, ParallaxAssumption DEF StoreInv
<1> DEFINE f == [seq |-> next, rev |-> revision]
<1>3. f \in Frame /\ f.seq = next /\ f.rev = revision /\ revision \in Nat
  BY DEF StoreInv, ControlInv, Frame
<1> HIDE DEF f
<1>4. taken' \in [Writers -> Frame \cup {NoFrame}] /\ taken'[t] = f
      /\ \A u \in Writers : u # t => taken'[u] = NoFrame
  BY <1>1, <1>2, <1>3 DEF StoreInv, f
<1>5. Ordered(store, next, revision)'
  BY <1>1 DEF StoreInv, Ordered
<1>6. \A u \in Writers : taken'[u] # NoFrame =>
         /\ lock' = u /\ taken'[u].seq = next /\ taken'[u].rev <= revision
         /\ \A i \in 1 .. Len(store) : store[i].rev <= taken'[u].rev
  BY <1>1, <1>3, <1>4 DEF StoreInv, Ordered
<1>7. taken'["main"] # NoFrame => main \in {"preview", "tuning", "final", "last"}
  BY <1>1, <1>4, ParallaxAssumption DEF StoreInv, Publishing
<1>8. lock' = "http" => http = "publish"
  BY <1>1 DEF Publishing
<1> QED
  BY <1>1, <1>4, <1>5, <1>6, <1>7, <1>8 DEF StoreInv

LEMMA StoreOverPutFrame ==
  ASSUME ControlInv, StoreInv, NEW t \in Writers, PutFrame(t) PROVE StoreInv'
<1>1. /\ UNCHANGED <<setup, revision, pending>> /\ taken[t] # NoFrame /\ revision \in Nat
      /\ taken' = [taken EXCEPT ![t] = NoFrame]
      /\ lock' = Released(t)
      /\ \/ store' = Trimmed(Append(store, taken[t])) /\ next' = next + 1
         \/ store' = store /\ next' = next
  BY DEF PutFrame, Put, Abandon, control, queue_, ControlInv
<1>2. lock = t /\ lock' = "none"
  BY <1>1 DEF StoreInv, Released
<1>3. ASSUME NEW u \in Writers PROVE taken'[u] = NoFrame
  BY <1>1, <1>2 DEF StoreInv
<1>4. taken' \in [Writers -> Frame \cup {NoFrame}]
  BY <1>1 DEF StoreInv
<1>5. next' \in Nat /\ Ordered(store, next, revision)'
  <2>1. CASE store' = Trimmed(Append(store, taken[t])) /\ next' = next + 1
    <3>1. /\ taken[t] \in Frame /\ taken[t].seq = next /\ taken[t].rev <= revision
          /\ \A i \in 1 .. Len(store) : store[i].rev <= taken[t].rev
      BY <1>1 DEF StoreInv
    <3>2. next \in Nat /\ Ordered(store, next, revision)
      BY DEF StoreInv
    <3> DEFINE q == Append(store, taken[t])
    <3>3. Ordered(q, next + 1, revision) /\ q # <<>>
      BY <3>1, <3>2, <1>1, OrderedAppend
    <3> HIDE DEF q
    <3>4. next + 1 \in Nat
      BY <3>2
    <3>5. Ordered(Trimmed(q), next + 1, revision)
      BY <3>3, <3>4, <1>1, OrderedTrimmed
    <3>6. store' = Trimmed(q)
      BY <2>1 DEF q
    <3>7. Ordered(store', next', revision')
      BY <3>5, <3>6, <2>1, <1>1
    <3> QED
      BY <3>4, <3>7, <2>1 DEF Ordered
  <2>2. CASE store' = store /\ next' = next
    BY <2>2, <1>1 DEF StoreInv, Ordered
  <2> QED
    BY <1>1, <2>1, <2>2
<1>6. setup.live => http' = "idle"
  <2>1. http' = http \/ http' = "idle"
    BY DEF PutFrame
  <2> QED
    BY <2>1 DEF StoreInv
<1> QED
  BY <1>1, <1>2, <1>3, <1>4, <1>5, <1>6, ParallaxAssumption DEF StoreInv

LEMMA StoreOverUpdate == ControlInv /\ StoreInv /\ Update => StoreInv'
<1> SUFFICES ASSUME ControlInv, StoreInv, Update PROVE StoreInv'
  OBVIOUS
<1>1. PICK c \in Changes :
        Apply(c, IF acc' = NoAcc THEN UNCHANGED <<http, lock>> ELSE http' = "publish" /\ lock' = "http",
              UNCHANGED <<http, lock>>, UNCHANGED <<http, lock>>)
  BY DEF Update
<1>2. Updated(c).end \in Ends
  BY UpdatedIs DEF ControlInv
<1>3. revision \in Nat /\ revision' \in Nat /\ revision <= revision'
  <2>1. revision \in Nat /\ (revision' = revision \/ revision' = revision + 1)
    BY <1>1, <1>2, RevisionIs DEF ControlInv
  <2> QED
    BY <2>1
<1>4. UNCHANGED <<http, lock>> \/ (http' = "publish" /\ lock' = "http")
  BY <1>1, <1>2 DEF Apply, Ends
<1>5. /\ ~setup.live /\ lock = "none" /\ UNCHANGED <<setup, main, pending, store, next, taken>>
  BY DEF Update, viewVars, queue_
<1>6. \A t \in Writers : taken[t] = NoFrame
  BY <1>5, NothingTaken
<1>7. "main" \in Writers
  BY ParallaxAssumption
<1> QED
  BY <1>3, <1>4, <1>5, <1>6, <1>7, StoreIdle DEF StoreInv

LEMMA StoreOverApplyPending == ControlInv /\ StoreInv /\ ApplyPending => StoreInv'
<1> SUFFICES ASSUME ControlInv, StoreInv, ApplyPending PROVE StoreInv'
  OBVIOUS
<1> DEFINE c == Head(pending)
<1>1. Apply(c, main' = "tuning" /\ lock' = "main", UNCHANGED <<main, lock>>, Fail /\ UNCHANGED lock)
  BY DEF ApplyPending
<1> HIDE DEF c
<1>2. Updated(c).end \in Ends
  BY UpdatedIs DEF ControlInv
<1>3. revision \in Nat /\ revision' \in Nat /\ revision <= revision'
  <2>1. revision \in Nat /\ (revision' = revision \/ revision' = revision + 1)
    BY <1>1, <1>2, RevisionIs DEF ControlInv
  <2> QED
    BY <2>1
<1>4. lock' = lock \/ lock' = "main"
  BY <1>1, <1>2 DEF Apply, Ends
<1>5. /\ main = "run" /\ pending # <<>> /\ UNCHANGED <<setup, http, store, next, taken>>
  BY DEF ApplyPending, viewVars
<1>6. setup.live /\ http = "idle" /\ lock # "http"
  BY <1>5 DEF StoreInv
<1>7. \A t \in Writers : taken[t] = NoFrame
  BY <1>5, <1>6, NothingTaken
<1>8. "main" \in Writers
  BY ParallaxAssumption
<1> QED
  BY <1>3, <1>4, <1>5, <1>6, <1>7, <1>8, StoreIdle DEF StoreInv

LEMMA StorePreserved == ControlInv /\ StoreInv /\ [Next]_vars => StoreInv'
<1> SUFFICES ASSUME ControlInv, StoreInv, [Next]_vars PROVE StoreInv'
  OBVIOUS
<1>0. /\ revision \in Nat /\ revision <= revision /\ "main" \in Writers
      /\ \A t \in Writers : taken[t] # NoFrame => lock = t
      /\ taken["main"] # NoFrame => main \in {"preview", "tuning", "final", "last"}
      /\ lock = "http" => http = "publish"
      /\ setup.live => http = "idle"
      /\ pending # <<>> => setup.live
  BY ParallaxAssumption DEF ControlInv, StoreInv
<1>1. CASE UNCHANGED vars
  BY <1>1, StoreStays DEF vars, pvars, control, queue_, viewVars
<1>2. CASE Start
  <2>1. main = "run" /\ UNCHANGED <<setup, http, lock, revision, pending, store, next, taken>>
    BY <1>2 DEF Start, control, queue_, viewVars
  <2> QED
    BY <2>1, <1>0, StoreIdle
<1>3. CASE Feed
  <2>1. main = "run" /\ UNCHANGED <<setup, http, lock, revision, pending, store, next, taken>>
    BY <1>3 DEF Feed, control, queue_, viewVars
  <2> QED
    BY <2>1, <1>0, StoreIdle
<1>4. CASE Finish
  <2>1. /\ main = "run" /\ lock \in {"none", "main"} /\ lock' \in {lock, "main"}
        /\ UNCHANGED <<setup, http, revision, pending, store, next, taken>>
    BY <1>4 DEF Finish, Free, control, queue_, viewVars
  <2>2. \A t \in Writers : taken[t] = NoFrame
    BY <2>1, NothingTaken
  <2> QED
    BY <2>1, <2>2, <1>0, StoreIdle
<1>5. CASE Interrupt
  <2>1. /\ lock' = Released("main") /\ taken' = [taken EXCEPT !["main"] = NoFrame]
        /\ UNCHANGED <<setup, http, revision, pending, store, next>>
    BY <1>5 DEF Interrupt, Abandon, control, queue_
  <2>2. \A t \in Writers : taken'[t] # NoFrame => t # "main" /\ taken'[t] = taken[t] /\ lock' = t
    BY <2>1, <1>0 DEF StoreInv, Released
  <2>3. taken' \in [Writers -> Frame \cup {NoFrame}] /\ taken'["main"] = NoFrame
    BY <2>1, <1>0 DEF StoreInv
  <2>4. Ordered(store, next, revision)'
    BY <2>1 DEF StoreInv, Ordered
  <2>5. lock' = "http" => http' = "publish"
    BY <2>1, <1>0 DEF Released
  <2> QED
    BY <2>1, <2>2, <2>3, <2>4, <2>5 DEF StoreInv
<1>6. CASE Exhausted
  <2>1. main = "run" /\ UNCHANGED <<setup, http, lock, revision, pending, store, next, taken>>
    BY <1>6 DEF Exhausted, control, queue_, viewVars
  <2> QED
    BY <2>1, <1>0, StoreIdle
<1>7. CASE CloseReads
  <2>1. main = "stop" /\ UNCHANGED <<setup, http, lock, revision, pending, store, next, taken>>
    BY <1>7 DEF CloseReads, control, viewVars
  <2> QED
    BY <2>1, <1>0, StoreIdle
<1>8. CASE CloseSaves
  <2>1. /\ main = "resave" /\ lock = "none" /\ lock' \in {lock, "main"}
        /\ UNCHANGED <<setup, http, revision, pending, store, next, taken>>
    BY <1>8 DEF CloseSaves, control, queue_, viewVars
  <2>2. \A t \in Writers : taken[t] = NoFrame
    BY <2>1, NothingTaken
  <2> QED
    BY <2>1, <2>2, <1>0, StoreIdle
<1>9. CASE Update
  BY <1>9, StoreOverUpdate
<1>10. CASE Enqueue
  <2>1. setup.live /\ UNCHANGED <<setup, main, http, lock, revision, store, next, taken>>
    BY <1>10 DEF Enqueue, control, viewVars
  <2> QED
    BY <2>1, <1>0, StoreIdle
<1>11. CASE ApplyPending
  BY <1>11, StoreOverApplyPending
<1>12. ASSUME NEW t \in Writers, TakeFrame(t) PROVE StoreInv'
  BY <1>12, StoreOverTakeFrame
<1>13. ASSUME NEW t \in Writers, PutFrame(t) PROVE StoreInv'
  BY <1>13, StoreOverPutFrame
<1>14. CASE View
  <2>1. UNCHANGED pvars
    BY <1>14 DEF View, ViewNext, ShowPage, RecvLatest, pvars, control, queue_
  <2> QED
    BY <2>1, StoreStays
<1> QED
  BY <1>1, <1>2, <1>3, <1>4, <1>5, <1>6, <1>7, <1>8, <1>9, <1>10, <1>11, <1>12, <1>13, <1>14 DEF Next

\* The page's frames are numbered without a repetition, the newest is kept, and none shows an
\* older state of the control than the one before it.
THEOREM PageIsOrdered == Spec => []StoreOrdered
<1>1. Init => ControlInv /\ StoreInv
  BY ControlBegins, StoreBegins
<1>2. ControlInv /\ StoreInv /\ [Next]_vars => (ControlInv /\ StoreInv)'
  BY ControlPreserved, StorePreserved
<1>3. StoreInv => StoreOrdered
  BY DEF StoreInv, StoreOrdered, Ordered, Newest
<1> QED
  BY <1>1, <1>2, <1>3, PTL DEF Spec

-----------------------------------------------------------------------------
(* The images hold what their mode says.                                    *)

\* The pass and the position of an image do not depend on the passes before its series.
LEMMA Shifted ==
  ASSUME NEW i \in Nat, NEW o \in Nat, o % Positions = 0
  PROVE  /\ i \div Positions \in Nat /\ o \div Positions \in Nat
         /\ (i + o) \div Positions = i \div Positions + o \div Positions
         /\ (i + o) % Positions = i % Positions
<1> DEFINE P == Positions
           q == i \div P
           m == o \div P
           r == i % P
           x == i + o
<1>1. P \in Nat /\ P > 0
  BY PositionsPositive
<1>2. q \in Nat /\ r \in 0 .. (P - 1) /\ i = P * q + r
  BY <1>1, Quotient
<1>3. m \in Nat /\ o = P * m + 0
  BY <1>1, Quotient
<1>4. x \div P \in Nat /\ x % P \in 0 .. (P - 1) /\ x = P * (x \div P) + (x % P)
  <2>1. x \in Nat
    OBVIOUS
  <2> QED BY <1>1, <2>1, Quotient
<1>5. x = P * (q + m) + r
  <2>1. P * (q + m) = P * q + P * m
    BY <1>1, <1>2, <1>3
  <2> QED BY <1>1, <1>2, <1>3, <2>1
<1> DEFINE n == x \div P
           s == x % P
<1>6. n \in Nat /\ s \in 0 .. (P - 1) /\ P * n + s = P * (q + m) + r
  BY <1>4, <1>5
<1> HIDE DEF P, q, m, r, x, n, s
<1>7. n = q + m /\ s = r
  <2>1. ASSUME NEW c \in Nat, NEW d \in Nat, c < d PROVE P * c + P <= P * d
    <3>1. c + 1 <= d
      BY <2>1
    <3>2. P * (c + 1) <= P * d
      BY <1>1, <3>1
    <3>3. P * (c + 1) = P * c + P
      BY <1>1
    <3> QED BY <3>2, <3>3
  <2>2. P * n \in Int /\ P * (q + m) \in Int /\ q + m \in Nat
    BY <1>1, <1>2, <1>3, <1>6
  <2>3. ~ (n < q + m)
    <3>1. SUFFICES ASSUME n < q + m PROVE FALSE
      OBVIOUS
    <3>2. P * n + P <= P * (q + m)
      BY <1>6, <2>1, <2>2, <3>1
    <3> HIDE DEF P
    <3> DEFINE u == P * n
               v == P * (q + m)
    <3>3. u + P <= v /\ u + s = v + r /\ u \in Int /\ v \in Int
      BY <1>6, <2>2, <3>2
    <3> HIDE DEF u, v
    <3> QED BY <1>1, <1>2, <1>6, <3>3
  <2>4. ~ (q + m < n)
    <3>1. SUFFICES ASSUME q + m < n PROVE FALSE
      OBVIOUS
    <3>2. P * (q + m) + P <= P * n
      BY <1>6, <2>1, <2>2, <3>1
    <3> DEFINE u == P * n
               v == P * (q + m)
    <3>3. v + P <= u /\ u + s = v + r /\ u \in Int /\ v \in Int
      BY <1>6, <2>2, <3>2
    <3> HIDE DEF u, v
    <3> QED BY <1>1, <1>2, <1>6, <3>3
  <2>5. n = q + m
    <3>1. n \in Nat /\ q + m \in Nat
      BY <1>6, <2>2
    <3> QED BY <3>1, <2>3, <2>4
  <2> QED BY <1>2, <1>6, <2>2, <2>5
<1> QED BY <1>2, <1>3, <1>7 DEF P, q, m, r, x, n, s

\* The image X holds an event's frame.
Has(X, e) == \E f \in X : f.s = e.s /\ f.i = e.i
Same(X, Y) == (\A x \in X : Has(Y, x)) /\ (\A y \in Y : Has(X, y))

LEMMA HasId ==
  ASSUME NEW X, NEW e
  PROVE  [s |-> e.s, i |-> e.i] \in Ids(X) <=> Has(X, e)
BY DEF Ids, Has

LEMMA SameIds ==
  ASSUME NEW X, NEW Y, Same(X, Y) PROVE Ids(X) = Ids(Y)
BY DEF Same, Has, Ids

\* The number of the pass of a fed image, by the passes that lie before its series.
Num(base, e) == e.i \div Positions + base[e.s]

\* A frame of pass n, at its position.
Seated(f, n) == PassOf(f) = n /\ Pos(f) = f.i % Positions

\* One pass: only images fed since the image was begun, all of pass n and shifted by geo.
OnlyOf(frames, n, base, since, geo) ==
  \A f \in frames : Num(base, f) = n /\ Has(since, f) /\ f.g = geo /\ Seated(f, n)

Overtaken(e, fed) == \E d \in fed : Earlier(d, e) /\ NewerPass(Pass(d), Pass(e))

\* The images fed since the image was begun, in passes that ascend with the series.
FedInv(a, base, r, since) ==
  /\ \A e \in since : /\ e.s \in Nat /\ e.i \in Nat /\ e.s <= r /\ Num(base, e) <= a.pass
                      /\ e.s < r => Num(base, e) < base[r]
  /\ \A d, e \in since : d.s < e.s => Num(base, d) < Num(base, e)

\* The running pass was opened by an image, of this series or of one that ended before.
OpenedInv(a, base, r, fed) ==
  a.pass >= 0 => \E d \in fed : /\ d.s \in Nat /\ d.i \in Nat /\ d.s <= r /\ Num(base, d) = a.pass
                                /\ d.s < r => a.pass < base[r]

\* The running pass has all of its images ...
ImageInv(a, base, since) ==
  /\ OnlyOf(a.image, a.pass, base, since, a.geo)
  /\ a.closed => a.image = {}
  /\ ~a.closed => \A e \in since : Num(base, e) = a.pass => Has(a.image, e)

\* ... and so has the completed one, but for what "reset" drops.
FrontInv(a, base, since, fed) ==
  \A c \in a.front :
    /\ c.pass \in 0 .. a.pass /\ (c.pass = a.pass <=> a.closed)
    /\ OnlyOf(c.frames, c.pass, base, since, a.geo)
    /\ \A e \in since : Num(base, e) = c.pass =>
         Has(c.frames, e) \/ (a.mode = "reset" /\ Overtaken(e, fed))

\* An image that is still to come is of no closed pass, and if it is late, of the completed one.
AheadInv(a, base, r, ahead) ==
  \A i \in ahead :
    LET n == i \div Positions + base[r]
    IN (a.closed => n > a.pass) /\ (a.mode = "swap" /\ n < a.pass => \A c \in a.front : c.pass = n)

PassInv(a, base, r, since, fed, ahead) ==
  /\ a.pass >= 0 => a.last >= 0 /\ a.pass <= a.last \div Positions
  /\ FedInv(a, base, r, since) /\ OpenedInv(a, base, r, fed)
  /\ ImageInv(a, base, since) /\ FrontInv(a, base, since, fed) /\ AheadInv(a, base, r, ahead)

\* A step that leaves alone what the invariant is about.
LEMMA PassFrame ==
  ASSUME NEW a, NEW b, NEW base, NEW r, NEW since, NEW fed, NEW ahead, NEW later,
         PassInv(a, base, r, since, fed, ahead), later \subseteq ahead,
         b.pass = a.pass, b.image = a.image, b.front = a.front, b.closed = a.closed,
         b.mode = a.mode, b.geo = a.geo,
         a.pass >= 0 => b.last >= 0 /\ a.pass <= b.last \div Positions
  PROVE  PassInv(b, base, r, since, fed, later)
<1>1. FedInv(b, base, r, since) /\ OpenedInv(b, base, r, fed)
  BY DEF PassInv, FedInv, OpenedInv
<1>2. ImageInv(b, base, since) /\ FrontInv(b, base, since, fed)
  BY DEF PassInv, ImageInv, FrontInv
<1>3. AheadInv(b, base, r, later)
  BY DEF PassInv, AheadInv
<1> QED BY <1>1, <1>2, <1>3 DEF PassInv

-----------------------------------------------------------------------------
(* What one pass of a batch does to the images of "reset" and "swap".        *)

Bases == [Nat -> Nat]

LEMMA NumIsNat ==
  ASSUME NEW base \in Bases, NEW e, e.s \in Nat, e.i \in Nat
  PROVE  Num(base, e) \in Nat
<1>1. e.i \div Positions \in Nat
  BY PositionsPositive, Quotient
<1>2. base[e.s] \in Nat
  BY DEF Bases
<1> QED BY <1>1, <1>2 DEF Num

LEMMA ClosePassIs ==
  ASSUME NEW a, IsAcc(a), KeepsFront(a)
  PROVE  LET b == ClosePass(a)
         IN /\ Carried(a, b) /\ b.pass = a.pass /\ b.closed = TRUE /\ b.image = {}
            /\ b.front = {[pass |-> a.pass, frames |-> a.image]}
            /\ ~a.filed => b.done = a.done
            /\ a.filed /\ a.done = <<>> => b.done # <<>>
<1> DEFINE c == [pass |-> a.pass, frames |-> a.image]
           now == [a EXCEPT !.front = {c}, !.image = {}, !.start = NoId]
           x == [pass |-> a.pass, frames |-> Completed(now)]
<1>1. /\ now.pass = a.pass /\ now.image = {} /\ now.front = {c} /\ now.done = a.done
      /\ {"closed", "done", "pass", "image", "front"} \subseteq DOMAIN now
  BY DEF IsAcc
<1>2. ClosePass(a) = [now EXCEPT !.closed = TRUE, !.done = IF a.filed THEN Append(@, x) ELSE @]
  BY DEF ClosePass
<1>3. Append(<<>>, x) # <<>>
  OBVIOUS
<1> HIDE DEF now, c, x
<1>4. LET b == ClosePass(a)
      IN /\ b.pass = a.pass /\ b.closed = TRUE /\ b.image = {} /\ b.front = {c}
         /\ b.done = IF a.filed THEN Append(a.done, x) ELSE a.done
  BY <1>1, <1>2
<1> QED BY <1>3, <1>4, ClosePassCarries DEF c

\* The images after a pass is closed, when no image is awaited.
LEMMA CloseKeeps ==
  ASSUME NEW a, IsAcc(a), KeepsFront(a), NEW base, NEW r, NEW since, NEW fed, NEW ahead,
         PassInv(a, base, r, since, fed, ahead), ~a.closed, a.pass >= 0
  PROVE  PassInv(ClosePass(a), base, r, since, fed, {})
<1> DEFINE b == ClosePass(a)
           c == [pass |-> a.pass, frames |-> a.image]
<1>1. /\ b.pass = a.pass /\ b.closed = TRUE /\ b.image = {} /\ b.front = {c}
      /\ b.mode = a.mode /\ b.geo = a.geo /\ b.last = a.last
  BY ClosePassIs DEF Carried
<1>2. c.pass = a.pass /\ c.frames = a.image
  OBVIOUS
<1>3. a.pass \in 0 .. a.pass
  BY DEF IsAcc
<1> HIDE DEF b, c
<1>4. FedInv(b, base, r, since) /\ OpenedInv(b, base, r, fed)
  BY <1>1 DEF PassInv, FedInv, OpenedInv
<1>5. ImageInv(b, base, since)
  BY <1>1 DEF ImageInv, OnlyOf
<1>6. FrontInv(b, base, since, fed)
  BY <1>1, <1>2, <1>3 DEF PassInv, ImageInv, FrontInv
<1>7. AheadInv(b, base, r, {})
  BY DEF AheadInv
<1> QED BY <1>1, <1>4, <1>5, <1>6, <1>7 DEF PassInv, b

\* The images of a pass k, as frames F and as events E of series r.
PassOfBatch(base, r, k, F, E, geo) ==
  /\ E # {} /\ Same(F, E) /\ k \in Nat /\ r \in Nat /\ base[r] <= k
  /\ \A f \in F : IsFrame(f) /\ f.s = r /\ Num(base, f) = k /\ f.g = geo /\ Seated(f, k)
  /\ \A e \in E : e.s = r /\ e.i \in Nat /\ Num(base, e) = k

\* A newer pass: the running one is completed, unless it was, and the image is the new frames.
LEMMA OpenPassIs ==
  ASSUME NEW a, IsAcc(a), KeepsFront(a), NEW base \in Bases, NEW r, NEW since, NEW fed, NEW ahead,
         PassInv(a, base, r, since, fed, ahead), NEW k \in Nat, k > a.pass
  PROVE  LET b == OpenPass(a, k)
         IN /\ Carried(a, b) /\ b.pass = k /\ b.closed = FALSE /\ b.image = {}
            /\ a.pass = -1 => b.front = {}
            /\ \A c \in b.front :
                 /\ c.pass = a.pass /\ OnlyOf(c.frames, a.pass, base, since, a.geo)
                 /\ \A e \in since : Num(base, e) = a.pass =>
                      Has(c.frames, e) \/ (a.mode = "reset" /\ Overtaken(e, fed))
<1> DEFINE o == IF Closes(a, k) THEN ClosePass(a) ELSE a
<1>1. OpenPass(a, k) = [o EXCEPT !.pass = k, !.closed = FALSE]
  BY DEF OpenPass, IsAcc
<1>2. a.pass = -1 => a.image = {} /\ a.front = {}
  <2>1. SUFFICES ASSUME a.pass = -1 PROVE a.image = {} /\ a.front = {}
    OBVIOUS
  <2>2. ASSUME NEW f \in a.image PROVE FALSE
    <3>1. Num(base, f) \in Nat
      BY NumIsNat DEF IsAcc, IsFrame
    <3>2. Num(base, f) = -1
      BY <2>1 DEF PassInv, ImageInv, OnlyOf
    <3> QED BY <3>1, <3>2
  <2>3. ASSUME NEW c \in a.front PROVE FALSE
    <3>1. c.pass \in 0 .. -1
      BY <2>1 DEF PassInv, FrontInv
    <3> QED BY <3>1
  <2> QED BY <2>2, <2>3
<1>3. CASE Closes(a, k)
  <2> DEFINE c == [pass |-> a.pass, frames |-> a.image]
  <2>1. /\ Carried(a, o) /\ o.image = {} /\ o.front = {c}
    BY <1>3, ClosePassIs
  <2>2. c.pass = a.pass /\ c.frames = a.image /\ ~a.closed /\ a.pass # -1
    BY <1>3 DEF Closes, IsAcc
  <2> HIDE DEF c, o
  <2>3. OnlyOf(a.image, a.pass, base, since, a.geo) /\ \A e \in since : Num(base, e) = a.pass => Has(a.image, e)
    BY <2>2 DEF PassInv, ImageInv
  <2>4. LET b == OpenPass(a, k)
        IN /\ b.pass = k /\ b.closed = FALSE /\ b.image = {} /\ b.front = {c}
    BY <1>1, <2>1 DEF Carried, IsAcc
  <2> QED BY <2>2, <2>3, <2>4, OpenPassCarries
<1>4. CASE ~Closes(a, k)
  <2>1. o = a
    BY <1>4
  <2>2. a.pass = -1 \/ a.closed
    BY <1>4 DEF Closes, IsAcc
  <2>3. LET b == OpenPass(a, k)
        IN /\ b.pass = k /\ b.closed = FALSE /\ b.image = a.image /\ b.front = a.front
    BY <1>1, <2>1 DEF IsAcc
  <2>4. a.image = {}
    BY <1>2, <2>2 DEF PassInv, ImageInv
  <2>5. \A c \in a.front :
          /\ c.pass = a.pass /\ OnlyOf(c.frames, a.pass, base, since, a.geo)
          /\ \A e \in since : Num(base, e) = a.pass =>
               Has(c.frames, e) \/ (a.mode = "reset" /\ Overtaken(e, fed))
    BY <1>2, <2>2 DEF PassInv, FrontInv
  <2> QED BY <1>2, <2>3, <2>4, <2>5, OpenPassCarries
<1> QED BY <1>3, <1>4

LEMMA DepositIs ==
  ASSUME NEW a, IsAcc(a), NEW frames
  PROVE  LET b == Deposit(a, frames)
         IN /\ b.image = Held(a, frames) \cup frames /\ b.front = a.front /\ b.pass = a.pass
            /\ b.closed = a.closed /\ b.mode = a.mode /\ b.geo = a.geo /\ b.last = a.last
            /\ b.done = a.done
  BY DEF Deposit, Begun, IsAcc

\* The images that remain are of those awaited, and none is late behind pass k but of the running one.
Remain(a, base, r, k, later, ahead) ==
  /\ later \subseteq ahead
  /\ k > a.pass => \A i \in later : LET n == i \div Positions + base[r]
                                    IN n < k => a.pass = -1 \/ n = a.pass

\* What was fed of newer passes of the series was fed in batches before.
FedBefore(base, r, k, fed, E) == \A d \in fed, e \in E : d.s = r /\ Num(base, d) > k => d.b < e.b

\* The events of a series' pass come behind those of the series before.
LEMMA FedGrows ==
  ASSUME NEW a, NEW b, NEW base \in Bases, NEW r, NEW since, NEW k, NEW F, NEW E, NEW geo,
         FedInv(a, base, r, since), PassOfBatch(base, r, k, F, E, geo),
         a.pass \in Int, b.pass \in Int, a.pass <= b.pass, k <= b.pass
  PROVE  FedInv(b, base, r, since \cup E)
<1>1. ASSUME NEW e \in since \cup E
      PROVE  /\ e.s \in Nat /\ e.i \in Nat /\ e.s <= r /\ Num(base, e) <= b.pass
             /\ e.s < r => Num(base, e) < base[r]
  <2>1. CASE e \in since
    <3>1. /\ e.s \in Nat /\ e.i \in Nat /\ e.s <= r /\ Num(base, e) <= a.pass
          /\ e.s < r => Num(base, e) < base[r]
      BY <2>1 DEF FedInv
    <3>2. Num(base, e) \in Nat
      BY <3>1, NumIsNat
    <3> QED BY <3>1, <3>2
  <2>2. CASE e \in E
    <3>1. e.s = r /\ e.i \in Nat /\ Num(base, e) = k /\ r \in Nat
      BY <2>2 DEF PassOfBatch
    <3> QED BY <3>1
  <2> QED BY <2>1, <2>2
<1>2. ASSUME NEW d \in since \cup E, NEW e \in since \cup E, d.s < e.s
      PROVE  Num(base, d) < Num(base, e)
  <2>1. CASE d \in since /\ e \in since
    BY <1>2, <2>1 DEF FedInv
  <2>2. CASE d \in since /\ e \in E
    <3>1. e.s = r /\ Num(base, e) = k /\ base[r] <= k /\ k \in Nat /\ base[r] \in Nat
      BY <2>2 DEF PassOfBatch, Bases
    <3>2. d.s \in Nat /\ d.i \in Nat /\ Num(base, d) < base[r]
      BY <1>2, <2>2, <3>1 DEF FedInv
    <3>3. Num(base, d) \in Nat
      BY <3>2, NumIsNat
    <3> QED BY <3>1, <3>2, <3>3
  <2>3. CASE d \in E
    <3>1. d.s = r /\ r \in Nat
      BY <2>3 DEF PassOfBatch
    <3>2. e.s \in Nat /\ e.s <= r
      BY <1>1
    <3> QED BY <1>2, <3>1, <3>2
  <2> QED BY <2>1, <2>2, <2>3
<1> QED BY <1>1, <1>2 DEF FedInv

\* A pass in the image, or in the completed one.
LEMMA OnlyGrows ==
  ASSUME NEW frames, NEW n, NEW base, NEW since, NEW geo, NEW E,
         OnlyOf(frames, n, base, since, geo)
  PROVE  OnlyOf(frames, n, base, since \cup E, geo)
  BY DEF OnlyOf, Has

LEMMA OnlyWith ==
  ASSUME NEW frames, NEW base, NEW since, NEW geo, NEW E, NEW F, NEW r, NEW k,
         OnlyOf(frames, k, base, since, geo), PassOfBatch(base, r, k, F, E, geo)
  PROVE  OnlyOf(frames \cup F, k, base, since \cup E, geo)
  BY DEF OnlyOf, Has, Same, PassOfBatch

LEMMA OvertakenGrows ==
  ASSUME NEW e, NEW fed, NEW E, Overtaken(e, fed) PROVE Overtaken(e, fed \cup E)
  BY DEF Overtaken

\* What is known of an accumulator a that takes the images of pass k, all of them awaited.
PassStep(a, base, r, since, fed, ahead, k, F, E, later) ==
  /\ IsAcc(a) /\ KeepsFront(a) /\ base \in Bases /\ PassInv(a, base, r, since, fed, ahead)
  /\ PassOfBatch(base, r, k, F, E, a.geo) /\ a.last >= 0 /\ k <= a.last \div Positions
  /\ \E i \in ahead : i \div Positions + base[r] = k
  /\ FedBefore(base, r, k, fed, E) /\ Remain(a, base, r, k, later, ahead)

\* The first images of a newer pass.
LEMMA NewPassKeeps ==
  ASSUME NEW a, NEW base, NEW r, NEW since, NEW fed, NEW ahead, NEW k, NEW F, NEW E, NEW later,
         PassStep(a, base, r, since, fed, ahead, k, F, E, later), k > a.pass
  PROVE  LET b == AcceptPass(a, k, F)
         IN PassInv(b, base, r, since \cup E, fed \cup E, later) /\ b.pass = k
<1> USE DEF PassStep
<1> DEFINE o == OpenPass(a, k)
           b == AcceptPass(a, k, F)
<1>1. k \in Nat
  BY DEF PassOfBatch
<1>2. /\ Carried(a, o) /\ o.pass = k /\ o.closed = FALSE /\ o.image = {}
      /\ a.pass = -1 => o.front = {}
      /\ \A c \in o.front :
           /\ c.pass = a.pass /\ OnlyOf(c.frames, a.pass, base, since, a.geo)
           /\ \A e \in since : Num(base, e) = a.pass =>
                Has(c.frames, e) \/ (a.mode = "reset" /\ Overtaken(e, fed))
  BY <1>1, OpenPassIs
<1>3. b = Deposit(o, F)
  BY <1>1, <1>2 DEF AcceptPass
<1>4. IsAcc(o) /\ o.mode = a.mode /\ o.geo = a.geo /\ o.last = a.last
  BY <1>2 DEF Carried
<1> HIDE DEF o
<1>5. /\ b.image = Held(o, F) \cup F /\ b.front = o.front /\ b.pass = k
      /\ b.closed = FALSE /\ b.mode = a.mode /\ b.geo = a.geo /\ b.last = a.last
  BY <1>2, <1>3, <1>4, DepositIs
<1>6. b.image = F
  BY <1>2, <1>5 DEF Held
<1> HIDE DEF b
<1>7. a.pass \in Int /\ a.pass >= -1 /\ a.pass < k /\ a.pass # k /\ k \in Int
  BY <1>1 DEF IsAcc
<1>8. FedInv(b, base, r, since \cup E)
  <2>1. FedInv(a, base, r, since) /\ a.pass <= b.pass /\ k <= b.pass /\ b.pass \in Int
    BY <1>5, <1>7 DEF PassInv
  <2> QED BY <2>1, <1>7, FedGrows
<1>9. OpenedInv(b, base, r, fed \cup E)
  <2>1. PICK e \in E : TRUE
    BY DEF PassOfBatch
  <2>2. e \in fed \cup E /\ e.s \in Nat /\ e.i \in Nat /\ e.s <= r /\ Num(base, e) = k /\ ~ (e.s < r)
    BY <2>1 DEF PassOfBatch
  <2> QED BY <1>5, <2>2 DEF OpenedInv
<1>10. ASSUME NEW e \in since PROVE Num(base, e) # k
  <2>1. Num(base, e) <= a.pass /\ Num(base, e) \in Nat
    BY NumIsNat DEF PassInv, FedInv
  <2> QED BY <2>1, <1>7
<1>11. ImageInv(b, base, since \cup E)
  <2>1. OnlyOf(F, k, base, since \cup E, a.geo)
    <3>1. OnlyOf({}, k, base, since, a.geo)
      BY DEF OnlyOf
    <3>2. OnlyOf({} \cup F, k, base, since \cup E, a.geo)
      BY <3>1, OnlyWith
    <3>3. {} \cup F = F
      OBVIOUS
    <3> QED BY <3>2, <3>3
  <2>2. \A e \in since \cup E : Num(base, e) = k => Has(F, e)
    BY <1>10 DEF PassOfBatch, Same
  <2> QED BY <1>5, <1>6, <2>1, <2>2 DEF ImageInv
<1>12. FrontInv(b, base, since \cup E, fed \cup E)
  <2> SUFFICES ASSUME NEW c \in b.front
               PROVE  /\ c.pass \in 0 .. b.pass /\ (c.pass = b.pass <=> b.closed)
                      /\ OnlyOf(c.frames, c.pass, base, since \cup E, b.geo)
                      /\ \A e \in since \cup E : Num(base, e) = c.pass =>
                           Has(c.frames, e) \/ (b.mode = "reset" /\ Overtaken(e, fed \cup E))
    BY DEF FrontInv
  <2>1. a.pass # -1
    BY <1>2, <1>5
  <2>2. c.pass = a.pass /\ OnlyOf(c.frames, a.pass, base, since, a.geo)
    BY <1>2, <1>5
  <2>3. c.pass \in 0 .. k /\ c.pass # k
    BY <1>7, <2>1, <2>2
  <2>4. \A e \in E : Num(base, e) = k
    BY DEF PassOfBatch
  <2>5. \A e \in since \cup E : Num(base, e) = c.pass =>
          Has(c.frames, e) \/ (a.mode = "reset" /\ Overtaken(e, fed \cup E))
    BY <1>2, <1>5, <2>2, <2>3, <2>4, OvertakenGrows
  <2> QED BY <1>5, <2>2, <2>3, <2>5, OnlyGrows
<1>13. AheadInv(b, base, r, later)
  <2>1. ASSUME NEW i \in later, i \div Positions + base[r] < k, NEW c \in b.front
        PROVE  c.pass = i \div Positions + base[r]
    <3>1. a.pass # -1 /\ c.pass = a.pass
      BY <1>2, <1>5
    <3> QED BY <2>1, <3>1 DEF Remain
  <2> QED BY <1>5, <2>1 DEF AheadInv
<1>14. b.pass >= 0 => b.last >= 0 /\ b.pass <= b.last \div Positions
  BY <1>5
<1> QED BY <1>5, <1>8, <1>9, <1>11, <1>12, <1>13, <1>14 DEF PassInv, b

\* More images of the running pass.
LEMMA SamePassKeeps ==
  ASSUME NEW a, NEW base, NEW r, NEW since, NEW fed, NEW ahead, NEW k, NEW F, NEW E, NEW later,
         PassStep(a, base, r, since, fed, ahead, k, F, E, later), k = a.pass, ~a.closed
  PROVE  LET b == AcceptPass(a, k, F)
         IN PassInv(b, base, r, since \cup E, fed \cup E, later) /\ b.pass = k
<1> USE DEF PassStep
<1> DEFINE b == AcceptPass(a, k, F)
<1>1. k \in Nat /\ ~ (k < k) /\ k <= k
  BY DEF PassOfBatch
<1>2. OpenPass(a, k) = a
  BY <1>1 DEF OpenPass
<1>3. b = Deposit(a, F)
  BY <1>1, <1>2 DEF AcceptPass
<1>4. /\ b.image = Held(a, F) \cup F /\ b.front = a.front /\ b.pass = a.pass
      /\ b.closed = a.closed /\ b.mode = a.mode /\ b.geo = a.geo /\ b.last = a.last
  BY <1>3, DepositIs
<1>5. b.image = a.image \cup F
  BY <1>4 DEF Held, KeepsFront
<1> HIDE DEF b
<1>6. FedInv(b, base, r, since \cup E)
  <2>1. FedInv(a, base, r, since) /\ a.pass \in Int /\ b.pass \in Int /\ a.pass <= b.pass /\ k <= b.pass
    BY <1>1, <1>4 DEF PassInv
  <2> QED BY <2>1, FedGrows
<1>7. OpenedInv(b, base, r, fed \cup E)
  BY <1>4 DEF PassInv, OpenedInv
<1>8. ImageInv(b, base, since \cup E)
  <2>1. OnlyOf(a.image \cup F, k, base, since \cup E, a.geo)
    BY OnlyWith DEF PassInv, ImageInv
  <2>2. ASSUME NEW e \in since \cup E, Num(base, e) = k PROVE Has(a.image \cup F, e)
    <3>1. CASE e \in since
      BY <2>2, <3>1 DEF PassInv, ImageInv, Has
    <3>2. CASE e \in E
      BY <3>2 DEF PassOfBatch, Same, Has
    <3> QED BY <3>1, <3>2
  <2> QED BY <1>4, <1>5, <2>1, <2>2 DEF ImageInv
<1>9. FrontInv(b, base, since \cup E, fed \cup E)
  <2> SUFFICES ASSUME NEW c \in a.front
               PROVE  /\ c.pass \in 0 .. a.pass /\ (c.pass = a.pass <=> a.closed)
                      /\ OnlyOf(c.frames, c.pass, base, since \cup E, a.geo)
                      /\ \A e \in since \cup E : Num(base, e) = c.pass =>
                           Has(c.frames, e) \/ (a.mode = "reset" /\ Overtaken(e, fed \cup E))
    BY <1>4 DEF FrontInv
  <2>1. /\ c.pass \in 0 .. a.pass /\ (c.pass = a.pass <=> a.closed)
        /\ OnlyOf(c.frames, c.pass, base, since, a.geo)
        /\ \A e \in since : Num(base, e) = c.pass =>
             Has(c.frames, e) \/ (a.mode = "reset" /\ Overtaken(e, fed))
    BY DEF PassInv, FrontInv
  <2>2. c.pass # k /\ \A e \in E : Num(base, e) = k
    BY <2>1 DEF PassOfBatch
  <2> QED BY <2>1, <2>2, OnlyGrows, OvertakenGrows
<1>10. AheadInv(b, base, r, later)
  BY <1>4 DEF PassInv, AheadInv, Remain
<1>11. b.pass >= 0 => b.last >= 0 /\ b.pass <= b.last \div Positions
  BY <1>4 DEF PassInv
<1> QED BY <1>4, <1>6, <1>7, <1>8, <1>9, <1>10, <1>11 DEF PassInv, b

\* Late images, of a pass before the running one: into the completed pass, or dropped.
LEMMA LatePassKeeps ==
  ASSUME NEW a, NEW base, NEW r, NEW since, NEW fed, NEW ahead, NEW k, NEW F, NEW E, NEW later,
         PassStep(a, base, r, since, fed, ahead, k, F, E, later), k < a.pass, ~a.closed
  PROVE  LET b == AcceptPass(a, k, F)
         IN PassInv(b, base, r, since \cup E, fed \cup E, later) /\ b.pass = a.pass
<1> USE DEF PassStep
<1> DEFINE b == AcceptPass(a, k, F)
           G == IF a.mode = "swap" THEN F ELSE {}
           more(c) == [c EXCEPT !.frames = @ \cup F]
<1>1. k \in Nat /\ a.pass \in Int /\ k <= a.pass
  BY DEF PassOfBatch, IsAcc
<1>a. a.mode = "swap" => \A c \in a.front : c.pass = k
  BY DEF PassInv, AheadInv
<1>2. OpenPass(a, k) = a
  BY <1>1 DEF OpenPass
<1>3. b = Late(a, F)
  BY <1>2 DEF AcceptPass
<1>4. /\ b.image = a.image /\ b.pass = a.pass /\ b.closed = a.closed
      /\ b.mode = a.mode /\ b.geo = a.geo /\ b.last = a.last
      /\ b.front = IF a.mode = "swap" THEN {more(c) : c \in a.front} ELSE a.front
  <2>1. CASE a.mode = "swap"
    <3>1. b = [a EXCEPT !.front = {more(c) : c \in @}]
      BY <1>3, <2>1 DEF Late
    <3> HIDE DEF more
    <3> QED BY <3>1, <2>1 DEF IsAcc
  <2>2. CASE a.mode = "reset"
    BY <1>3, <2>2 DEF Late
  <2> QED BY <2>1, <2>2 DEF KeepsFront
<1>5. \A c \in b.front : \E d \in a.front : c.pass = d.pass /\ c.frames = d.frames \cup G
  <2>1. CASE a.mode = "swap"
    <3>1. \A d \in a.front : more(d).pass = d.pass /\ more(d).frames = d.frames \cup F
      BY DEF IsAcc, IsFront
    <3> HIDE DEF more
    <3> QED BY <2>1, <3>1, <1>4
  <2>2. CASE a.mode # "swap"
    BY <2>2, <1>4
  <2> QED BY <2>1, <2>2
<1> HIDE DEF b, more
<1>6. FedInv(b, base, r, since \cup E)
  <2>1. FedInv(a, base, r, since) /\ b.pass \in Int /\ a.pass <= b.pass /\ k <= b.pass
    BY <1>1, <1>4 DEF PassInv
  <2> QED BY <2>1, <1>1, FedGrows
<1>7. OpenedInv(b, base, r, fed \cup E)
  BY <1>4 DEF PassInv, OpenedInv
<1>8. \A e \in E : Num(base, e) = k
  BY DEF PassOfBatch
<1>9. ImageInv(b, base, since \cup E)
  <2>1. ImageInv(a, base, since) /\ k # a.pass
    BY <1>1 DEF PassInv
  <2> QED BY <2>1, <1>4, <1>8, OnlyGrows DEF ImageInv
<1>10. \A e \in E : Overtaken(e, fed)
  <2>1. PICK d \in fed : /\ d.s \in Nat /\ d.i \in Nat /\ d.s <= r /\ Num(base, d) = a.pass
                         /\ d.s < r => a.pass < base[r]
    BY <1>1 DEF PassInv, OpenedInv
  <2>2. base[r] <= k /\ base[r] \in Nat /\ r \in Nat
    BY DEF PassOfBatch, Bases
  <2>3. d.s = r
    <3>1. ~ (d.s < r)
      BY <1>1, <2>1, <2>2
    <3> QED BY <2>1, <2>2, <3>1
  <2> TAKE e \in E
  <2>4. e.s = r /\ e.i \in Nat /\ Num(base, e) = k
    BY DEF PassOfBatch
  <2>5. Num(base, d) > k
    BY <1>1, <2>1
  <2>6. d.b < e.b
    BY <2>3, <2>5 DEF FedBefore
  <2>7. d.i \div Positions > e.i \div Positions
    <3> DEFINE x == d.i \div Positions
               y == e.i \div Positions
    <3>1. x \in Nat /\ y \in Nat
      BY <2>1, <2>4, PositionsPositive, Quotient
    <3>2. x + base[r] > y + base[r]
      BY <2>3, <2>4, <2>5 DEF Num
    <3> HIDE DEF x, y
    <3>3. x > y
      BY <2>2, <3>1, <3>2
    <3> QED BY <3>3 DEF x, y
  <2>8. Earlier(d, e)
    BY <2>3, <2>4, <2>6 DEF Earlier
  <2>9. NewerPass(Pass(d), Pass(e))
    BY <2>3, <2>4, <2>7 DEF NewerPass, Pass
  <2> QED BY <2>8, <2>9 DEF Overtaken
<1>11. FrontInv(b, base, since \cup E, fed \cup E)
  <2> SUFFICES ASSUME NEW c \in b.front
               PROVE  /\ c.pass \in 0 .. a.pass /\ (c.pass = a.pass <=> a.closed)
                      /\ OnlyOf(c.frames, c.pass, base, since \cup E, a.geo)
                      /\ \A e \in since \cup E : Num(base, e) = c.pass =>
                           Has(c.frames, e) \/ (a.mode = "reset" /\ Overtaken(e, fed \cup E))
    BY <1>4 DEF FrontInv
  <2>1. PICK d \in a.front : c.pass = d.pass /\ c.frames = d.frames \cup G
    BY <1>5
  <2>2. /\ d.pass \in 0 .. a.pass /\ (d.pass = a.pass <=> a.closed)
        /\ OnlyOf(d.frames, d.pass, base, since, a.geo)
        /\ \A e \in since : Num(base, e) = d.pass =>
             Has(d.frames, e) \/ (a.mode = "reset" /\ Overtaken(e, fed))
    BY DEF PassInv, FrontInv
  <2>3. OnlyOf(c.frames, c.pass, base, since \cup E, a.geo)
    <3>1. CASE a.mode = "swap"
      <4>1. d.pass = k /\ G = F
        BY <3>1, <1>a
      <4> QED BY <2>1, <2>2, <4>1, OnlyWith
    <3>2. CASE a.mode # "swap"
      <4>1. c.frames = d.frames
        BY <3>2, <2>1
      <4> QED BY <2>1, <2>2, <4>1, OnlyGrows
    <3> QED BY <3>1, <3>2
  <2>4. ASSUME NEW e \in since \cup E, Num(base, e) = c.pass
        PROVE  Has(c.frames, e) \/ (a.mode = "reset" /\ Overtaken(e, fed \cup E))
    <3>1. CASE e \in since
      <4>1. Has(d.frames, e) \/ (a.mode = "reset" /\ Overtaken(e, fed))
        BY <2>1, <2>2, <2>4, <3>1
      <4>2. Has(d.frames, e) => Has(c.frames, e)
        BY <2>1 DEF Has
      <4> QED BY <4>1, <4>2, OvertakenGrows
    <3>2. CASE e \in E /\ a.mode = "swap"
      <4>1. Has(F, e)
        BY <3>2 DEF PassOfBatch, Same
      <4> QED BY <2>1, <3>2, <4>1 DEF Has
    <3>3. CASE e \in E /\ a.mode = "reset"
      BY <3>3, <1>10, OvertakenGrows
    <3> QED BY <3>1, <3>2, <3>3 DEF KeepsFront
  <2> QED BY <2>1, <2>2, <2>3, <2>4
<1>12. AheadInv(b, base, r, later)
  <2>1. ASSUME NEW c \in b.front PROVE \E d \in a.front : c.pass = d.pass
    BY <1>5
  <2> QED BY <1>4, <2>1 DEF PassInv, AheadInv, Remain
<1>13. b.pass >= 0 => b.last >= 0 /\ b.pass <= b.last \div Positions
  BY <1>4 DEF PassInv
<1> QED BY <1>4, <1>6, <1>7, <1>9, <1>11, <1>12, <1>13 DEF PassInv, b

\* The images of pass k, all of which were awaited.
LEMMA AcceptKeeps ==
  ASSUME NEW a, NEW base, NEW r, NEW since, NEW fed, NEW ahead, NEW k, NEW F, NEW E, NEW later,
         PassStep(a, base, r, since, fed, ahead, k, F, E, later)
  PROVE  LET b == AcceptPass(a, k, F)
         IN /\ PassInv(b, base, r, since \cup E, fed \cup E, later)
            /\ b.pass = IF k > a.pass THEN k ELSE a.pass
<1>1. k \in Nat /\ a.pass \in Int
  BY DEF PassStep, PassOfBatch, IsAcc
<1>2. a.closed => k > a.pass
  BY DEF PassStep, PassInv, AheadInv
<1>3. CASE k > a.pass
  <2>1. LET b == AcceptPass(a, k, F)
        IN PassInv(b, base, r, since \cup E, fed \cup E, later) /\ b.pass = k
    BY <1>3, NewPassKeeps
  <2> QED BY <1>3, <2>1
<1>4. CASE k = a.pass
  <2>1. ~a.closed /\ ~ (k > a.pass)
    BY <1>1, <1>2, <1>4
  <2> QED BY <2>1, <1>4, SamePassKeeps
<1>5. CASE k < a.pass
  <2>1. ~a.closed /\ ~ (k > a.pass)
    BY <1>1, <1>2, <1>5
  <2> QED BY <2>1, <1>5, LatePassKeeps
<1> QED BY <1>1, <1>3, <1>4, <1>5

-----------------------------------------------------------------------------
(* A batch, pass by pass.                                                   *)

Events(r, n, frames) == {[s |-> r, b |-> n, i |-> f.i] : f \in frames}
Upto(frames, k) == {f \in frames : PassOf(f) <= k}

LEMMA EventsSame ==
  ASSUME NEW r, NEW n, NEW frames, \A f \in frames : f.s = r
  PROVE  Same(frames, Events(r, n, frames)) /\ (frames # {} => Events(r, n, frames) # {})
<1> DEFINE E == Events(r, n, frames)
           event(f) == [s |-> r, b |-> n, i |-> f.i]
<1>1. E = {event(f) : f \in frames}
  BY DEF Events
<1>2. \A f \in frames : event(f).s = f.s /\ event(f).i = f.i
  OBVIOUS
<1> HIDE DEF event, E
<1>3. \A f \in frames : Has(E, f)
  <2> TAKE f \in frames
  <2>1. event(f) \in E /\ event(f).s = f.s /\ event(f).i = f.i
    BY <1>1, <1>2
  <2> QED BY <2>1 DEF Has
<1>4. \A e \in E : Has(frames, e)
  <2> TAKE e \in E
  <2>1. PICK f \in frames : e = event(f)
    BY <1>1
  <2> QED BY <1>2, <2>1 DEF Has
<1>5. frames # {} => E # {}
  BY <1>1
<1> QED BY <1>3, <1>4, <1>5 DEF Same, E

\* What is still to come behind pass k of a batch.
Rest(frames, k, behind) == {f.i : f \in frames \ Upto(frames, k)} \cup behind

\* Images behind a batch that are late are so by one pass, which the batch or what was before it is of.
InTime(m, base, r, frames, behind) ==
  \A h \in frames, j \in behind :
    LET n == j \div Positions + base[r]
    IN n < PassOf(h) =>
         /\ PassOf(h) = n + 1
         /\ \/ \E f \in frames : PassOf(f) = n
            \/ (\A f \in frames : PassOf(f) > n) /\ (m.pass = -1 \/ n <= m.pass)

\* What is known of an accumulator m, its cursor moved, that takes the frames of batch n of series r.
BatchStep(m, base, r, since, fed, behind, frames, n) ==
  /\ IsAcc(m) /\ KeepsFront(m) /\ m.done = <<>> /\ m.last >= 0
  /\ base \in Bases /\ r \in Nat /\ n \in Nat /\ behind \subseteq Nat
  /\ PassInv(m, base, r, since, fed, {f.i : f \in frames} \cup behind)
  /\ \A f \in frames : /\ IsFrame(f) /\ f.s = r /\ f.g = m.geo
                       /\ PassOf(f) = Num(base, f) /\ PassOf(f) <= m.last \div Positions
                       /\ Pos(f) = f.i % Positions
  /\ \A d \in fed : d.s = r => d.b < n
  /\ InTime(m, base, r, frames, behind)

\* Behind pass k of the batch, or behind the pass whose file could not be written.
Took(a, k, m, base, r, since, fed, behind, frames, n, disk) ==
  /\ Carried(m, a)
  /\ IF disk \/ a.done = <<>>
     THEN LET done == Events(r, n, Upto(frames, k))
          IN /\ PassInv(a, base, r, since \cup done, fed \cup done, Rest(frames, k, behind))
             /\ \A f \in Upto(frames, k) : PassOf(f) <= a.pass
             /\ Upto(frames, k) = {} => a.pass = m.pass
     ELSE LET done == Events(r, n, Upto(frames, a.pass))
          IN PassInv(a, base, r, since \cup done, fed \cup done, {})

LEMMA AcceptPassDone ==
  ASSUME NEW a, IsAcc(a), NEW k, ~Closes(a, k), NEW frames
  PROVE  AcceptPass(a, k, frames).done = a.done
<1> DEFINE o == OpenPass(a, k)
<1>1. o = a \/ o = [a EXCEPT !.pass = k, !.closed = FALSE]
  BY DEF OpenPass
<1>2. o.done = a.done /\ "done" \in DOMAIN o
  BY <1>1 DEF IsAcc
<1>3. AcceptPass(a, k, frames) = Late(o, frames) \/ AcceptPass(a, k, frames) = Deposit(o, frames)
  BY DEF AcceptPass
<1> HIDE DEF o
<1>4. Deposit(o, frames).done = o.done
  BY <1>2 DEF Deposit, Begun
<1>5. Late(o, frames).done = o.done
  <2>1. CASE o.mode = "swap"
    <3>1. \E x : Late(o, frames) = [o EXCEPT !.front = x]
      BY <2>1 DEF Late
    <3> QED BY <1>2, <3>1
  <2>2. CASE o.mode # "swap"
    BY <1>4, <2>2 DEF Late
  <2> QED BY <2>1, <2>2
<1> QED BY <1>2, <1>3, <1>4, <1>5

\* The frames of the next pass of a batch are what PassStep asks for.
LEMMA PassComes ==
  ASSUME NEW m, NEW base, NEW r, NEW since, NEW fed, NEW behind, NEW frames, NEW n,
         BatchStep(m, base, r, since, fed, behind, frames, n),
         NEW disk, NEW k \in Nat, NEW a, disk \/ a.done = <<>>,
         Took(a, k - 1, m, base, r, since, fed, behind, frames, n, disk),
         InPass(frames, k) # {}
  PROVE  LET done == Events(r, n, Upto(frames, k - 1))
         IN PassStep(a, base, r, since \cup done, fed \cup done, Rest(frames, k - 1, behind), k,
                     InPass(frames, k), Events(r, n, InPass(frames, k)), Rest(frames, k, behind))
<1> DEFINE done == Events(r, n, Upto(frames, k - 1))
           F == InPass(frames, k)
           E == Events(r, n, F)
<1>1. /\ Carried(m, a) /\ IsAcc(a) /\ KeepsFront(a) /\ a.last = m.last /\ a.geo = m.geo
      /\ PassInv(a, base, r, since \cup done, fed \cup done, Rest(frames, k - 1, behind))
      /\ \A f \in Upto(frames, k - 1) : PassOf(f) <= a.pass
      /\ Upto(frames, k - 1) = {} => a.pass = m.pass
  BY DEF Took, Carried, BatchStep, KeepsFront
<1>2. \A f \in frames : /\ IsFrame(f) /\ f.s = r /\ f.g = m.geo /\ f.i \in Nat
                        /\ PassOf(f) = Num(base, f) /\ PassOf(f) \in Nat /\ PassOf(f) <= m.last \div Positions
                        /\ PassOf(f) = f.i \div Positions + base[r] /\ Seated(f, PassOf(f))
  BY PassIsNat DEF BatchStep, IsFrame, Num, Seated
<1>3. \A f \in F : f \in frames /\ PassOf(f) = k
  BY DEF InPass
<1>4. PICK h \in F : TRUE
  OBVIOUS
<1>5. base \in Bases /\ r \in Nat /\ base[r] \in Nat /\ m.last >= 0
  BY DEF BatchStep, Bases
<1>6. PassOfBatch(base, r, k, F, E, a.geo)
  <2>1. E # {} /\ Same(F, E)
    <3>1. \A f \in F : f.s = r
      BY <1>2, <1>3
    <3> QED BY <1>4, <3>1, EventsSame
  <2>2. base[r] <= k
    <3>1. h.i \div Positions \in Nat
      BY <1>2, <1>3, <1>4, PositionsPositive, Quotient
    <3>2. k = h.i \div Positions + base[r]
      BY <1>2, <1>3, <1>4
    <3> QED BY <1>5, <3>1, <3>2
  <2>3. \A f \in F : IsFrame(f) /\ f.s = r /\ Num(base, f) = k /\ f.g = a.geo /\ Seated(f, k)
    BY <1>1, <1>2, <1>3
  <2>4. \A e \in E : e.s = r /\ e.i \in Nat /\ Num(base, e) = k
    <3> TAKE e \in E
    <3>1. PICK f \in F : e = [s |-> r, b |-> n, i |-> f.i]
      BY DEF Events
    <3>2. e.s = r /\ e.i = f.i
      BY <3>1
    <3> QED BY <1>2, <1>3, <2>3, <3>2 DEF Num
  <2> QED BY <1>5, <2>1, <2>2, <2>3, <2>4 DEF PassOfBatch
<1>7. a.last >= 0 /\ k <= a.last \div Positions
  BY <1>1, <1>2, <1>3, <1>4, <1>5
<1>8. \E i \in Rest(frames, k - 1, behind) : i \div Positions + base[r] = k
  <2>1. h \in frames \ Upto(frames, k - 1)
    <3>1. h \in frames /\ PassOf(h) = k /\ ~ (k <= k - 1)
      BY <1>3, <1>4
    <3> QED BY <3>1 DEF Upto
  <2>2. h.i \in Rest(frames, k - 1, behind)
    BY <2>1 DEF Rest
  <2> QED BY <1>2, <1>3, <1>4, <2>2
<1>9. FedBefore(base, r, k, fed \cup done, E)
  <2> SUFFICES ASSUME NEW d \in fed \cup done, NEW e \in E, d.s = r, Num(base, d) > k PROVE d.b < e.b
    BY DEF FedBefore
  <2>1. e.b = n
    BY DEF Events
  <2>2. CASE d \in fed
    BY <2>1, <2>2 DEF BatchStep
  <2>3. CASE d \in done
    <3>1. PICK f \in Upto(frames, k - 1) : d = [s |-> r, b |-> n, i |-> f.i]
      BY <2>3 DEF Events
    <3>2. d.s = r /\ d.i = f.i /\ f \in frames /\ PassOf(f) <= k - 1
      BY <3>1 DEF Upto
    <3>3. Num(base, d) = PassOf(f) /\ PassOf(f) \in Nat
      BY <1>2, <3>2 DEF Num
    <3>4. FALSE
      BY <3>2, <3>3
    <3> QED BY <3>4
  <2> QED BY <2>2, <2>3
<1>10. Remain(a, base, r, k, Rest(frames, k, behind), Rest(frames, k - 1, behind))
  <2>1. \A f \in frames : PassOf(f) <= k - 1 => PassOf(f) <= k
    BY <1>2
  <2>2. Rest(frames, k, behind) \subseteq Rest(frames, k - 1, behind)
    BY <2>1 DEF Rest, Upto
  <2>3. ASSUME k > a.pass, NEW i \in Rest(frames, k, behind), i \div Positions + base[r] < k
        PROVE  a.pass = -1 \/ i \div Positions + base[r] = a.pass
    <3> DEFINE x == i \div Positions + base[r]
    <3>1. i \in behind
      <4>1. SUFFICES ASSUME i \notin behind PROVE FALSE
        OBVIOUS
      <4>2. PICK f \in frames : i = f.i /\ ~ (PassOf(f) <= k)
        BY <4>1 DEF Rest, Upto
      <4>3. PassOf(f) < k /\ PassOf(f) \in Nat
        BY <1>2, <2>3, <4>2
      <4> QED BY <4>2, <4>3
    <3>2. h \in frames /\ PassOf(h) = k
      BY <1>3, <1>4
    <3>3. /\ k = x + 1
          /\ \/ \E f \in frames : PassOf(f) = x
             \/ (\A f \in frames : PassOf(f) > x) /\ (m.pass = -1 \/ x <= m.pass)
      BY <2>3, <3>1, <3>2 DEF BatchStep, InTime
    <3>4. a.pass \in Int /\ m.pass \in Int
      BY <1>1 DEF BatchStep, IsAcc
    <3>7. x \in Int
      <4>1. i \in Nat
        BY <3>1 DEF BatchStep
      <4>2. i \div Positions \in Nat
        BY <4>1, PositionsPositive, Quotient
      <4> QED BY <1>5, <4>2
    <3>5. CASE \E f \in frames : PassOf(f) = x
      <4>1. PICK f \in frames : PassOf(f) = x /\ x \in Nat
        BY <1>2, <3>5
      <4> HIDE DEF x
      <4>2. PassOf(f) <= k - 1
        BY <3>3, <4>1
      <4>3. x <= a.pass
        BY <1>1, <4>1, <4>2 DEF Upto
      <4>4. x = a.pass
        BY <2>3, <3>3, <3>4, <4>1, <4>3
      <4> QED BY <4>4 DEF x
    <3>6. CASE (\A f \in frames : PassOf(f) > x) /\ (m.pass = -1 \/ x <= m.pass)
      <4>1. Upto(frames, k - 1) = {}
        <5> SUFFICES ASSUME NEW f \in frames, PassOf(f) <= k - 1 PROVE FALSE
          BY DEF Upto
        <5>1. PassOf(f) > x /\ PassOf(f) \in Nat
          BY <1>2, <3>6
        <5>2. x \in Int
          BY <3>7
        <5> HIDE DEF x
        <5> QED BY <3>3, <5>1, <5>2
      <4>2. a.pass = m.pass
        BY <1>1, <4>1
      <4>3. PassOf(h) > x /\ k = x + 1 /\ k \in Nat
        BY <3>2, <3>3, <3>6
      <4>4. x \in Int
        BY <3>7
      <4> HIDE DEF x
      <4>5. a.pass = -1 \/ x = a.pass
        BY <2>3, <3>4, <3>6, <4>2, <4>3, <4>4
      <4> QED BY <4>5 DEF x
    <3> QED BY <3>3, <3>5, <3>6
  <2> QED BY <2>2, <2>3 DEF Remain
<1> QED BY <1>1, <1>5, <1>6, <1>7, <1>8, <1>9, <1>10 DEF PassStep

LEMMA EventsUnion ==
  ASSUME NEW r, NEW n, NEW A, NEW B
  PROVE  Events(r, n, A \cup B) = Events(r, n, A) \cup Events(r, n, B)
  BY DEF Events

\* One pass of the batch.
LEMMA TookNext ==
  ASSUME NEW m, NEW base, NEW r, NEW since, NEW fed, NEW behind, NEW frames, NEW n,
         BatchStep(m, base, r, since, fed, behind, frames, n),
         NEW disk, disk \/ m.filed, NEW k \in Nat, NEW a,
         Took(a, k - 1, m, base, r, since, fed, behind, frames, n, disk)
  PROVE  Took(TakePass(a, k, frames, disk), k, m, base, r, since, fed, behind, frames, n, disk)
<1> DEFINE b == TakePass(a, k, frames, disk)
           F == InPass(frames, k)
           done == Events(r, n, Upto(frames, k - 1))
<1>1. /\ Carried(m, a) /\ IsAcc(a) /\ KeepsFront(a) /\ a.filed = m.filed /\ a.pass \in Int
  BY DEF Took, Carried, BatchStep, KeepsFront, IsAcc
<1>2. \A f \in frames : PassOf(f) \in Nat /\ IsFrame(f)
  BY PassIsNat DEF BatchStep
<1>3. CASE ~disk /\ a.done # <<>>
  <2>1. b = a
    BY <1>3 DEF TakePass
  <2> QED BY <1>3, <2>1 DEF Took
<1>4. CASE (disk \/ a.done = <<>>) /\ F = {}
  <2>1. b = a
    BY <1>4 DEF TakePass
  <2>2. Upto(frames, k) = Upto(frames, k - 1)
    <3>1. \A f \in frames : PassOf(f) # k
      BY <1>4 DEF InPass
    <3>2. \A f \in frames : PassOf(f) <= k <=> PassOf(f) <= k - 1
      BY <1>2, <3>1
    <3> QED BY <3>2 DEF Upto
  <2>3. Rest(frames, k, behind) = Rest(frames, k - 1, behind)
    BY <2>2 DEF Rest
  <2> HIDE DEF b
  <2>4. Took(a, k, m, base, r, since, fed, behind, frames, n, disk)
    BY <1>4, <2>2, <2>3 DEF Took
  <2> QED BY <2>1, <2>4 DEF b
<1>5. CASE (disk \/ a.done = <<>>) /\ F # {} /\ ~disk /\ Closes(a, k)
  <2>1. b = ClosePass(a)
    BY <1>5 DEF TakePass
  <2>2. b.done # <<>> /\ b.pass = a.pass /\ Carried(a, b)
    BY <1>1, <1>5, <2>1, ClosePassIs
  <2>3. PassInv(a, base, r, since \cup done, fed \cup done, Rest(frames, k - 1, behind))
        /\ \A f \in Upto(frames, k - 1) : PassOf(f) <= a.pass
    BY <1>5 DEF Took
  <2>4. PassInv(b, base, r, since \cup done, fed \cup done, {})
    BY <1>1, <1>5, <2>1, <2>3, CloseKeeps DEF Closes
  <2>5. Upto(frames, a.pass) = Upto(frames, k - 1)
    <3>1. k > a.pass
      BY <1>5 DEF Closes
    <3>2. \A f \in frames : PassOf(f) <= a.pass => PassOf(f) <= k - 1
      BY <1>1, <1>2, <3>1
    <3> QED BY <2>3, <3>2 DEF Upto
  <2>6. Carried(m, b)
    BY <1>1, <2>2 DEF Carried
  <2> HIDE DEF b
  <2>7. Took(b, k, m, base, r, since, fed, behind, frames, n, disk)
    BY <1>5, <2>2, <2>4, <2>5, <2>6 DEF Took
  <2> QED BY <2>7 DEF b
<1>6. CASE (disk \/ a.done = <<>>) /\ F # {} /\ ~(~disk /\ Closes(a, k))
  <2> DEFINE E == Events(r, n, F)
             all == Events(r, n, Upto(frames, k))
  <2>1. b = AcceptPass(a, k, F)
    BY <1>6 DEF TakePass
  <2>2. PassStep(a, base, r, since \cup done, fed \cup done, Rest(frames, k - 1, behind), k,
                 F, E, Rest(frames, k, behind))
    BY <1>6, PassComes
  <2> HIDE DEF b, E, done
  <2>3. /\ PassInv(b, base, r, (since \cup done) \cup E, (fed \cup done) \cup E, Rest(frames, k, behind))
        /\ b.pass = IF k > a.pass THEN k ELSE a.pass
    <3> DEFINE c == AcceptPass(a, k, F)
               s == since \cup done
               d == fed \cup done
               x == Rest(frames, k - 1, behind)
               y == Rest(frames, k, behind)
    <3>1. PassStep(a, base, r, s, d, x, k, F, E, y)
      BY <2>2
    <3> HIDE DEF s, d, x, y
    <3>2. PassInv(c, base, r, s \cup E, d \cup E, y) /\ c.pass = IF k > a.pass THEN k ELSE a.pass
      BY <3>1, AcceptKeeps
    <3> QED BY <2>1, <3>2 DEF s, d, y
  <2>4. Upto(frames, k) = Upto(frames, k - 1) \cup F
    <3>1. \A f \in frames : PassOf(f) <= k <=> (PassOf(f) <= k - 1 \/ PassOf(f) = k)
      BY <1>2
    <3> QED BY <3>1 DEF Upto, InPass
  <2>5. all = done \cup E
    BY <2>4, EventsUnion DEF done, E
  <2>6. PassInv(b, base, r, since \cup all, fed \cup all, Rest(frames, k, behind))
    <3>1. since \cup all = (since \cup done) \cup E /\ fed \cup all = (fed \cup done) \cup E
      BY <2>5
    <3> QED BY <2>3, <3>1
  <2>7. disk \/ b.done = <<>>
    BY <1>1, <1>6, <2>1, AcceptPassDone
  <2>8. Carried(m, b)
    <3>1. \A f \in F : IsFrame(f)
      BY <1>2 DEF InPass
    <3>2. Carried(a, b)
      BY <1>1, <2>1, <3>1, AcceptPassCarries
    <3> QED BY <1>1, <3>2 DEF Carried
  <2>9. b.pass \in Int /\ b.pass >= k
    BY <1>1, <2>3
  <2>10. \A f \in Upto(frames, k) : PassOf(f) <= b.pass
    BY <1>2, <2>9 DEF Upto
  <2>11. Upto(frames, k) # {}
    BY <1>6, <2>4
  <2> HIDE DEF b, E, all
  <2>12. Took(b, k, m, base, r, since, fed, behind, frames, n, disk)
    BY <2>6, <2>7, <2>8, <2>10, <2>11 DEF Took, all
  <2> QED BY <2>12 DEF b
<1> QED BY <1>3, <1>4, <1>5, <1>6

\* The whole batch.
LEMMA BatchKeeps ==
  ASSUME NEW m, NEW base, NEW r, NEW since, NEW fed, NEW behind, NEW frames, NEW n,
         BatchStep(m, base, r, since, fed, behind, frames, n),
         NEW disk, disk \/ m.filed,
         NEW lo \in Nat, NEW hi \in Nat, lo <= hi, \A f \in frames : PassOf(f) \in lo .. hi
  PROVE  LET w == TakePasses(m, lo, hi, frames, disk)
         IN Took(w, hi, m, base, r, since, fed, behind, frames, n, disk)
<1>1. PICK g : Behind(g, m, lo, hi, frames, disk) /\ TakePasses(m, lo, hi, frames, disk) = g[hi]
  BY PassByPass
<1> DEFINE S == {k \in (lo - 1) .. hi : Took(g[k], k, m, base, r, since, fed, behind, frames, n, disk)}
<1>2. lo - 1 \in S
  <2>1. g[lo - 1] = m
    BY <1>1 DEF Behind
  <2>2. Upto(frames, lo - 1) = {}
    <3>1. \A f \in frames : ~ (PassOf(f) <= lo - 1)
      OBVIOUS
    <3> QED BY <3>1 DEF Upto
  <2>3. Events(r, n, {}) = {}
    BY DEF Events
  <2>4. Rest(frames, lo - 1, behind) = {f.i : f \in frames} \cup behind
    BY <2>2 DEF Rest
  <2>5. m.done = <<>> /\ IsAcc(m) /\ PassInv(m, base, r, since, fed, {f.i : f \in frames} \cup behind)
    BY DEF BatchStep
  <2>6. since \cup {} = since /\ fed \cup {} = fed
    OBVIOUS
  <2>7. Took(m, lo - 1, m, base, r, since, fed, behind, frames, n, disk)
    BY <2>2, <2>3, <2>4, <2>5, <2>6 DEF Took, Carried
  <2> QED BY <2>1, <2>7
<1>3. ASSUME NEW k \in lo .. hi, k - 1 \in S PROVE k \in S
  <2>1. g[k] = TakePass(g[k - 1], k, frames, disk)
    BY <1>1 DEF Behind
  <2>2. k \in Nat /\ k \in (lo - 1) .. hi
    OBVIOUS
  <2>3. Took(g[k - 1], k - 1, m, base, r, since, fed, behind, frames, n, disk)
    BY <1>3
  <2>4. Took(g[k], k, m, base, r, since, fed, behind, frames, n, disk)
    BY <2>1, <2>2, <2>3, TookNext
  <2> QED BY <2>2, <2>4
<1> HIDE DEF S
<1>4. hi \in S
  BY <1>2, <1>3, Climb
<1> QED BY <1>1, <1>4 DEF S

-----------------------------------------------------------------------------
(* The same for "all" and "latest", where a pass changes no image.           *)

Deposited(a, frames) == Held(a, frames) \cup frames

\* In "latest" the frames of a batch are of different positions.
Apart(a, frames) == a.mode = "latest" => \A f, g \in frames : Pos(f) = Pos(g) => f = g

LEMMA CloseOther ==
  ASSUME NEW a, IsAcc(a), ~KeepsFront(a)
  PROVE  LET b == ClosePass(a)
         IN /\ Carried(a, b) /\ b.pass = a.pass /\ b.image = a.image /\ b.front = a.front
            /\ a.filed /\ a.done = <<>> => b.done # <<>>
<1> DEFINE x == [pass |-> a.pass, frames |-> Completed(a)]
<1>1. ClosePass(a) = [a EXCEPT !.closed = TRUE, !.done = IF a.filed THEN Append(@, x) ELSE @]
  BY DEF ClosePass
<1>2. Append(<<>>, x) # <<>>
  OBVIOUS
<1> HIDE DEF x
<1>3. LET b == ClosePass(a)
      IN /\ b.pass = a.pass /\ b.image = a.image /\ b.front = a.front
         /\ b.done = IF a.filed THEN Append(a.done, x) ELSE a.done
  BY <1>1 DEF IsAcc
<1> QED BY <1>2, <1>3, ClosePassCarries

LEMMA OpenOther ==
  ASSUME NEW a, IsAcc(a), ~KeepsFront(a), NEW k \in Nat
  PROVE  LET b == OpenPass(a, k)
         IN /\ Carried(a, b) /\ b.image = a.image /\ b.front = a.front
            /\ b.pass = IF k > a.pass THEN k ELSE a.pass
<1>1. CASE k <= a.pass
  <2>1. ~ (k > a.pass)
    BY <1>1 DEF IsAcc
  <2> QED BY <1>1, <2>1 DEF OpenPass, Carried
<1>2. CASE ~ (k <= a.pass)
  <2> DEFINE o == IF Closes(a, k) THEN ClosePass(a) ELSE a
  <2>1. k > a.pass
    BY <1>2 DEF IsAcc
  <2>2. OpenPass(a, k) = [o EXCEPT !.pass = k, !.closed = FALSE]
    BY <1>2 DEF OpenPass
  <2>3. Carried(a, o) /\ o.image = a.image /\ o.front = a.front
    BY CloseOther DEF Carried
  <2> HIDE DEF o
  <2>4. LET b == OpenPass(a, k) IN b.image = a.image /\ b.front = a.front /\ b.pass = k
    BY <2>2, <2>3 DEF Carried, IsAcc
  <2> QED BY <2>1, <2>4, OpenPassCarries
<1> QED BY <1>1, <1>2

LEMMA AcceptOther ==
  ASSUME NEW a, IsAcc(a), ~KeepsFront(a), NEW k \in Nat, NEW frames
  PROVE  LET b == AcceptPass(a, k, frames)
         IN /\ b.image = Deposited(a, frames) /\ b.front = a.front
            /\ b.pass = IF k > a.pass THEN k ELSE a.pass
<1> DEFINE o == OpenPass(a, k)
<1>1. /\ IsAcc(o) /\ o.mode = a.mode /\ o.image = a.image /\ o.front = a.front
      /\ o.pass = IF k > a.pass THEN k ELSE a.pass
  BY OpenOther DEF Carried
<1>2. AcceptPass(a, k, frames) = Deposit(o, frames)
  BY <1>1 DEF AcceptPass, Late, KeepsFront
<1> HIDE DEF o
<1>3. Held(o, frames) = Held(a, frames)
  BY <1>1 DEF Held
<1> QED BY <1>1, <1>2, <1>3, DepositIs DEF Deposited

\* One set of frames after another is the same as both at once.
LEMMA DepositedTwice ==
  ASSUME NEW m, NEW a, NEW A, NEW B, Apart(m, A \cup B), A \cap B = {},
         a.mode = m.mode, a.image = Deposited(m, A)
  PROVE  Deposited(a, B) = Deposited(m, A \cup B)
<1>1. CASE m.mode = "latest"
  <2>1. \A f \in A, g \in B : Pos(f) # Pos(g)
    BY <1>1 DEF Apart
  <2> QED BY <1>1, <2>1 DEF Deposited, Held
<1>2. CASE m.mode # "latest"
  BY <1>2 DEF Deposited, Held
<1> QED BY <1>1, <1>2

\* Behind pass k of the batch, or behind the pass whose file could not be written.
Laid(a, k, m, frames, disk) ==
  /\ Carried(m, a) /\ a.front = m.front
  /\ IF disk \/ a.done = <<>>
     THEN /\ a.image = Deposited(m, Upto(frames, k))
          /\ \A f \in Upto(frames, k) : PassOf(f) <= a.pass
     ELSE a.image = Deposited(m, Upto(frames, a.pass))

LEMMA LaidNext ==
  ASSUME NEW m, ~KeepsFront(m), NEW frames, \A f \in frames : IsFrame(f), Apart(m, frames),
         NEW disk, disk \/ m.filed, NEW k \in Nat, NEW a, Laid(a, k - 1, m, frames, disk)
  PROVE  Laid(TakePass(a, k, frames, disk), k, m, frames, disk)
<1> DEFINE b == TakePass(a, k, frames, disk)
           F == InPass(frames, k)
<1>1. /\ Carried(m, a) /\ IsAcc(a) /\ ~KeepsFront(a) /\ a.filed = m.filed /\ a.mode = m.mode
      /\ a.pass \in Int /\ a.front = m.front
  BY DEF Laid, Carried, KeepsFront, IsAcc
<1>2. \A f \in frames : PassOf(f) \in Nat
  BY PassIsNat
<1>3. CASE ~disk /\ a.done # <<>>
  <2>1. b = a
    BY <1>3 DEF TakePass
  <2> QED BY <1>3, <2>1 DEF Laid
<1>4. CASE (disk \/ a.done = <<>>) /\ F = {}
  <2>1. b = a
    BY <1>4 DEF TakePass
  <2>2. Upto(frames, k) = Upto(frames, k - 1)
    <3>1. \A f \in frames : PassOf(f) # k
      BY <1>4 DEF InPass
    <3>2. \A f \in frames : PassOf(f) <= k <=> PassOf(f) <= k - 1
      BY <1>2, <3>1
    <3> QED BY <3>2 DEF Upto
  <2> HIDE DEF b
  <2>3. Laid(a, k, m, frames, disk)
    BY <1>4, <2>2 DEF Laid
  <2> QED BY <2>1, <2>3 DEF b
<1>5. CASE (disk \/ a.done = <<>>) /\ F # {} /\ ~disk /\ Closes(a, k)
  <2>1. b = ClosePass(a)
    BY <1>5 DEF TakePass
  <2>2. b.done # <<>> /\ b.pass = a.pass /\ Carried(a, b) /\ b.image = a.image /\ b.front = a.front
    BY <1>1, <1>5, <2>1, CloseOther
  <2>3. a.image = Deposited(m, Upto(frames, k - 1)) /\ \A f \in Upto(frames, k - 1) : PassOf(f) <= a.pass
    BY <1>5 DEF Laid
  <2>4. Upto(frames, a.pass) = Upto(frames, k - 1)
    <3>1. k > a.pass
      BY <1>5 DEF Closes
    <3>2. \A f \in frames : PassOf(f) <= a.pass => PassOf(f) <= k - 1
      BY <1>1, <1>2, <3>1
    <3> QED BY <2>3, <3>2 DEF Upto
  <2>5. Carried(m, b)
    BY <1>1, <2>2 DEF Carried
  <2> HIDE DEF b
  <2>6. Laid(b, k, m, frames, disk)
    BY <1>1, <1>5, <2>2, <2>3, <2>4, <2>5 DEF Laid
  <2> QED BY <2>6 DEF b
<1>6. CASE (disk \/ a.done = <<>>) /\ F # {} /\ ~(~disk /\ Closes(a, k))
  <2>1. b = AcceptPass(a, k, F)
    BY <1>6 DEF TakePass
  <2>2. b.image = Deposited(a, F) /\ b.front = a.front /\ b.pass = IF k > a.pass THEN k ELSE a.pass
    BY <1>1, <2>1, AcceptOther
  <2>3. Upto(frames, k) = Upto(frames, k - 1) \cup F /\ Upto(frames, k - 1) \cap F = {}
    <3>1. \A f \in frames : PassOf(f) <= k <=> (PassOf(f) <= k - 1 \/ PassOf(f) = k)
      BY <1>2
    <3>2. \A f \in frames : ~ (PassOf(f) <= k - 1 /\ PassOf(f) = k)
      OBVIOUS
    <3> QED BY <3>1, <3>2 DEF Upto, InPass
  <2>4. Deposited(a, F) = Deposited(m, Upto(frames, k))
    <3>1. Apart(m, Upto(frames, k))
      BY DEF Apart, Upto
    <3>2. a.image = Deposited(m, Upto(frames, k - 1))
      BY <1>6 DEF Laid
    <3> HIDE DEF F
    <3> QED BY <1>1, <2>3, <3>1, <3>2, DepositedTwice
  <2>5. disk \/ b.done = <<>>
    BY <1>1, <1>6, <2>1, AcceptPassDone
  <2>6. Carried(m, b)
    <3>1. \A f \in F : IsFrame(f)
      BY DEF InPass
    <3>2. Carried(a, b)
      BY <1>1, <2>1, <3>1, AcceptPassCarries
    <3> QED BY <1>1, <3>2 DEF Carried
  <2>7. b.pass \in Int /\ b.pass >= k
    BY <1>1, <2>2
  <2>8. \A f \in Upto(frames, k) : PassOf(f) <= b.pass
    BY <1>2, <2>7 DEF Upto
  <2> HIDE DEF b
  <2>9. Laid(b, k, m, frames, disk)
    BY <1>1, <2>2, <2>4, <2>5, <2>6, <2>8 DEF Laid
  <2> QED BY <2>9 DEF b
<1> QED BY <1>3, <1>4, <1>5, <1>6

LEMMA BatchLaid ==
  ASSUME NEW m, IsAcc(m), ~KeepsFront(m), m.done = <<>>,
         NEW frames, \A f \in frames : IsFrame(f), Apart(m, frames),
         NEW disk, disk \/ m.filed,
         NEW lo \in Nat, NEW hi \in Nat, lo <= hi, \A f \in frames : PassOf(f) \in lo .. hi
  PROVE  Laid(TakePasses(m, lo, hi, frames, disk), hi, m, frames, disk)
<1>1. PICK g : Behind(g, m, lo, hi, frames, disk) /\ TakePasses(m, lo, hi, frames, disk) = g[hi]
  BY PassByPass
<1> DEFINE S == {k \in (lo - 1) .. hi : Laid(g[k], k, m, frames, disk)}
<1>2. lo - 1 \in S
  <2>1. g[lo - 1] = m
    BY <1>1 DEF Behind
  <2>2. Upto(frames, lo - 1) = {}
    <3>1. \A f \in frames : ~ (PassOf(f) <= lo - 1)
      OBVIOUS
    <3> QED BY <3>1 DEF Upto
  <2>3. Deposited(m, {}) = m.image
    BY DEF Deposited, Held
  <2>4. Laid(m, lo - 1, m, frames, disk)
    BY <2>2, <2>3 DEF Laid, Carried
  <2> QED BY <2>1, <2>4
<1>3. ASSUME NEW k \in lo .. hi, k - 1 \in S PROVE k \in S
  <2>1. g[k] = TakePass(g[k - 1], k, frames, disk)
    BY <1>1 DEF Behind
  <2>2. k \in Nat /\ k \in (lo - 1) .. hi
    OBVIOUS
  <2>3. Laid(g[k - 1], k - 1, m, frames, disk)
    BY <1>3
  <2>4. Laid(g[k], k, m, frames, disk)
    BY <2>1, <2>2, <2>3, LaidNext
  <2> QED BY <2>2, <2>4
<1> HIDE DEF S
<1>4. hi \in S
  BY <1>2, <1>3, Climb
<1> QED BY <1>1, <1>4 DEF S

-----------------------------------------------------------------------------
(* What a whole call does: process, end_series.                             *)

LEMMA DivMonotone ==
  ASSUME NEW m \in Nat, NEW n \in Nat, m <= n
  PROVE  m \div Positions <= n \div Positions
<1> DEFINE P == Positions
           q == m \div P
           p == n \div P
<1>1. P \in Nat /\ P > 0
  BY PositionsPositive
<1> HIDE DEF P
<1>2. q \in Nat /\ m % P \in 0 .. (P - 1) /\ m = P * q + (m % P)
  BY <1>1, Quotient
<1>3. p \in Nat /\ n % P \in 0 .. (P - 1) /\ n = P * p + (n % P)
  BY <1>1, Quotient
<1> HIDE DEF q, p
<1>4. ASSUME p < q PROVE FALSE
  <2>1. p + 1 <= q
    BY <1>2, <1>3, <1>4
  <2>2. P * (p + 1) <= P * q
    BY <1>1, <1>2, <1>3, <2>1
  <2>3. P * (p + 1) = P * p + P /\ P * p \in Int /\ P * q \in Int
    BY <1>1, <1>2, <1>3
  <2> DEFINE u == P * p
             v == P * q
             x == m % P
             y == n % P
  <2>4. /\ u + P <= v /\ u \in Int /\ v \in Int /\ m = v + x /\ n = u + y
        /\ x \in 0 .. (P - 1) /\ y \in 0 .. (P - 1)
    BY <1>2, <1>3, <2>2, <2>3
  <2> HIDE DEF u, v, x, y
  <2> QED BY <1>1, <2>4
<1>5. q <= p
  BY <1>2, <1>3, <1>4
<1> QED BY <1>5 DEF q, p, P

\* Without files to write, no pass is reported.
LEMMA TakePassUnfiled ==
  ASSUME NEW a, IsAcc(a), KeepsFront(a), ~a.filed, a.done = <<>>, NEW k, NEW frames, NEW disk
  PROVE  TakePass(a, k, frames, disk).done = <<>>
<1>1. ClosePass(a).done = <<>> /\ "done" \in DOMAIN ClosePass(a) /\ IsAcc(ClosePass(a))
  BY ClosePassIs DEF Carried, IsAcc
<1> DEFINE o == OpenPass(a, k)
<1>2. o.done = <<>> /\ "done" \in DOMAIN o
  BY <1>1 DEF OpenPass, IsAcc
<1>3. ASSUME NEW F PROVE AcceptPass(a, k, F).done = <<>>
  <2>1. AcceptPass(a, k, F) = Late(o, F) \/ AcceptPass(a, k, F) = Deposit(o, F)
    BY DEF AcceptPass
  <2> HIDE DEF o
  <2>2. Deposit(o, F).done = o.done
    BY <1>2 DEF Deposit, Begun
  <2>3. Late(o, F).done = o.done
    <3>1. CASE o.mode = "swap"
      <4>1. \E x : Late(o, F) = [o EXCEPT !.front = x]
        BY <3>1 DEF Late
      <4> QED BY <1>2, <4>1
    <3>2. CASE o.mode # "swap"
      BY <2>2, <3>2 DEF Late
    <3> QED BY <3>1, <3>2
  <2> QED BY <1>2, <2>1, <2>2, <2>3
<1> QED BY <1>1, <1>3 DEF TakePass

LEMMA TakePassesUnfiled ==
  ASSUME NEW m, IsAcc(m), KeepsFront(m), ~m.filed, m.done = <<>>,
         NEW frames, \A f \in frames : IsFrame(f), NEW disk,
         NEW lo \in Nat, NEW hi \in Nat, lo <= hi
  PROVE  TakePasses(m, lo, hi, frames, disk).done = <<>>
<1>1. PICK g : Behind(g, m, lo, hi, frames, disk) /\ TakePasses(m, lo, hi, frames, disk) = g[hi]
  BY PassByPass
<1> DEFINE S == {k \in (lo - 1) .. hi : Carried(m, g[k]) /\ g[k].done = <<>>}
<1>2. lo - 1 \in S
  BY <1>1 DEF Behind, Carried
<1>3. ASSUME NEW k \in lo .. hi, k - 1 \in S PROVE k \in S
  <2>1. g[k] = TakePass(g[k - 1], k, frames, disk)
    BY <1>1 DEF Behind
  <2>2. k \in Nat /\ k \in (lo - 1) .. hi
    OBVIOUS
  <2>3. Carried(m, g[k - 1]) /\ g[k - 1].done = <<>>
    BY <1>3
  <2>4. IsAcc(g[k - 1]) /\ KeepsFront(g[k - 1]) /\ ~g[k - 1].filed
    BY <2>3 DEF Carried, KeepsFront
  <2>5. g[k].done = <<>>
    BY <2>1, <2>3, <2>4, TakePassUnfiled
  <2>6. Carried(g[k - 1], g[k])
    BY <2>1, <2>2, <2>4, TakePassCarries
  <2>7. Carried(m, g[k])
    BY <2>3, <2>6 DEF Carried
  <2> QED BY <2>2, <2>5, <2>7
<1> HIDE DEF S
<1>4. hi \in S
  BY <1>2, <1>3, Climb
<1> QED BY <1>1, <1>4 DEF S

\* The accumulator when the cursor has moved.
MovedFor(a, kind, frames) ==
  [Moved(a, frames) EXCEPT !.kind = IF a.mode = "latest" /\ @ = "none" THEN kind ELSE @]

LEMMA MovedForIs ==
  ASSUME NEW a, IsAcc(a), NEW kind,
         NEW frames, frames # {}, IsFiniteSet(frames), \A f \in frames : IsFrame(f)
  PROVE  LET m == MovedFor(a, kind, frames)
         IN /\ IsAcc(m) /\ m.mode = a.mode /\ m.geo = a.geo /\ m.wrap = a.wrap /\ m.filed = a.filed
            /\ m.offset = a.offset /\ m.done = a.done /\ m.image = a.image /\ m.front = a.front
            /\ m.pass = a.pass /\ m.closed = a.closed
            /\ m.last \in Nat /\ a.last <= m.last /\ \A f \in frames : f.a <= m.last
<1> DEFINE v == Moved(a, frames)
           m == MovedFor(a, kind, frames)
<1>1. /\ Fed(a, v) /\ (\A f \in frames : f.a <= v.last) /\ a.last <= v.last
      /\ \E x : v = [a EXCEPT !.last = x]
  BY MovedIs
<1>2. /\ IsAcc(v) /\ v.mode = a.mode /\ v.geo = a.geo /\ v.wrap = a.wrap /\ v.filed = a.filed
      /\ v.offset = a.offset /\ v.done = a.done /\ v.image = a.image /\ v.front = a.front
      /\ v.pass = a.pass /\ v.closed = a.closed
  BY <1>1 DEF Fed, IsAcc
<1>3. \E x : m = [v EXCEPT !.kind = x]
  BY DEF MovedFor
<1>4. v.last \in Nat
  <2>1. PICK f \in frames : TRUE
    OBVIOUS
  <2>2. f.a \in Nat /\ f.a <= v.last /\ v.last \in Int
    BY <1>1, <1>2, <2>1 DEF IsFrame, IsAcc
  <2> QED BY <2>2
<1> HIDE DEF v, m
<1>5. IsAcc(m)
  BY <1>2, <1>3 DEF IsAcc
<1>6. /\ m.mode = v.mode /\ m.geo = v.geo /\ m.wrap = v.wrap /\ m.filed = v.filed
      /\ m.offset = v.offset /\ m.done = v.done /\ m.image = v.image /\ m.front = v.front
      /\ m.pass = v.pass /\ m.closed = v.closed /\ m.last = v.last
  BY <1>2, <1>3 DEF IsAcc
<1> QED BY <1>1, <1>2, <1>4, <1>5, <1>6 DEF m

LEMMA ProcessIs ==
  ASSUME NEW a, NEW kind, NEW frames, NEW disk
  PROVE  Process(a, kind, frames, disk)
           = IF Tracks(a)
             THEN TakePasses(MovedFor(a, kind, frames), FirstPass(frames), FinalPass(frames), frames, disk)
             ELSE Deposit(MovedFor(a, kind, frames), frames)
  BY DEF Process, MovedFor

\* What is known of an accumulator a that is given the frames of batch n of series r.
FeedStep(a, base, r, since, fed, behind, frames, n) ==
  /\ IsAcc(a) /\ KeepsFront(a) /\ a.done = <<>>
  /\ base \in Bases /\ r \in Nat /\ n \in Nat /\ behind \subseteq Nat
  /\ frames # {} /\ IsFiniteSet(frames)
  /\ PassInv(a, base, r, since, fed, {f.i : f \in frames} \cup behind)
  /\ \A f \in frames : IsFrame(f) /\ f.s = r /\ f.g = a.geo /\ PassOf(f) = Num(base, f) /\ Pos(f) = f.i % Positions
  /\ \A d \in fed : d.s = r => d.b < n
  /\ InTime(a, base, r, frames, behind)

\* "reset" and "swap".
LEMMA ProcessKeeps ==
  ASSUME NEW a, NEW base, NEW r, NEW since, NEW fed, NEW behind, NEW frames, NEW n,
         FeedStep(a, base, r, since, fed, behind, frames, n), NEW kind, NEW disk
  PROVE  LET w == Process(a, kind, frames, disk)
             all == Events(r, n, frames)
             part == Events(r, n, Upto(frames, w.pass))
         IN IF disk \/ w.done = <<>>
            THEN disk => /\ PassInv(w, base, r, since \cup all, fed \cup all, behind)
                         /\ \A f \in frames : PassOf(f) <= w.pass
            ELSE PassInv(w, base, r, since \cup part, fed \cup part, {})
<1> DEFINE m == MovedFor(a, kind, frames)
           w == Process(a, kind, frames, disk)
           lo == FirstPass(frames)
           hi == FinalPass(frames)
           all == Events(r, n, frames)
           part == Events(r, n, Upto(frames, w.pass))
<1>1. /\ IsAcc(a) /\ KeepsFront(a) /\ a.done = <<>> /\ frames # {} /\ IsFiniteSet(frames)
      /\ PassInv(a, base, r, since, fed, {f.i : f \in frames} \cup behind)
      /\ \A f \in frames : IsFrame(f) /\ f.s = r /\ f.g = a.geo /\ PassOf(f) = Num(base, f) /\ Pos(f) = f.i % Positions
  BY DEF FeedStep
<1>2. /\ IsAcc(m) /\ m.mode = a.mode /\ m.geo = a.geo /\ m.filed = a.filed
      /\ m.done = a.done /\ m.image = a.image /\ m.front = a.front
      /\ m.pass = a.pass /\ m.closed = a.closed
      /\ m.last \in Nat /\ a.last <= m.last /\ \A f \in frames : f.a <= m.last
  BY <1>1, MovedForIs
<1>3. w = TakePasses(m, lo, hi, frames, disk)
  BY <1>1, ProcessIs DEF Tracks
<1>4. lo \in Nat /\ hi \in Nat /\ lo <= hi /\ \A f \in frames : PassOf(f) \in lo .. hi
  BY <1>1, PassRange
<1> HIDE DEF m, lo, hi
<1>5. PassInv(m, base, r, since, fed, {f.i : f \in frames} \cup behind)
  <2>1. ASSUME a.pass >= 0 PROVE m.last >= 0 /\ a.pass <= m.last \div Positions
    <3>1. a.last \in Nat /\ a.pass <= a.last \div Positions /\ a.pass \in Int
      BY <1>1, <2>1 DEF PassInv, IsAcc
    <3>2. a.last \div Positions <= m.last \div Positions
      BY <1>2, <3>1, DivMonotone
    <3>3. a.last \div Positions \in Nat /\ m.last \div Positions \in Nat
      BY <1>2, <3>1, PositionsPositive, Quotient
    <3> DEFINE x == a.last \div Positions
               y == m.last \div Positions
    <3>4. x \in Nat /\ y \in Nat /\ x <= y /\ a.pass <= x
      BY <3>1, <3>2, <3>3
    <3> HIDE DEF x, y
    <3>5. a.pass <= y
      BY <3>1, <3>4
    <3> QED BY <1>2, <3>5 DEF y
  <2> DEFINE ahead == {f.i : f \in frames} \cup behind
  <2>2. PassInv(a, base, r, since, fed, ahead) /\ ahead \subseteq ahead
    BY <1>1
  <2> HIDE DEF ahead
  <2>3. PassInv(m, base, r, since, fed, ahead)
    BY <1>2, <2>1, <2>2, PassFrame
  <2> QED BY <2>3 DEF ahead
<1>6. BatchStep(m, base, r, since, fed, behind, frames, n)
  <2>1. \A f \in frames : PassOf(f) <= m.last \div Positions
    <3> TAKE f \in frames
    <3>1. f.a \in Nat /\ f.a <= m.last
      BY <1>1, <1>2 DEF IsFrame
    <3> QED BY <1>2, <3>1, DivMonotone DEF PassOf
  <2>2. InTime(m, base, r, frames, behind)
    BY <1>2 DEF FeedStep, InTime
  <2>3. KeepsFront(m) /\ m.last >= 0 /\ m.done = <<>>
    BY <1>1, <1>2 DEF KeepsFront
  <2>4. /\ base \in Bases /\ r \in Nat /\ n \in Nat /\ behind \subseteq Nat
        /\ \A d \in fed : d.s = r => d.b < n
    BY DEF FeedStep
  <2> QED BY <1>1, <1>2, <1>5, <2>1, <2>2, <2>3, <2>4 DEF BatchStep
<1>7. CASE disk \/ m.filed
  <2>1. Took(w, hi, m, base, r, since, fed, behind, frames, n, disk)
    BY <1>3, <1>4, <1>6, <1>7, BatchKeeps
  <2>2. Upto(frames, hi) = frames
    BY <1>4 DEF Upto
  <2>3. Rest(frames, hi, behind) = behind
    BY <2>2 DEF Rest
  <2> HIDE DEF w
  <2> QED BY <2>1, <2>2, <2>3 DEF Took, w
<1>8. CASE ~disk /\ ~m.filed
  <2>1. KeepsFront(m) /\ m.done = <<>>
    BY <1>1, <1>2 DEF KeepsFront
  <2>2. w.done = <<>>
    BY <1>1, <1>2, <1>3, <1>4, <1>8, <2>1, TakePassesUnfiled
  <2> QED BY <1>8, <2>2
<1> QED BY <1>7, <1>8

\* "all" and "latest".
LEMMA ProcessLays ==
  ASSUME NEW a, IsAcc(a), ~KeepsFront(a), a.done = <<>>, NEW kind, NEW disk,
         NEW frames, frames # {}, IsFiniteSet(frames), \A f \in frames : IsFrame(f), Apart(a, frames),
         disk \/ Tracks(a)
  PROVE  LET w == Process(a, kind, frames, disk)
         IN /\ w.front = a.front /\ Fed(a, w)
            /\ disk => w.image = Deposited(a, frames)
            /\ ~disk /\ w.done # <<>> => w.image = Deposited(a, Upto(frames, w.pass))
<1> DEFINE m == MovedFor(a, kind, frames)
           w == Process(a, kind, frames, disk)
           lo == FirstPass(frames)
           hi == FinalPass(frames)
<1>1. /\ IsAcc(m) /\ m.mode = a.mode /\ m.filed = a.filed
      /\ m.done = a.done /\ m.image = a.image /\ m.front = a.front
  BY MovedForIs
<1>2. lo \in Nat /\ hi \in Nat /\ lo <= hi /\ \A f \in frames : PassOf(f) \in lo .. hi
  BY PassRange
<1>3. w = IF Tracks(a) THEN TakePasses(m, lo, hi, frames, disk) ELSE Deposit(m, frames)
  BY ProcessIs
<1>4. Fed(a, w)
  BY ProcessFeeds
<1> HIDE DEF m, lo, hi, w
<1>5. ~KeepsFront(m) /\ m.done = <<>> /\ Apart(m, frames) /\ \A S : Deposited(m, S) = Deposited(a, S)
  BY <1>1 DEF KeepsFront, Apart, Deposited, Held
<1>6. CASE Tracks(a)
  <2>1. disk \/ m.filed
    BY <1>1, <1>6 DEF Tracks
  <2>2. w = TakePasses(m, lo, hi, frames, disk)
    BY <1>3, <1>6
  <2>3. Laid(w, hi, m, frames, disk)
    BY <1>1, <1>2, <1>5, <2>1, <2>2, BatchLaid
  <2>4. Upto(frames, hi) = frames
    BY <1>2 DEF Upto
  <2> QED BY <1>1, <1>4, <1>5, <2>3, <2>4 DEF Laid, w
<1>7. CASE ~Tracks(a)
  <2>1. w = Deposit(m, frames) /\ disk
    BY <1>3, <1>7
  <2>2. w.image = Deposited(m, frames) /\ w.front = m.front
    BY <1>1, <2>1, DepositIs DEF Deposited
  <2> QED BY <1>1, <1>4, <1>5, <2>1, <2>2 DEF w
<1> QED BY <1>6, <1>7

\* The end of a series.
LEMMA EndKeeps ==
  ASSUME NEW a, IsAcc(a), KeepsFront(a), NEW base, NEW r, NEW since, NEW fed, NEW ahead,
         PassInv(a, base, r, since, fed, ahead)
  PROVE  PassInv(EndSeries(a), base, r, since, fed, {})
<1>1. PassInv(a, base, r, since, fed, {})
  <2>1. {} \subseteq ahead /\ (a.pass >= 0 => a.last >= 0 /\ a.pass <= a.last \div Positions)
    BY DEF PassInv
  <2> QED BY <2>1, PassFrame
<1>2. a.pass >= 0 /\ ~a.closed => PassInv(ClosePass(a), base, r, since, fed, {})
  BY CloseKeeps
<1> QED BY <1>1, <1>2 DEF EndSeries

LEMMA EndOther ==
  ASSUME NEW a, IsAcc(a), ~KeepsFront(a)
  PROVE  EndSeries(a).image = a.image /\ EndSeries(a).front = a.front
  BY CloseOther DEF EndSeries

LEMMA SettledIs ==
  ASSUME NEW a, IsAcc(a)
  PROVE  LET b == Settled(a)
         IN /\ b.image = a.image /\ b.front = a.front /\ b.pass = a.pass /\ b.closed = a.closed
            /\ b.mode = a.mode /\ b.geo = a.geo /\ b.last = a.last /\ b.wrap = a.wrap
            /\ b.offset = a.offset
  BY DEF Settled, IsAcc

LEMMA SettledKeeps ==
  ASSUME NEW a, IsAcc(a), NEW base, NEW r, NEW since, NEW fed, NEW ahead,
         PassInv(a, base, r, since, fed, ahead)
  PROVE  PassInv(Settled(a), base, r, since, fed, ahead)
<1>1. ahead \subseteq ahead /\ (a.pass >= 0 => a.last >= 0 /\ a.pass <= a.last \div Positions)
  BY DEF PassInv
<1>2. LET b == Settled(a)
      IN /\ b.image = a.image /\ b.front = a.front /\ b.pass = a.pass /\ b.closed = a.closed
         /\ b.mode = a.mode /\ b.geo = a.geo /\ b.last = a.last
  BY SettledIs
<1> HIDE DEF PassInv
<1> QED BY <1>1, <1>2, PassFrame

-----------------------------------------------------------------------------
(* The invariant.                                                           *)

\* The newest of each position.
Unreplaced(since) ==
  {e \in since : ~ \E d \in since : d.i % Positions = e.i % Positions /\ Earlier(e, d)}

\* "all" and "latest": what the image holds.
HeldInv(a, since) ==
  ~KeepsFront(a) =>
    /\ a.front = {} /\ \A f \in a.image : f.g = a.geo /\ Pos(f) = f.i % Positions
    /\ a.mode = "all" => Same(a.image, since)
    /\ a.mode = "latest" => Same(a.image, Unreplaced(since))

\* "reset" and "swap", with the images still to come and those of the batch before.
PassesInv(a, r, since, fed, ahead, recent) ==
  KeepsFront(a) =>
    \E base \in Bases :
      /\ base[r] = a.offset \div Positions /\ PassInv(a, base, r, since, fed, ahead)
      /\ a.pass = -1 \/ \A i \in recent : i \div Positions + base[r] <= a.pass

\* While the series goes on: the images behind batch n, and those of the last batch.
Feeding == active /\ main \in {"run", "preview", "tuning"}
BatchesBehind(n) == UNION {series.batches[q] : q \in {p \in DOMAIN series.batches : p > n}}
Ahead == IF Feeding THEN BatchesBehind(at) ELSE {}
Recent == IF Feeding /\ at > 0 THEN series.batches[at] ELSE {}

LogInv ==
  \A d \in log : /\ d.s \in Nat /\ d.b \in Nat /\ d.i \in Nat /\ d.s <= rounds
                 /\ Feeding /\ d.s = rounds => d.b <= at

ImageInvariant ==
  /\ began \subseteq log /\ LogInv /\ (~acc.wrap => acc.mode = "all")
  /\ HeldInv(acc, Since) /\ PassesInv(acc, rounds, Since, log, Ahead, Recent)

\* The frames of a batch, put to the image.
LEMMA HeldGrows ==
  ASSUME NEW a, ~KeepsFront(a), NEW since, HeldInv(a, since), NEW frames, NEW r \in Nat, NEW n \in Nat,
         \A f \in frames : f.s = r /\ f.g = a.geo /\ Pos(f) = f.i % Positions,
         \A d \in since : /\ d.s \in Nat /\ d.b \in Nat /\ d.i \in Nat /\ d.s <= r
                          /\ d.s = r => d.b < n,
         \A f \in frames : f.i \in Nat,
         Apart(a, frames),
         NEW b, b.mode = a.mode, b.geo = a.geo, b.front = a.front, b.image = Deposited(a, frames)
  PROVE  HeldInv(b, since \cup Events(r, n, frames))
<1> DEFINE E == Events(r, n, frames)
<1>1. Same(frames, E)
  BY EventsSame
<1>2. \A e \in E : e.s = r /\ e.b = n /\ e.i \in Nat /\ \E f \in frames : e.i = f.i
  BY DEF Events
<1> HIDE DEF E
<1>3. b.front = {} /\ \A f \in b.image : f.g = b.geo /\ Pos(f) = f.i % Positions
  BY DEF HeldInv, Deposited, Held
<1>4. CASE a.mode = "all"
  <2>1. b.image = a.image \cup frames /\ Same(a.image, since)
    BY <1>4 DEF Deposited, Held, HeldInv
  <2>2. Same(b.image, since \cup E)
    BY <1>1, <2>1 DEF Same, Has
  <2> QED BY <1>3, <1>4, <2>2 DEF HeldInv, KeepsFront, E
<1>5. CASE a.mode = "latest"
  <2>1. /\ Same(a.image, Unreplaced(since)) /\ \A f \in a.image : Pos(f) = f.i % Positions
    BY <1>5 DEF HeldInv
  <2>2. b.image = {f \in a.image : \A g \in frames : Pos(f) # Pos(g)} \cup frames
    BY <1>5 DEF Deposited, Held
  <2>3. \A f \in b.image : Pos(f) = f.i % Positions
    BY <2>1, <2>2
  <2>4. \A e \in since, d \in E : Earlier(e, d) /\ ~Earlier(d, e)
    <3> TAKE e \in since, d \in E
    <3>1. e.s \in Nat /\ e.b \in Nat /\ e.s <= r /\ (e.s = r => e.b < n) /\ d.s = r /\ d.b = n
      BY <1>2
    <3> QED BY <3>1 DEF Earlier
  <2>5. \A e, d \in E : e.i % Positions = d.i % Positions => ~Earlier(e, d)
    <3> SUFFICES ASSUME NEW e \in E, NEW d \in E, e.i % Positions = d.i % Positions PROVE ~Earlier(e, d)
      OBVIOUS
    <3>1. PICK f \in frames : e.i = f.i
      BY <1>2
    <3>2. PICK g \in frames : d.i = g.i
      BY <1>2
    <3>3. f = g
      BY <1>5, <3>1, <3>2 DEF Apart
    <3>4. e.s = r /\ d.s = r /\ e.b = n /\ d.b = n /\ e.i = d.i /\ e.i \in Nat
      BY <1>2, <3>1, <3>2, <3>3
    <3> QED BY <3>4 DEF Earlier
  <2>6. ASSUME NEW e \in Unreplaced(since \cup E) PROVE Has(b.image, e)
    <3>1. CASE e \in E
      <4>1. PICK f \in frames : f.s = e.s /\ f.i = e.i
        BY <1>1, <3>1 DEF Same, Has
      <4> QED BY <2>2, <4>1 DEF Has
    <3>2. CASE e \notin E
      <4>1. e \in since /\ e \in Unreplaced(since)
        BY <2>6, <3>2 DEF Unreplaced
      <4>2. PICK f \in a.image : f.s = e.s /\ f.i = e.i
        BY <2>1, <4>1 DEF Same, Has
      <4>3. ASSUME NEW g \in frames, Pos(f) = Pos(g) PROVE FALSE
        <5>1. PICK d \in E : d.s = g.s /\ d.i = g.i
          BY <1>1 DEF Same, Has
        <5>2. d.i % Positions = e.i % Positions
          BY <2>1, <4>2, <4>3, <5>1
        <5>3. Earlier(e, d)
          BY <2>4, <4>1
        <5> QED BY <2>6, <4>1, <5>2, <5>3 DEF Unreplaced
      <4>4. f \in b.image
        BY <2>2, <4>3
      <4> QED BY <4>2, <4>4 DEF Has
    <3> QED BY <3>1, <3>2
  <2>7. ASSUME NEW f \in b.image PROVE Has(Unreplaced(since \cup E), f)
    <3>1. CASE f \in frames
      <4>1. PICK e \in E : e.s = f.s /\ e.i = f.i
        BY <1>1, <3>1 DEF Same, Has
      <4>2. e \in Unreplaced(since \cup E)
        BY <2>4, <2>5 DEF Unreplaced
      <4> QED BY <4>1, <4>2 DEF Has
    <3>2. CASE f \notin frames
      <4>1. f \in a.image /\ \A g \in frames : Pos(f) # Pos(g)
        BY <2>2, <3>2
      <4>2. PICK e \in Unreplaced(since) : e.s = f.s /\ e.i = f.i
        BY <2>1, <4>1 DEF Same, Has
      <4>3. ASSUME NEW d \in E, d.i % Positions = e.i % Positions PROVE FALSE
        <5>1. PICK g \in frames : d.i = g.i
          BY <1>2
        <5> QED BY <2>1, <4>1, <4>2, <4>3, <5>1
      <4>4. e \in Unreplaced(since \cup E)
        BY <4>2, <4>3 DEF Unreplaced
      <4> QED BY <4>2, <4>4 DEF Has
    <3> QED BY <3>1, <3>2
  <2> QED BY <1>3, <1>5, <2>3, <2>6, <2>7 DEF HeldInv, KeepsFront, Same, E
<1>6. CASE a.mode \notin {"all", "latest"}
  BY <1>3, <1>6 DEF HeldInv
<1> QED BY <1>4, <1>5, <1>6

\* What has nothing fed is as it should be.
LEMMA FreshInv ==
  ASSUME NEW a, IsAcc(a), a.image = {}, a.front = {}, a.pass = -1, ~a.closed, NEW r \in Nat, NEW fed,
         NEW ahead, NEW recent, a.offset % Positions = 0
  PROVE  HeldInv(a, {}) /\ PassesInv(a, r, {}, fed, ahead, recent)
<1>1. Same({}, {}) /\ Unreplaced({}) = {}
  BY DEF Same, Unreplaced
<1>2. HeldInv(a, {})
  BY <1>1 DEF HeldInv
<1>3. a.offset \div Positions \in Nat
  BY PositionsPositive, Quotient DEF IsAcc
<1> DEFINE base == [k \in Nat |-> a.offset \div Positions]
<1>4. base \in Bases
  BY <1>3 DEF Bases
<1>5. base[r] = a.offset \div Positions
  OBVIOUS
<1> HIDE DEF base
<1>6. ~ (a.pass >= 0)
  OBVIOUS
<1>7. PassInv(a, base, r, {}, fed, ahead)
  BY <1>6 DEF PassInv, FedInv, OpenedInv, ImageInv, OnlyOf, FrontInv, AheadInv
<1> QED BY <1>2, <1>4, <1>5, <1>7 DEF PassesInv

LEMMA PassesShrink ==
  ASSUME NEW a, NEW b, NEW r, NEW since, NEW fed, NEW ahead, NEW recent, NEW later, NEW now,
         PassesInv(a, r, since, fed, ahead, recent), later \subseteq ahead, now \subseteq recent,
         b.pass = a.pass, b.image = a.image, b.front = a.front, b.closed = a.closed,
         b.mode = a.mode, b.geo = a.geo, b.last = a.last, b.offset = a.offset
  PROVE  PassesInv(b, r, since, fed, later, now)
<1> SUFFICES ASSUME KeepsFront(b)
             PROVE  \E base \in Bases :
                      /\ base[r] = b.offset \div Positions /\ PassInv(b, base, r, since, fed, later)
                      /\ b.pass = -1 \/ \A i \in now : i \div Positions + base[r] <= b.pass
  BY DEF PassesInv
<1>1. PICK base \in Bases :
        /\ base[r] = a.offset \div Positions /\ PassInv(a, base, r, since, fed, ahead)
        /\ a.pass = -1 \/ \A i \in recent : i \div Positions + base[r] <= a.pass
  BY DEF PassesInv, KeepsFront
<1>2. a.pass >= 0 => b.last >= 0 /\ a.pass <= b.last \div Positions
  BY <1>1 DEF PassInv
<1>3. PassInv(b, base, r, since, fed, later)
  BY <1>1, <1>2, PassFrame
<1>4. b.pass = -1 \/ \A i \in now : i \div Positions + base[r] <= b.pass
  BY <1>1
<1> QED BY <1>1, <1>3, <1>4

\* The same for a step that has to do with no image.
LEMMA ImageStays ==
  ASSUME ImageInvariant, UNCHANGED <<acc, log, began, rounds>>,
         Feeding' => Feeding /\ UNCHANGED <<series, at>>
  PROVE  ImageInvariant'
<1>1. Ahead' \subseteq Ahead /\ Recent' \subseteq Recent /\ Since' = Since
  BY DEF Ahead, Recent, BatchesBehind, Since
<1>2. LogInv'
  BY DEF ImageInvariant, LogInv
<1>3. HeldInv(acc, Since)'
  BY <1>1 DEF ImageInvariant, HeldInv, KeepsFront
<1>4. PassesInv(acc', rounds', Since', log', Ahead', Recent')
  <2> DEFINE p == Ahead
             q == Recent
             x == Ahead'
             y == Recent'
             s == Since
  <2>1. PassesInv(acc, rounds, s, log, p, q) /\ x \subseteq p /\ y \subseteq q
    BY <1>1 DEF ImageInvariant
  <2> HIDE DEF p, q, x, y, s
  <2>2. PassesInv(acc, rounds, s, log, x, y)
    BY <2>1, PassesShrink
  <2> USE DEF x, y, s
  <2> QED BY <2>2, <1>1
<1> QED BY <1>2, <1>3, <1>4 DEF ImageInvariant

LEMMA ImageBegins == Init => ImageInvariant
<1> SUFFICES ASSUME Init PROVE ImageInvariant
  OBVIOUS
<1>1. acc = NoAcc /\ log = {} /\ began = {}
  BY DEF Init, ControlInit
<1>2. acc.mode = "none" /\ acc.image = {} /\ acc.front = {}
  BY <1>1, NoAccIs
<1>3. acc.wrap
  BY <1>1 DEF NoAcc, Build
<1>4. ~KeepsFront(acc)
  BY <1>2 DEF KeepsFront
<1>5. HeldInv(acc, Since)
  BY <1>2 DEF HeldInv
<1>6. PassesInv(acc, rounds, Since, log, Ahead, Recent)
  BY <1>4 DEF PassesInv
<1> QED BY <1>1, <1>3, <1>5, <1>6 DEF ImageInvariant, LogInv

\* The next series of one image.
LEMMA StartKeeps ==
  ASSUME NEW a, IsAcc(a), a.offset % Positions = 0, KeepsFront(a) => a.wrap,
         NEW r \in Nat, NEW since, NEW fed, NEW ahead, NEW recent,
         PassesInv(a, r, since, fed, ahead, recent), NEW ids \in SUBSET Nat
  PROVE  PassesInv(StartSeries(a), r + 1, since, fed, ids, {})
<1> DEFINE b == StartSeries(a)
           top == NextOffset(a) \div Positions
<1> SUFFICES ASSUME KeepsFront(b) PROVE PassesInv(b, r + 1, since, fed, ids, {})
  BY DEF PassesInv
<1>1. b = IF a.wrap THEN [a EXCEPT !.offset = NextOffset(a)] ELSE a
  BY DEF StartSeries
<1>2. /\ b.pass = a.pass /\ b.image = a.image /\ b.front = a.front /\ b.closed = a.closed
      /\ b.mode = a.mode /\ b.geo = a.geo /\ b.last = a.last
  BY <1>1 DEF IsAcc
<1>3. KeepsFront(a) /\ b.offset = NextOffset(a)
  BY <1>1, <1>2 DEF KeepsFront, IsAcc
<1>4. PICK base \in Bases : PassInv(a, base, r, since, fed, ahead)
  BY <1>3 DEF PassesInv
<1>5. top \in Nat /\ a.pass \in Int /\ a.pass < top
  <2>1. CASE a.last >= 0
    <3> DEFINE q == a.last \div Positions
    <3>1. a.last \in Nat
      BY <2>1 DEF IsAcc
    <3>2. q \in Nat
      BY <3>1, PositionsPositive, Quotient
    <3>3. NextOffset(a) = (q + 1) * Positions
      BY <2>1 DEF NextOffset
    <3>4. a.pass \in Int /\ (a.pass >= 0 => a.pass <= q)
      BY <1>4 DEF PassInv, IsAcc
    <3> HIDE DEF q
    <3>5. q + 1 \in Nat
      BY <3>2
    <3>6. top = q + 1
      BY <3>3, <3>5, PositionsPositive, Multiple
    <3> QED BY <3>2, <3>4, <3>6
  <2>2. CASE ~ (a.last >= 0)
    <3>1. NextOffset(a) = a.offset /\ a.offset \in Nat
      BY <2>2 DEF NextOffset, IsAcc
    <3>2. top \in Nat
      BY <3>1, PositionsPositive, Quotient
    <3>3. a.pass \in Int /\ ~ (a.pass >= 0)
      BY <1>4, <2>2 DEF PassInv, IsAcc
    <3> QED BY <3>2, <3>3
  <2> QED BY <2>1, <2>2
<1> DEFINE new == [base EXCEPT ![r + 1] = top]
<1>6. /\ new \in Bases /\ new[r + 1] = top
      /\ \A k \in Nat : k <= r => new[k] = base[k]
  BY <1>5 DEF Bases
<1> HIDE DEF b, top, new
<1>7. \A e : e.s \in Nat /\ e.s <= r => Num(new, e) = Num(base, e)
  BY <1>6 DEF Num
<1>8. \A e \in since : e.s \in Nat /\ e.i \in Nat /\ e.s <= r /\ Num(base, e) <= a.pass /\ Num(base, e) \in Nat
  BY <1>4, NumIsNat DEF PassInv, FedInv
<1>9. FedInv(b, new, r + 1, since)
  <2>1. \A e \in since : /\ e.s \in Nat /\ e.i \in Nat /\ e.s <= r + 1 /\ Num(new, e) <= b.pass
                         /\ Num(new, e) < new[r + 1]
    BY <1>2, <1>5, <1>6, <1>7, <1>8
  <2>2. \A d, e \in since : d.s < e.s => Num(new, d) < Num(new, e)
    BY <1>4, <1>7, <1>8 DEF PassInv, FedInv
  <2> QED BY <2>1, <2>2 DEF FedInv
<1>10. OpenedInv(b, new, r + 1, fed)
  <2>1. SUFFICES ASSUME a.pass >= 0
                 PROVE  \E d \in fed : /\ d.s \in Nat /\ d.i \in Nat /\ d.s <= r + 1 /\ Num(new, d) = a.pass
                                       /\ d.s < r + 1 => a.pass < new[r + 1]
    BY <1>2 DEF OpenedInv
  <2>2. PICK d \in fed : d.s \in Nat /\ d.i \in Nat /\ d.s <= r /\ Num(base, d) = a.pass
    BY <1>4, <2>1 DEF PassInv, OpenedInv
  <2>3. Num(new, d) = a.pass /\ d.s <= r + 1
    BY <1>7, <2>2
  <2> QED BY <1>5, <1>6, <2>2, <2>3
<1>11. ASSUME NEW frames, NEW k PROVE OnlyOf(frames, k, base, since, a.geo) => OnlyOf(frames, k, new, since, b.geo)
  <2> SUFFICES ASSUME OnlyOf(frames, k, base, since, a.geo), NEW f \in frames
               PROVE  Num(new, f) = k /\ Has(since, f) /\ f.g = b.geo /\ Seated(f, k)
    BY DEF OnlyOf
  <2>1. Num(base, f) = k /\ Has(since, f) /\ f.g = a.geo /\ Seated(f, k)
    BY DEF OnlyOf
  <2>2. PICK e \in since : e.s = f.s /\ e.i = f.i
    BY <2>1 DEF Has
  <2>3. f.s \in Nat /\ f.s <= r
    BY <1>8, <2>2
  <2> QED BY <1>2, <1>7, <2>1, <2>3
<1>12. ImageInv(b, new, since)
  BY <1>2, <1>4, <1>7, <1>8, <1>11 DEF PassInv, ImageInv
<1>13. FrontInv(b, new, since, fed)
  BY <1>2, <1>4, <1>7, <1>8, <1>11 DEF PassInv, FrontInv
<1>14. AheadInv(b, new, r + 1, ids)
  <2> SUFFICES ASSUME NEW i \in ids PROVE i \div Positions + new[r + 1] > b.pass
                                          /\ ~ (i \div Positions + new[r + 1] < b.pass)
    BY DEF AheadInv
  <2>1. i \div Positions \in Nat
    BY PositionsPositive, Quotient
  <2> DEFINE x == i \div Positions
  <2>2. x \in Nat
    BY <2>1
  <2> HIDE DEF x
  <2>3. x + new[r + 1] > b.pass /\ ~ (x + new[r + 1] < b.pass)
    BY <1>2, <1>5, <1>6, <2>2
  <2> QED BY <2>3 DEF x
<1>15. b.pass >= 0 => b.last >= 0 /\ b.pass <= b.last \div Positions
  BY <1>2, <1>4 DEF PassInv
<1>16. PassInv(b, new, r + 1, since, fed, ids)
  BY <1>9, <1>10, <1>12, <1>13, <1>14, <1>15 DEF PassInv
<1>17. new[r + 1] = b.offset \div Positions
  BY <1>3, <1>6 DEF top
<1> QED BY <1>6, <1>16, <1>17 DEF PassesInv

\* A whole accumulator for an image that begins now.
LEMMA ImageBegun ==
  ASSUME ImageInvariant, IsAcc(acc'), acc'.image = {}, acc'.front = {}, acc'.pass = -1, ~acc'.closed,
         acc'.offset % Positions = 0, ~acc'.wrap => acc'.mode = "all",
         began' = log, log' = log, rounds' \in Nat, LogInv'
  PROVE  ImageInvariant'
<1>1. Since' = {}
  BY DEF Since
<1>2. HeldInv(acc', Since') /\ PassesInv(acc', rounds', Since', log', Ahead', Recent')
  <2> DEFINE x == Ahead'
             y == Recent'
  <2> HIDE DEF x, y
  <2>1. HeldInv(acc', {}) /\ PassesInv(acc', rounds', {}, log', x, y)
    BY FreshInv
  <2> QED BY <1>1, <2>1 DEF x, y
<1>3. (began \subseteq log)'
  OBVIOUS
<1> QED BY <1>2, <1>3 DEF ImageInvariant

LEMMA BuildIs ==
  ASSUME NEW mode, NEW geo, NEW shape
  PROVE  LET b == Build(mode, geo, shape, setup.passes)
         IN /\ b.image = {} /\ b.front = {} /\ b.pass = -1 /\ ~b.closed /\ b.offset = 0 /\ b.last = -1
            /\ b.mode = ModeOf(mode) /\ b.geo = geo /\ (b.wrap <=> mode # "scan")
  BY DEF Build

LEMMA ImageOverStart == ControlInv /\ ImageInvariant /\ Start => ImageInvariant'
<1> SUFFICES ASSUME ControlInv, ImageInvariant, Start PROVE ImageInvariant'
  OBVIOUS
<1>1. PICK x \in Series :
        IF StartRefused(x) THEN Fail /\ UNCHANGED <<acc, series_, log, began>>
        ELSE /\ acc' = Started(x) /\ series' = x /\ at' = 0
             /\ rounds' = rounds + 1 /\ active' = TRUE
             /\ began' = (IF Persistent THEN began ELSE log)
             /\ UNCHANGED <<main, log>>
  BY DEF Start
<1>2. UNCHANGED <<setup, args>> /\ rounds \in Nat
  BY DEF Start, control, ControlInv
<1>3. CASE StartRefused(x)
  <2>1. main' = "stop" /\ UNCHANGED <<acc, log, began, rounds>>
    BY <1>1, <1>3 DEF Fail, series_
  <2>2. ~Feeding'
    BY <2>1 DEF Feeding
  <2> QED BY <2>1, <2>2, ImageStays
<1>4. CASE ~StartRefused(x)
  <2>1. LogInv'
    <3> SUFFICES ASSUME NEW d \in log
                 PROVE  /\ d.s \in Nat /\ d.b \in Nat /\ d.i \in Nat /\ d.s <= rounds + 1
                        /\ d.s # rounds + 1
      BY <1>1, <1>4 DEF LogInv
    <3>1. d.s \in Nat /\ d.b \in Nat /\ d.i \in Nat /\ d.s <= rounds
      BY DEF ImageInvariant, LogInv
    <3> QED BY <1>2, <3>1
  <2>2. CASE Persistent
    <3>1. AccOk(acc) /\ IsAcc(acc) /\ acc # NoAcc /\ acc.offset % Positions = 0
      BY <2>2 DEF ControlInv, Persistent, AccOk
    <3>2. acc' = StartSeries(acc) /\ began' = began /\ log' = log /\ Since' = Since
      BY <1>1, <1>4, <2>2 DEF Started, Since
    <3>3. KeepsFront(acc) => acc.wrap
      BY DEF ImageInvariant, KeepsFront
    <3>4. \E o : acc' = acc \/ acc' = [acc EXCEPT !.offset = o]
      BY <3>2 DEF StartSeries
    <3>5. /\ acc'.mode = acc.mode /\ acc'.wrap = acc.wrap /\ acc'.image = acc.image
          /\ acc'.front = acc.front /\ acc'.geo = acc.geo
      BY <3>1, <3>4 DEF IsAcc
    <3>6. HeldInv(acc', Since')
      BY <3>2, <3>5 DEF ImageInvariant, HeldInv, KeepsFront
    <3>7. Ahead' \in SUBSET Nat /\ Recent' = {}
      <4>1. x.batches \in Seq(SUBSET Nat)
        BY ParallaxAssumption
      <4>2. \A q \in DOMAIN x.batches : x.batches[q] \in SUBSET Nat
        BY <4>1
      <4>3. series' = x /\ at' = 0
        BY <1>1, <1>4
      <4>4. Recent' = {}
        BY <4>3 DEF Recent
      <4>5. Ahead' \subseteq UNION {x.batches[q] : q \in DOMAIN x.batches}
        BY <4>3 DEF Ahead, BatchesBehind
      <4> QED BY <4>2, <4>4, <4>5
    <3>8. PassesInv(acc', rounds', Since', log', Ahead', Recent')
      <4> DEFINE y == Ahead'
                 s == Since
                 p == Ahead
                 q == Recent
      <4>1. PassesInv(acc, rounds, s, log, p, q) /\ y \in SUBSET Nat
        BY <3>7 DEF ImageInvariant
      <4> HIDE DEF y, s, p, q
      <4>2. PassesInv(StartSeries(acc), rounds + 1, s, log, y, {})
        BY <1>2, <3>1, <3>3, <4>1, StartKeeps
      <4>3. rounds' = rounds + 1
        BY <1>1, <1>4
      <4> QED BY <3>2, <3>7, <4>2, <4>3 DEF y, s
    <3> QED BY <2>1, <3>2, <3>5, <3>6, <3>8 DEF ImageInvariant
  <2>3. CASE ~Persistent
    <3> DEFINE b == Build(args.mode, args.tune, x.shape, setup.passes)
    <3>1. acc' = b /\ began' = log /\ log' = log
      BY <1>1, <1>4, <2>3 DEF Started
    <3>2. args.mode \in Modes \cup {"scan"} /\ (args.mode = "scan" <=> setup.mode = "scan") /\ setup \in Setups
      BY DEF ControlInv, ArgsOk
    <3>3. AccOk(b)
      BY <3>2, BuildOk
    <3>4. /\ b.image = {} /\ b.front = {} /\ b.pass = -1 /\ ~b.closed
          /\ b.mode = ModeOf(args.mode) /\ (b.wrap <=> args.mode # "scan")
      BY BuildIs
    <3>5. ~b.wrap => b.mode = "all"
      BY <3>4 DEF ModeOf
    <3>6. rounds' \in Nat
      BY <1>1, <1>2, <1>4
    <3> HIDE DEF b
    <3>7. IsAcc(b) /\ b.offset % Positions = 0
      BY <3>3 DEF AccOk
    <3> QED BY <2>1, <3>1, <3>4, <3>5, <3>6, <3>7, ImageBegun
  <2> QED BY <2>2, <2>3
<1> QED BY <1>3, <1>4

\* A change leaves the image, puts a new one in its place, or shifts it again.
Blank(a) ==
  /\ IsAcc(a) /\ a.image = {} /\ a.front = {} /\ a.pass = -1 /\ ~a.closed /\ a.offset = 0 /\ a.last = -1
  /\ a.start = NoId /\ (~a.wrap => a.mode = "all")

LEMMA BlankBuild ==
  ASSUME setup \in Setups, NEW mode \in Modes \cup {"scan"}, mode = "scan" <=> setup.mode = "scan",
         NEW geo, NEW shape
  PROVE  Blank(Build(mode, geo, shape, setup.passes))
<1> DEFINE b == Build(mode, geo, shape, setup.passes)
<1>1. AccOk(b)
  BY BuildOk
<1>2. /\ b.image = {} /\ b.front = {} /\ b.pass = -1 /\ ~b.closed /\ b.offset = 0 /\ b.last = -1
      /\ b.mode = ModeOf(mode) /\ (b.wrap <=> mode # "scan")
  BY BuildIs
<1>3. b.start = NoId
  BY DEF Build
<1> HIDE DEF b
<1> QED BY <1>1, <1>2, <1>3 DEF Blank, AccOk, ModeOf, b

LEMMA SetGeometryImage ==
  ASSUME NEW a, IsAcc(a), NEW geo
  PROVE  LET b == SetGeometry(a, geo)
         IN /\ a.mode # "latest" => b.image = {} /\ b.front = {}
            /\ a.mode = "latest" => b.front = a.front /\ b.image = {[f EXCEPT !.g = geo] : f \in a.image}
  BY DEF SetGeometry, Restarted, IsAcc

LEMMA BlankRetuned ==
  ASSUME NEW a, Blank(a), NEW geo PROVE Blank(SetGeometry(a, geo))
<1> DEFINE b == SetGeometry(a, geo)
<1>1. IsAcc(a) /\ a.image = {} /\ a.front = {} /\ a.start = NoId
  BY DEF Blank
<1>2. /\ IsAcc(b) /\ b.mode = a.mode /\ b.wrap = a.wrap /\ b.offset = a.offset /\ b.pass = a.pass
      /\ b.closed = a.closed /\ b.last = a.last
  BY <1>1, SetGeometryIs
<1>3. b.image = {} /\ b.front = {}
  BY <1>1, SetGeometryImage
<1>4. b.start = NoId
  BY <1>1 DEF SetGeometry, Restarted, IsAcc
<1> HIDE DEF b
<1> QED BY <1>2, <1>3, <1>4 DEF Blank, b

Becomes(a, b) == b = a \/ Blank(b) \/ (a # NoAcc /\ \E t : b = SetGeometry(a, t))

LEMMA SwitchBecomes ==
  ASSUME setup \in Setups, NEW x, Change(x), x.end = "done", NEW c
  PROVE  LET y == Switch(x, c)
         IN y.acc = x.acc \/ Blank(y.acc)
<1> DEFINE set == [x EXCEPT !.args.mode = c.mode]
           b == Build(c.mode, x.args.tune, x.acc.shape, setup.passes)
           y == Switch(x, c)
<1>1. CASE c.mode \in {"keep", x.args.mode}
  BY <1>1 DEF Switch
<1>2. CASE c.mode \notin {"keep", x.args.mode} /\ Unselectable(c)
  <2>1. y = [x EXCEPT !.end = "refused"]
    BY <1>2 DEF Switch
  <2>2. y.acc = x.acc
    BY <2>1 DEF Change
  <2> QED BY <2>2
<1>3. CASE c.mode \notin {"keep", x.args.mode} /\ ~Unselectable(c)
  <2>1. c.mode \in Modes /\ setup.mode # "scan" /\ c.mode # "scan"
    BY <1>3 DEF Unselectable, Selectable, Modes
  <2>2. {"acc", "args", "end"} \subseteq DOMAIN set /\ set.acc = x.acc /\ set.args.tune = x.args.tune
    BY DEF Change, ArgsOk
  <2>3. y = IF x.acc = NoAcc THEN set
            ELSE IF c.fault = "memory" THEN [set EXCEPT !.end = "crashed"]
            ELSE [set EXCEPT !.acc = b]
    <3>1. set.args.tune = x.args.tune
      BY <2>2
    <3> QED BY <1>3 DEF Switch
  <2>4. Blank(b)
    BY <2>1, BlankBuild
  <2> HIDE DEF set, b, y
  <2>5. y.acc = x.acc \/ y.acc = b
    BY <2>2, <2>3
  <2> QED BY <2>4, <2>5 DEF y
<1> QED BY <1>1, <1>2, <1>3

LEMMA RetuneBecomes ==
  ASSUME NEW x, Change(x), NEW c
  PROVE  LET y == Retune(x, c)
         IN y.acc = x.acc \/ (x.acc # NoAcc /\ \E t : y.acc = SetGeometry(x.acc, t))
<1> DEFINE set == [x EXCEPT !.args.tune = c.tune]
           b == SetGeometry(x.acc, c.tune)
           y == Retune(x, c)
<1>1. {"acc", "args", "end"} \subseteq DOMAIN set /\ set.acc = x.acc
  BY DEF Change
<1>2. \/ y = x \/ y = set
      \/ \E e : y = [x EXCEPT !.end = e] \/ y = [set EXCEPT !.end = e]
      \/ x.acc # NoAcc /\ y = [set EXCEPT !.acc = b]
  BY DEF Retune
<1> HIDE DEF set, b, y
<1>3. y.acc = x.acc \/ (x.acc # NoAcc /\ y.acc = b)
  BY <1>1, <1>2 DEF Change
<1> QED BY <1>3 DEF y, b

LEMMA UpdatedBecomes ==
  ASSUME setup \in Setups, AccOk(acc), ArgsOk(args), NEW c
  PROVE  Becomes(acc, Updated(c).acc)
<1> DEFINE x == [acc |-> acc, args |-> args, end |-> "done"]
           w == Switch(x, c)
           y == Retune(w, c)
<1>1. Change(x) /\ x.end = "done" /\ x.acc = acc
  BY DEF Change, Ends
<1> HIDE DEF x
<1>2. Change(w) /\ (w.acc = acc \/ Blank(w.acc))
  BY <1>1, SwitchIs, SwitchBecomes
<1> HIDE DEF w
<1>3. y.acc = w.acc \/ (w.acc # NoAcc /\ \E t : y.acc = SetGeometry(w.acc, t))
  BY <1>2, RetuneBecomes
<1> HIDE DEF y
<1>4. Updated(c) = y
  BY DEF Updated, y, w, x
<1>5. CASE w.acc = acc
  BY <1>3, <1>4, <1>5 DEF Becomes
<1>6. CASE Blank(w.acc)
  BY <1>3, <1>4, <1>6, BlankRetuned DEF Becomes
<1> QED BY <1>2, <1>5, <1>6

\* The image that starts over, and the one that is shifted again.
LEMMA RestartKeeps ==
  ASSUME NEW a, IsAcc(a), NEW geo, a.mode # "latest", NEW r, NEW since, NEW fed, NEW ahead, NEW recent,
         PassesInv(a, r, since, fed, ahead, recent), NEW later, later \subseteq ahead,
         NEW now, now \subseteq recent
  PROVE  LET b == SetGeometry(a, geo)
         IN HeldInv(b, {}) /\ PassesInv(b, r, {}, fed, later, now)
<1> DEFINE b == SetGeometry(a, geo)
<1>1. /\ IsAcc(b) /\ b.mode = a.mode /\ b.offset = a.offset /\ b.last = a.last /\ b.pass = a.pass
      /\ b.closed = a.closed
  BY SetGeometryIs
<1>2. b.image = {} /\ b.front = {}
  BY SetGeometryImage
<1> HIDE DEF b
<1>3. HeldInv(b, {})
  BY <1>1, <1>2 DEF HeldInv, Same
<1>4. PassesInv(b, r, {}, fed, later, now)
  <2> SUFFICES ASSUME KeepsFront(b)
               PROVE  \E base \in Bases :
                        /\ base[r] = b.offset \div Positions /\ PassInv(b, base, r, {}, fed, later)
                        /\ b.pass = -1 \/ \A i \in now : i \div Positions + base[r] <= b.pass
    BY DEF PassesInv
  <2>1. PICK base \in Bases :
          /\ base[r] = a.offset \div Positions /\ PassInv(a, base, r, since, fed, ahead)
          /\ a.pass = -1 \/ \A i \in recent : i \div Positions + base[r] <= a.pass
    BY <1>1 DEF PassesInv, KeepsFront
  <2>2. b.pass >= 0 => b.last >= 0 /\ b.pass <= b.last \div Positions
    BY <1>1, <2>1 DEF PassInv
  <2>3. FedInv(b, base, r, {}) /\ ImageInv(b, base, {}) /\ FrontInv(b, base, {}, fed)
    BY <1>2 DEF FedInv, ImageInv, OnlyOf, FrontInv
  <2>4. OpenedInv(b, base, r, fed)
    BY <1>1, <2>1 DEF PassInv, OpenedInv
  <2>5. AheadInv(b, base, r, later)
    BY <1>1, <1>2, <2>1 DEF PassInv, AheadInv
  <2>6. PassInv(b, base, r, {}, fed, later)
    BY <2>2, <2>3, <2>4, <2>5 DEF PassInv
  <2> QED BY <1>1, <2>1, <2>6
<1> QED BY <1>3, <1>4 DEF b

LEMMA ShiftKeeps ==
  ASSUME NEW a, IsAcc(a), NEW geo, a.mode = "latest", NEW since, HeldInv(a, since)
  PROVE  LET b == SetGeometry(a, geo)
         IN HeldInv(b, since) /\ ~KeepsFront(b) /\ (b.image = {} => HeldInv(b, {}))
<1> DEFINE b == SetGeometry(a, geo)
           again(f) == [f EXCEPT !.g = geo]
<1>1. b.mode = a.mode /\ b.geo = geo
  BY SetGeometryIs
<1>2. b.front = a.front /\ b.image = {again(f) : f \in a.image}
  BY SetGeometryImage
<1>3. \A f \in a.image : again(f).s = f.s /\ again(f).i = f.i /\ again(f).a = f.a /\ again(f).g = geo
  BY DEF IsAcc, IsFrame
<1> HIDE DEF b, again
<1>4. ~KeepsFront(a) /\ ~KeepsFront(b)
  BY <1>1 DEF KeepsFront
<1>5. a.front = {} /\ Same(a.image, Unreplaced(since)) /\ \A f \in a.image : Pos(f) = f.i % Positions
  BY <1>4 DEF HeldInv
<1>6. \A f \in b.image : f.g = geo /\ Pos(f) = f.i % Positions
  BY <1>2, <1>3, <1>5 DEF Pos
<1>7. \A U : Same(a.image, U) => Same(b.image, U)
  <2> SUFFICES ASSUME NEW U, Same(a.image, U) PROVE Same(b.image, U)
    OBVIOUS
  <2>1. \A x \in b.image : Has(U, x)
    BY <1>2, <1>3 DEF Same, Has
  <2>2. ASSUME NEW y \in U PROVE Has(b.image, y)
    <3>1. PICK f \in a.image : f.s = y.s /\ f.i = y.i
      BY DEF Same, Has
    <3>2. again(f) \in b.image /\ again(f).s = y.s /\ again(f).i = y.i
      BY <1>2, <1>3, <3>1
    <3> QED BY <3>2 DEF Has
  <2> QED BY <2>1, <2>2 DEF Same
<1>8. HeldInv(b, since)
  BY <1>1, <1>2, <1>5, <1>6, <1>7 DEF HeldInv
<1>9. b.image = {} => HeldInv(b, {})
  <2>1. Unreplaced({}) = {} /\ Same({}, {})
    BY DEF Unreplaced, Same
  <2> QED BY <1>1, <1>2, <1>5, <2>1 DEF HeldInv
<1> QED BY <1>4, <1>8, <1>9 DEF b

LEMMA ImageOverApply ==
  ASSUME ControlInv, ImageInvariant, NEW c, acc' = Updated(c).acc,
         began' = (IF Restarts(Updated(c)) THEN log ELSE began),
         UNCHANGED <<log, rounds, series, at>>, Feeding' => Feeding
  PROVE  ImageInvariant'
<1> DEFINE b == Updated(c).acc
<1>1. Becomes(acc, b)
  BY UpdatedBecomes DEF ControlInv
<1>2. acc' = b /\ began' = IF b # acc /\ (b.mode # "latest" \/ b.image = {}) THEN log ELSE began
  BY DEF Restarts
<1> HIDE DEF b
<1>3. AccOk(acc) /\ IsAcc(acc) /\ acc.offset % Positions = 0 /\ rounds \in Nat
  BY DEF ControlInv, AccOk
<1>4. LogInv'
  BY DEF ImageInvariant, LogInv
<1>5. (began \subseteq log)'
  BY <1>2 DEF ImageInvariant
<1>6. CASE b = acc
  BY <1>2, <1>6, ImageStays
<1>7. CASE b # acc /\ Blank(b)
  <2>1. began' = log
    BY <1>2, <1>7 DEF Blank
  <2>2. IsAcc(b) /\ b.image = {} /\ b.front = {} /\ b.pass = -1 /\ ~b.closed /\ b.offset % Positions = 0
        /\ (~b.wrap => b.mode = "all")
    <3>1. 0 % Positions = 0
      BY PositionsPositive
    <3> QED BY <1>7, <3>1 DEF Blank
  <2>3. rounds' \in Nat
    BY <1>3
  <2> QED BY <1>2, <1>4, <2>1, <2>2, <2>3, ImageBegun
<1>8. ASSUME b # acc, acc # NoAcc, NEW t, b = SetGeometry(acc, t) PROVE ImageInvariant'
  <2>1. b.mode = acc.mode /\ b.wrap = acc.wrap
    BY <1>3, <1>8, SetGeometryIs
  <2>2. CASE acc.mode = "latest"
    <3>1. HeldInv(b, Since) /\ ~KeepsFront(b) /\ (b.image = {} => HeldInv(b, {}))
      BY <1>3, <1>8, <2>2, ShiftKeeps DEF ImageInvariant
    <3>2. Since' = Since \/ (b.image = {} /\ Since' = {})
      <4>1. log' = log /\ (began' = began \/ (began' = log /\ b.image = {}))
        BY <1>2, <2>1, <2>2
      <4> QED BY <4>1 DEF Since
    <3>3. HeldInv(acc', Since')
      BY <1>2, <3>1, <3>2
    <3>4. PassesInv(acc', rounds', Since', log', Ahead', Recent')
      BY <1>2, <3>1 DEF PassesInv
    <3> QED BY <1>2, <1>4, <1>5, <2>1, <3>3, <3>4 DEF ImageInvariant
  <2>3. CASE acc.mode # "latest"
    <3>1. Since' = {}
      <4>1. began' = log /\ log' = log
        BY <1>2, <1>8, <2>1, <2>3
      <4> QED BY <4>1 DEF Since
    <3> DEFINE p == Ahead
               q == Recent
               x == Ahead'
               y == Recent'
               s == Since
    <3>2. x \subseteq p /\ y \subseteq q
      BY DEF Ahead, Recent, BatchesBehind
    <3>3. PassesInv(acc, rounds, s, log, p, q)
      BY DEF ImageInvariant
    <3> HIDE DEF p, q, x, y, s
    <3>4. HeldInv(b, {}) /\ PassesInv(b, rounds, {}, log, x, y)
      BY <1>3, <1>8, <2>3, <3>2, <3>3, RestartKeeps
    <3>5. HeldInv(acc', Since') /\ PassesInv(acc', rounds', Since', log', Ahead', Recent')
      BY <1>2, <3>1, <3>4 DEF x, y
    <3> QED BY <1>2, <1>4, <1>5, <2>1, <3>5 DEF ImageInvariant
  <2> QED BY <2>2, <2>3
<1> QED BY <1>1, <1>6, <1>7, <1>8 DEF Becomes

LEMMA ImageOverUpdate == ControlInv /\ ImageInvariant /\ Update => ImageInvariant'
<1> SUFFICES ASSUME ControlInv, ImageInvariant, Update PROVE ImageInvariant'
  OBVIOUS
<1>1. UNCHANGED <<log, rounds, series, at, main, active>>
  BY DEF Update, series_
<1>2. PICK c \in Changes :
        Apply(c, IF acc' = NoAcc THEN UNCHANGED <<http, lock>> ELSE http' = "publish" /\ lock' = "http",
              UNCHANGED <<http, lock>>, UNCHANGED <<http, lock>>)
  BY DEF Update
<1>3. acc' = Updated(c).acc /\ began' = IF Restarts(Updated(c)) THEN log ELSE began
  BY <1>2 DEF Apply
<1>4. Feeding' => Feeding
  BY <1>1 DEF Feeding
<1> QED BY <1>1, <1>3, <1>4, ImageOverApply

LEMMA ImageOverApplyPending == ControlInv /\ ImageInvariant /\ ApplyPending => ImageInvariant'
<1> SUFFICES ASSUME ControlInv, ImageInvariant, ApplyPending PROVE ImageInvariant'
  OBVIOUS
<1> DEFINE c == Head(pending)
<1>1. UNCHANGED <<log, rounds, series, at, active>> /\ main = "run" /\ active
  BY DEF ApplyPending, series_
<1>2. Apply(c, main' = "tuning" /\ lock' = "main", UNCHANGED <<main, lock>>, Fail /\ UNCHANGED lock)
  BY DEF ApplyPending
<1> HIDE DEF c
<1>3. acc' = Updated(c).acc /\ began' = IF Restarts(Updated(c)) THEN log ELSE began
  BY <1>2 DEF Apply
<1>4. Feeding' => Feeding
  BY <1>1 DEF Feeding
<1> QED BY <1>1, <1>3, <1>4, ImageOverApply

LEMMA ImageOverFinish == ControlInv /\ ImageInvariant /\ Finish => ImageInvariant'
<1> SUFFICES ASSUME ControlInv, ImageInvariant, Finish PROVE ImageInvariant'
  OBVIOUS
<1>1. /\ UNCHANGED <<rounds, series, at, active, log, began>>
      /\ acc' = acc \/ acc' = Settled(EndSeries(acc))
      /\ main' \in {"final", "stop"}
  BY DEF Finish, series_, history, Fail
<1>2. ~Feeding'
  BY <1>1 DEF Feeding
<1>3. CASE acc' = acc
  BY <1>1, <1>2, <1>3, ImageStays
<1>4. CASE acc' = Settled(EndSeries(acc))
  <2> DEFINE e == EndSeries(acc)
  <2>1. IsAcc(acc) /\ Carried(acc, e) /\ IsAcc(e)
    BY EndSeriesCarries DEF ControlInv, AccOk, Carried
  <2>2. LET b == Settled(e)
        IN /\ b.image = e.image /\ b.front = e.front
           /\ b.mode = acc.mode /\ b.geo = acc.geo /\ b.wrap = acc.wrap /\ b.offset = acc.offset
    <3> HIDE DEF e
    <3> QED BY <2>1, SettledIs DEF Carried
  <2>3. Since' = Since /\ Ahead' = {} /\ Recent' = {}
    BY <1>1, <1>2 DEF Since, Ahead, Recent
  <2>4. HeldInv(acc', Since')
    <3>1. CASE KeepsFront(acc)
      BY <1>4, <2>2, <3>1 DEF HeldInv, KeepsFront
    <3>2. CASE ~KeepsFront(acc)
      <4>1. e.image = acc.image /\ e.front = acc.front
        BY <2>1, <3>2, EndOther
      <4> HIDE DEF e
      <4>2. acc'.image = acc.image /\ acc'.front = acc.front /\ acc'.mode = acc.mode /\ acc'.geo = acc.geo
        BY <1>4, <2>2, <4>1 DEF e
      <4> QED BY <2>3, <4>2 DEF ImageInvariant, HeldInv, KeepsFront
    <3> QED BY <3>1, <3>2
  <2>5. PassesInv(acc', rounds', Since', log', Ahead', Recent')
    <3> SUFFICES ASSUME KeepsFront(acc') PROVE PassesInv(acc', rounds, Since, log, {}, {})
      BY <1>1, <2>3 DEF PassesInv
    <3>1. KeepsFront(acc)
      BY <1>4, <2>2 DEF KeepsFront
    <3>2. PICK base \in Bases :
            base[rounds] = acc.offset \div Positions /\ PassInv(acc, base, rounds, Since, log, Ahead)
      BY <3>1 DEF ImageInvariant, PassesInv
    <3>3. PassInv(e, base, rounds, Since, log, {})
      BY <2>1, <3>1, <3>2, EndKeeps
    <3> HIDE DEF e
    <3>4. PassInv(Settled(e), base, rounds, Since, log, {})
      BY <2>1, <3>3, SettledKeeps
    <3>5. acc' = Settled(e) /\ acc'.offset = acc.offset
      BY <1>4, <2>2 DEF e
    <3> QED BY <3>2, <3>4, <3>5 DEF PassesInv
  <2>6. LogInv' /\ (began \subseteq log)' /\ (~acc.wrap => acc.mode = "all")'
    <3>1. acc'.wrap = acc.wrap /\ acc'.mode = acc.mode
      BY <1>4, <2>2
    <3> QED BY <1>1, <1>2, <3>1 DEF ImageInvariant, LogInv
  <2> QED BY <2>4, <2>5, <2>6 DEF ImageInvariant
<1> QED BY <1>1, <1>3, <1>4

-----------------------------------------------------------------------------
(* A batch.                                                                 *)

LEMMA FeedingIs ==
  ASSUME ControlInv, ImageInvariant, Feed
  PROVE  LET ids    == series.batches[at + 1]
             frames == FramesOf(acc, rounds, ids)
         IN /\ Feeding /\ at \in Nat /\ rounds \in Nat /\ IsAcc(acc) /\ acc.done = <<>> /\ acc # NoAcc
            /\ series \in Series /\ at + 1 \in DOMAIN series.batches
            /\ frames # {} /\ IsFiniteSet(frames)
            /\ \A f \in frames : IsFrame(f) /\ f.g = acc.geo /\ f.s = rounds /\ f.i \in ids
            /\ \A i \in ids : i \in Nat /\ \E f \in frames : f.i = i
            /\ acc.wrap => \A f \in frames : /\ Pos(f) = f.i % Positions
                                             /\ PassOf(f) = f.i \div Positions + acc.offset \div Positions
            /\ {f.i : f \in frames} = ids
            /\ Ahead = ids \cup BatchesBehind(at + 1) /\ BatchesBehind(at + 1) \subseteq Nat
            /\ \A d \in log : /\ d.s \in Nat /\ d.b \in Nat /\ d.i \in Nat /\ d.s <= rounds
                              /\ d.s = rounds => d.b < at + 1
<1> DEFINE ids    == series.batches[at + 1]
           frames == FramesOf(acc, rounds, ids)
<1>1. main = "run" /\ active /\ at < Len(series.batches)
  BY DEF Feed
<1>2. /\ ids \in SUBSET Nat /\ ids # {} /\ IsFiniteSet(ids)
      /\ series \in Series /\ at + 1 \in DOMAIN series.batches
      /\ rounds \in Nat /\ IsAcc(acc) /\ AccOk(acc) /\ acc # NoAcc
  BY <1>1, BatchIs
<1>3. at \in Nat /\ acc.done = <<>> /\ acc.offset % Positions = 0 /\ acc.offset \in Nat
  BY <1>2 DEF ControlInv, AccOk, IsAcc
<1>4. Feeding
  BY <1>1 DEF Feeding
<1>5. /\ frames # {} /\ IsFiniteSet(frames)
      /\ \A f \in frames : IsFrame(f) /\ f.g = acc.geo /\ f.s = rounds /\ f.i \in ids
                           /\ f.a = f.i + (IF acc.wrap THEN acc.offset ELSE 0)
      /\ \A i \in ids : \E f \in frames : f.i = i
  BY <1>2, FramesAre
<1> HIDE DEF frames
<1>6. ASSUME acc.wrap, NEW f \in frames
      PROVE  Pos(f) = f.i % Positions /\ PassOf(f) = f.i \div Positions + acc.offset \div Positions
  <2>1. f.a = f.i + acc.offset /\ f.i \in Nat
    BY <1>5, <1>6 DEF IsFrame
  <2> QED BY <1>3, <2>1, Shifted DEF Pos, PassOf
<1>7. {f.i : f \in frames} = ids
  BY <1>5
<1>8. series.batches \in Seq(SUBSET Nat)
  BY <1>2, ParallaxAssumption
<1>9. \A q \in DOMAIN series.batches : q \in Nat /\ series.batches[q] \in SUBSET Nat
  BY <1>8
<1>10. BatchesBehind(at + 1) \subseteq Nat
  BY <1>9 DEF BatchesBehind
<1>11. Ahead = ids \cup BatchesBehind(at + 1)
  <2>1. \A q \in DOMAIN series.batches : q > at <=> (q = at + 1 \/ q > at + 1)
    BY <1>3, <1>9
  <2>2. {p \in DOMAIN series.batches : p > at} = {at + 1} \cup {p \in DOMAIN series.batches : p > at + 1}
    BY <1>2, <2>1
  <2> QED BY <1>4, <2>2 DEF Ahead, BatchesBehind
<1>12. \A d \in log : /\ d.s \in Nat /\ d.b \in Nat /\ d.i \in Nat /\ d.s <= rounds
                      /\ d.s = rounds => d.b < at + 1
  <2> TAKE d \in log
  <2>1. /\ d.s \in Nat /\ d.b \in Nat /\ d.i \in Nat /\ d.s <= rounds
        /\ d.s = rounds => d.b <= at
    BY <1>4 DEF ImageInvariant, LogInv
  <2> QED BY <1>3, <2>1
<1> QED BY <1>2, <1>3, <1>4, <1>5, <1>6, <1>7, <1>10, <1>11, <1>12 DEF frames

\* LateByOnePass, of two batches.
LateIn(batches, p, q) ==
  \A i \in batches[p], j \in batches[q] :
    LET k == j \div Positions
    IN k < i \div Positions =>
         /\ i \div Positions = k + 1
         /\ \/ \E h \in batches[p] : h \div Positions = k
            \/ /\ \A h \in batches[p] : h \div Positions > k
               /\ p > 1 /\ \E h \in batches[p - 1] : h \div Positions = k

\* "reset" and "swap": the batch is as FeedStep asks.
LEMMA FeedStepHolds ==
  ASSUME ControlInv, ImageInvariant, Feed, KeepsFront(acc), LateByOnePass
  PROVE  LET frames == FramesOf(acc, rounds, series.batches[at + 1])
         IN \E base \in Bases :
              /\ base[rounds] = acc.offset \div Positions
              /\ FeedStep(acc, base, rounds, Since, log, BatchesBehind(at + 1), frames, at + 1)
<1> DEFINE ids    == series.batches[at + 1]
           frames == FramesOf(acc, rounds, ids)
           behind == BatchesBehind(at + 1)
<1>1. /\ Feeding /\ at \in Nat /\ rounds \in Nat /\ IsAcc(acc) /\ acc.done = <<>>
      /\ series \in Series /\ at + 1 \in DOMAIN series.batches
      /\ frames # {} /\ IsFiniteSet(frames)
      /\ \A f \in frames : IsFrame(f) /\ f.g = acc.geo /\ f.s = rounds /\ f.i \in ids
      /\ \A i \in ids : i \in Nat /\ \E f \in frames : f.i = i
      /\ acc.wrap => \A f \in frames : /\ PassOf(f) = f.i \div Positions + acc.offset \div Positions
                                       /\ Pos(f) = f.i % Positions
      /\ {f.i : f \in frames} = ids
      /\ Ahead = ids \cup behind /\ behind \subseteq Nat
      /\ \A d \in log : d.s = rounds => d.b < at + 1
  BY FeedingIs
<1> HIDE DEF frames
<1>2. acc.wrap
  BY DEF ImageInvariant, KeepsFront
<1>3. PICK base \in Bases :
        /\ base[rounds] = acc.offset \div Positions /\ PassInv(acc, base, rounds, Since, log, Ahead)
        /\ acc.pass = -1 \/ \A i \in Recent : i \div Positions + base[rounds] <= acc.pass
  BY DEF ImageInvariant, PassesInv
<1>4. base[rounds] \in Nat
  BY <1>1, <1>3 DEF Bases
<1>5. \A f \in frames : PassOf(f) = f.i \div Positions + base[rounds] /\ PassOf(f) = Num(base, f)
  BY <1>1, <1>2, <1>3 DEF Num
<1>6. \A i \in Nat : i \div Positions \in Nat
  BY PositionsPositive, Quotient
<1>7. InTime(acc, base, rounds, frames, behind)
  <2> SUFFICES ASSUME NEW h \in frames, NEW j \in behind, j \div Positions + base[rounds] < PassOf(h)
               PROVE  LET n == j \div Positions + base[rounds]
                      IN /\ PassOf(h) = n + 1
                         /\ \/ \E f \in frames : PassOf(f) = n
                            \/ (\A f \in frames : PassOf(f) > n) /\ (acc.pass = -1 \/ n <= acc.pass)
    BY DEF InTime
  <2> DEFINE k == j \div Positions
             v == base[rounds]
             x == h.i \div Positions
             n == k + v
  <2>1. PICK q \in DOMAIN series.batches : q > at + 1 /\ j \in series.batches[q]
    BY DEF BatchesBehind
  <2>2. h.i \in ids /\ h.i \in Nat /\ j \in Nat /\ k \in Nat /\ v \in Nat /\ x \in Nat /\ PassOf(h) = x + v
    BY <1>1, <1>4, <1>5, <1>6
  <2>3. k < x
    <3>1. k + v < x + v
      BY <2>2
    <3> HIDE DEF k, v, x
    <3> QED BY <2>2, <3>1
  <2>4. at + 1 < q
    BY <1>1, <2>1
  <2>5. /\ x = k + 1
        /\ \/ \E g \in ids : g \div Positions = k
           \/ /\ \A g \in ids : g \div Positions > k
              /\ at + 1 > 1 /\ \E g \in series.batches[(at + 1) - 1] : g \div Positions = k
    <3> DEFINE p == at + 1
               B == series.batches
    <3>1. p \in DOMAIN B /\ q \in DOMAIN B /\ p < q /\ h.i \in B[p] /\ j \in B[q] /\ series \in Series
      BY <1>1, <2>1, <2>2, <2>4
    <3>2. \A i \in B[p], l \in B[q] :
            l \div Positions < i \div Positions =>
              /\ i \div Positions = (l \div Positions) + 1
              /\ \/ \E g \in B[p] : g \div Positions = l \div Positions
                 \/ /\ \A g \in B[p] : g \div Positions > l \div Positions
                    /\ p > 1 /\ \E g \in B[p - 1] : g \div Positions = l \div Positions
      <4>1. \A m, l \in DOMAIN B : m < l => LateIn(B, m, l)
        BY <3>1, Zenon DEF LateByOnePass, LateIn
      <4>2. LateIn(B, p, q)
        <5> HIDE DEF p, B
        <5> QED BY <3>1, <4>1
      <4> QED BY <4>2, Zenon DEF LateIn
    <3> QED BY <2>3, <3>1, <3>2
  <2>6. PassOf(h) = n + 1
    <3> HIDE DEF k, v, x
    <3> QED BY <2>2, <2>5
  <2>7. CASE \E g \in ids : g \div Positions = k
    <3>1. PICK g \in ids : g \div Positions = k
      BY <2>7
    <3>2. PICK f \in frames : f.i = g
      BY <1>1
    <3>3. PassOf(f) = n
      BY <1>5, <3>1, <3>2
    <3> QED BY <2>6, <3>3
  <2>8. CASE /\ \A g \in ids : g \div Positions > k
             /\ at + 1 > 1 /\ \E g \in series.batches[(at + 1) - 1] : g \div Positions = k
    <3>1. (at + 1) - 1 = at /\ at > 0
      BY <1>1, <2>8
    <3>2. PICK g \in series.batches[at] : g \div Positions = k
      BY <2>8, <3>1
    <3>3. g \in Recent
      BY <1>1, <3>1, <3>2 DEF Recent
    <3>4. acc.pass = -1 \/ n <= acc.pass
      BY <1>3, <3>2, <3>3
    <3>5. ASSUME NEW f \in frames PROVE PassOf(f) > n
      <4> DEFINE y == f.i \div Positions
      <4>1. y > k /\ y \in Nat /\ PassOf(f) = y + v
        BY <1>1, <1>5, <1>6, <2>8
      <4> HIDE DEF y, k, v
      <4> QED BY <2>2, <4>1
    <3> QED BY <2>6, <3>4, <3>5
  <2> QED BY <2>5, <2>7, <2>8
<1>8. FeedStep(acc, base, rounds, Since, log, behind, frames, at + 1)
  <2>1. PassInv(acc, base, rounds, Since, log, {f.i : f \in frames} \cup behind)
    BY <1>1, <1>3
  <2>2. at + 1 \in Nat /\ \A f \in frames : /\ IsFrame(f) /\ f.s = rounds /\ f.g = acc.geo
                                           /\ PassOf(f) = Num(base, f) /\ Pos(f) = f.i % Positions
    BY <1>1, <1>2, <1>5
  <2> HIDE DEF behind
  <2>3. base \in Bases /\ behind \subseteq Nat /\ \A d \in log : d.s = rounds => d.b < at + 1
    BY <1>1, <1>3 DEF behind
  <2> QED BY <1>1, <1>7, <2>1, <2>2, <2>3 DEF FeedStep
<1> QED BY <1>3, <1>8 DEF frames

\* "all" and "latest": the positions of a batch.
LEMMA FeedApart ==
  ASSUME ControlInv, ImageInvariant, Feed, OnePerPosition
  PROVE  LET frames == FramesOf(acc, rounds, series.batches[at + 1])
         IN (\A f \in frames : Pos(f) = f.i % Positions) /\ Apart(acc, frames)
<1> DEFINE ids    == series.batches[at + 1]
           frames == FramesOf(acc, rounds, ids)
<1>1. /\ IsAcc(acc) /\ rounds \in Nat /\ series \in Series /\ at + 1 \in DOMAIN series.batches
      /\ \A f \in frames : f.i \in ids
      /\ acc.wrap => \A f \in frames : Pos(f) = f.i % Positions
  BY FeedingIs
<1>2. ids \in SUBSET Nat /\ ids # {} /\ IsFiniteSet(ids)
  BY BatchIs DEF Feed
<1>3. \A f \in frames : f.a = f.i + (IF acc.wrap THEN acc.offset ELSE 0) /\ f.i \in Nat
  BY <1>1, <1>2, FramesAre DEF IsFrame
<1>4. \A f \in frames : Pos(f) = f.i % Positions
  <2>1. CASE acc.wrap
    BY <1>1, <2>1
  <2>2. CASE ~acc.wrap
    <3>1. \A f \in frames : f.a = f.i
      BY <1>3, <2>2
    <3> QED BY <3>1 DEF Pos
  <2> QED BY <2>1, <2>2
<1>5. \A f, g \in frames : f.i = g.i => f = g
  BY DEF FramesOf
<1>6. \A i, j \in ids : i % Positions = j % Positions => i = j
  BY <1>1 DEF OnePerPosition
<1> HIDE DEF ids, frames
<1>7. Apart(acc, frames)
  BY <1>1, <1>4, <1>5, <1>6 DEF Apart
<1> QED BY <1>4, <1>7 DEF frames, ids

\* What a batch has fed, up to the pass whose file could not be written.
FedOf(w, frames, disk) == IF disk THEN frames ELSE Upto(frames, w.pass)

LEMMA FeedHeld ==
  ASSUME ControlInv, ImageInvariant, Feed, OnePerPosition, ~KeepsFront(acc), NEW disk
  PROVE  LET frames == FramesOf(acc, rounds, series.batches[at + 1])
             w      == Process(acc, series.kind, frames, disk)
         IN disk \/ (Tracks(acc) /\ w.done # <<>>)
              => HeldInv(Settled(w), Since \cup Events(rounds, at + 1, FedOf(w, frames, disk)))
<1> DEFINE ids    == series.batches[at + 1]
           frames == FramesOf(acc, rounds, ids)
           w      == Process(acc, series.kind, frames, disk)
           S      == FedOf(w, frames, disk)
           b      == Settled(w)
<1> SUFFICES ASSUME disk \/ (Tracks(acc) /\ w.done # <<>>)
             PROVE  HeldInv(b, Since \cup Events(rounds, at + 1, S))
  OBVIOUS
<1>1. /\ IsAcc(acc) /\ acc.done = <<>> /\ rounds \in Nat /\ at \in Nat
      /\ frames # {} /\ IsFiniteSet(frames)
      /\ \A f \in frames : IsFrame(f) /\ f.s = rounds /\ f.g = acc.geo
      /\ \A d \in log : /\ d.s \in Nat /\ d.b \in Nat /\ d.i \in Nat /\ d.s <= rounds
                        /\ d.s = rounds => d.b < at + 1
  BY FeedingIs
<1>2. (\A f \in frames : Pos(f) = f.i % Positions) /\ Apart(acc, frames)
  BY FeedApart
<1> HIDE DEF frames
<1>3. w.front = acc.front /\ Fed(acc, w) /\ w.image = Deposited(acc, S)
  BY <1>1, <1>2, ProcessLays DEF FedOf
<1>4. S \subseteq frames
  BY DEF FedOf, Upto
<1> HIDE DEF w, S
<1>5. b.front = acc.front /\ b.image = Deposited(acc, S) /\ b.mode = acc.mode /\ b.geo = acc.geo
  BY <1>3, SettledIs DEF Fed
<1>6. /\ \A f \in S : f.s = rounds /\ f.g = acc.geo /\ Pos(f) = f.i % Positions
      /\ \A f \in S : f.i \in Nat
      /\ Apart(acc, S)
  BY <1>1, <1>2, <1>4 DEF Apart, IsFrame
<1>7. HeldInv(acc, Since) /\ at + 1 \in Nat
  BY <1>1 DEF ImageInvariant
<1>8. \A d \in Since : /\ d.s \in Nat /\ d.b \in Nat /\ d.i \in Nat /\ d.s <= rounds
                       /\ d.s = rounds => d.b < at + 1
  BY <1>1 DEF Since
<1> HIDE DEF b
<1>9. HeldInv(b, Since \cup Events(rounds, at + 1, S))
  BY <1>1, <1>5, <1>6, <1>7, <1>8, HeldGrows
<1> QED BY <1>9

LEMMA FeedPasses ==
  ASSUME ControlInv, ImageInvariant, Feed, LateByOnePass, KeepsFront(acc), NEW disk
  PROVE  LET ids    == series.batches[at + 1]
             frames == FramesOf(acc, rounds, ids)
             w      == Process(acc, series.kind, frames, disk)
             all    == Events(rounds, at + 1, FedOf(w, frames, disk))
         IN disk \/ w.done # <<>>
              => PassesInv(Settled(w), rounds, Since \cup all, log \cup all,
                           IF disk THEN BatchesBehind(at + 1) ELSE {}, IF disk THEN ids ELSE {})
<1> DEFINE ids    == series.batches[at + 1]
           frames == FramesOf(acc, rounds, ids)
           w      == Process(acc, series.kind, frames, disk)
           all    == Events(rounds, at + 1, FedOf(w, frames, disk))
           behind == BatchesBehind(at + 1)
           later  == IF disk THEN behind ELSE {}
           now    == IF disk THEN ids ELSE {}
<1> SUFFICES ASSUME disk \/ w.done # <<>>
             PROVE  PassesInv(Settled(w), rounds, Since \cup all, log \cup all, later, now)
  OBVIOUS
<1>1. /\ IsAcc(acc) /\ frames # {} /\ IsFiniteSet(frames)
      /\ \A f \in frames : IsFrame(f)
      /\ \A i \in ids : \E f \in frames : f.i = i
  BY FeedingIs
<1>2. PICK base \in Bases :
        /\ base[rounds] = acc.offset \div Positions
        /\ FeedStep(acc, base, rounds, Since, log, behind, frames, at + 1)
  BY FeedStepHolds
<1> HIDE DEF frames, behind
<1>3. Fed(acc, w) /\ IsAcc(w) /\ w.offset = acc.offset
  BY <1>1, ProcessFeeds DEF Fed
<1>4. /\ PassInv(w, base, rounds, Since \cup all, log \cup all, later)
      /\ disk => \A f \in frames : PassOf(f) <= w.pass
  <2>1. CASE disk
    BY <1>2, <2>1, ProcessKeeps DEF FedOf
  <2>2. CASE ~disk
    BY <1>2, <2>2, ProcessKeeps DEF FedOf
  <2> QED BY <2>1, <2>2
<1>5. disk => \A i \in ids : i \div Positions + base[rounds] <= w.pass
  <2> SUFFICES ASSUME disk, NEW i \in ids PROVE i \div Positions + base[rounds] <= w.pass
    OBVIOUS
  <2>1. PICK f \in frames : f.i = i
    BY <1>1
  <2>2. PassOf(f) = i \div Positions + base[rounds]
    BY <1>2, <2>1 DEF FeedStep, Num
  <2> QED BY <1>4, <2>1, <2>2
<1> HIDE DEF w, all, later
<1>6. PassInv(Settled(w), base, rounds, Since \cup all, log \cup all, later)
  BY <1>3, <1>4, SettledKeeps
<1>7. Settled(w).pass = w.pass /\ Settled(w).offset = acc.offset
  BY <1>3, SettledIs
<1> QED BY <1>2, <1>5, <1>6, <1>7 DEF PassesInv

\* A batch that cannot be stored leaves the image of "latest" as it is.
LEMMA RefusedImage ==
  ASSUME NEW a, IsAcc(a), ~KeepsFront(a),
         NEW frames, frames # {}, IsFiniteSet(frames), \A f \in frames : IsFrame(f)
  PROVE  Refused(a, frames).image = a.image /\ Refused(a, frames).front = a.front
<1> DEFINE m == Moved(a, frames)
           lo == FirstPass(frames)
           o == OpenPass(m, lo)
<1>1. IsAcc(m) /\ m.mode = a.mode /\ m.image = a.image /\ m.front = a.front
  <2>1. IsAcc(m) /\ \E x : m = [a EXCEPT !.last = x]
    BY MovedIs DEF Fed
  <2> HIDE DEF m
  <2> QED BY <2>1 DEF IsAcc
<1>2. lo \in Nat
  BY PassRange
<1> HIDE DEF m, lo
<1>3. IsAcc(o) /\ o.image = a.image /\ o.front = a.front
  BY <1>1, <1>2, OpenOther DEF Carried, KeepsFront
<1> HIDE DEF o
<1>4. \E x : Refused(a, frames) = [o EXCEPT !.start = x] \/ Refused(a, frames) = [m EXCEPT !.start = x]
  BY DEF Refused, Begun, m, o, lo
<1> QED BY <1>1, <1>3, <1>4 DEF IsAcc

LEMMA ImageOverFeed ==
  ASSUME OnePerPosition, LateByOnePass
  PROVE  ControlInv /\ ImageInvariant /\ Feed => ImageInvariant'
<1> SUFFICES ASSUME ControlInv, ImageInvariant, Feed PROVE ImageInvariant'
  OBVIOUS
<1> DEFINE ids    == series.batches[at + 1]
           frames == FramesOf(acc, rounds, ids)
           wrong  == Refused(acc, frames)
           W(disk)   == Process(acc, series.kind, frames, disk)
           all(disk) == Events(rounds, at + 1, FedOf(W(disk), frames, disk))
<1>1. UNCHANGED <<rounds, series, active, began>>
  BY DEF Feed
<1>2. /\ Feeding /\ at \in Nat /\ rounds \in Nat /\ IsAcc(acc)
      /\ frames # {} /\ IsFiniteSet(frames) /\ \A f \in frames : IsFrame(f) /\ f.i \in ids
      /\ \A i \in ids : i \in Nat
      /\ \A d \in log : /\ d.s \in Nat /\ d.b \in Nat /\ d.i \in Nat /\ d.s <= rounds
                        /\ d.s = rounds => d.b < at + 1
  BY FeedingIs
<1>3. \/ acc' = acc /\ log' = log /\ main' = "stop"
      \/ Unstorable(acc, series.kind) /\ acc' = Settled(wrong) /\ log' = log /\ main' = "stop"
      \/ \E disk \in BOOLEAN :
           /\ disk \/ (Tracks(acc) /\ W(disk).done # <<>>)
           /\ acc' = Settled(W(disk)) /\ log' = log \cup all(disk)
           /\ IF disk THEN at' = at + 1 ELSE main' = "stop"
  <2>1. \A S : log \cup Events(rounds, at + 1, S) = Logged(S)
    BY DEF Logged, Events
  <2>2. CASE acc' = acc /\ log' = log /\ main' = "stop"
    BY <2>2
  <2>3. CASE Unstorable(acc, series.kind) /\ acc' = Settled(wrong) /\ log' = log /\ main' = "stop"
    BY <2>3
  <2>4. CASE /\ Tracks(acc) /\ W(FALSE).done # <<>> /\ acc' = Settled(W(FALSE)) /\ main' = "stop"
             /\ log' = Logged({f \in frames : PassOf(f) <= W(FALSE).pass})
    <3>1. FedOf(W(FALSE), frames, FALSE) = {f \in frames : PassOf(f) <= W(FALSE).pass}
      BY DEF FedOf, Upto
    <3>2. log' = log \cup all(FALSE)
      BY <2>1, <2>4, <3>1
    <3> QED BY <2>4, <3>2
  <2>5. CASE acc' = Settled(W(TRUE)) /\ at' = at + 1 /\ log' = Logged(frames)
    <3>1. log' = log \cup all(TRUE)
      BY <2>1, <2>5 DEF FedOf
    <3> QED BY <2>5, <3>1
  <2> QED BY <2>2, <2>3, <2>4, <2>5 DEF Feed, Fail
<1>4. main' = "stop" => ~Feeding' /\ Ahead' = {} /\ Recent' = {}
  BY DEF Feeding, Ahead, Recent
<1>5. CASE acc' = acc /\ log' = log /\ main' = "stop"
  BY <1>1, <1>4, <1>5, ImageStays
<1>6. CASE Unstorable(acc, series.kind) /\ acc' = Settled(wrong) /\ log' = log /\ main' = "stop"
  <2>1. acc.mode = "latest" /\ ~KeepsFront(acc)
    BY <1>6 DEF Unstorable, KeepsFront
  <2>2. IsAcc(wrong) /\ wrong.mode = acc.mode /\ wrong.geo = acc.geo /\ wrong.wrap = acc.wrap
    BY <1>2, RefusedFeeds DEF Fed
  <2>3. wrong.image = acc.image /\ wrong.front = acc.front
    BY <1>2, <2>1, RefusedImage
  <2> HIDE DEF wrong
  <2>4. /\ acc'.image = acc.image /\ acc'.front = acc.front
        /\ acc'.mode = acc.mode /\ acc'.geo = acc.geo /\ acc'.wrap = acc.wrap
    BY <1>6, <2>2, <2>3, SettledIs
  <2>5. Since' = Since
    BY <1>1, <1>6 DEF Since
  <2>6. HeldInv(acc, Since)'
    BY <2>4, <2>5 DEF ImageInvariant, HeldInv, KeepsFront
  <2>7. PassesInv(acc', rounds', Since', log', Ahead', Recent')
    BY <2>1, <2>4 DEF PassesInv, KeepsFront
  <2>8. LogInv' /\ (began \subseteq log)' /\ (~acc.wrap => acc.mode = "all")'
    BY <1>1, <1>4, <1>6, <2>4 DEF ImageInvariant, LogInv
  <2> QED BY <2>6, <2>7, <2>8 DEF ImageInvariant
<1>7. ASSUME NEW disk \in BOOLEAN,
             disk \/ (Tracks(acc) /\ W(disk).done # <<>>),
             acc' = Settled(W(disk)), log' = log \cup all(disk),
             IF disk THEN at' = at + 1 ELSE main' = "stop"
      PROVE  ImageInvariant'
  <2> DEFINE w == W(disk)
             E == all(disk)
  <2>1. /\ acc'.mode = acc.mode /\ acc'.geo = acc.geo /\ acc'.wrap = acc.wrap
    <3>1. Fed(acc, w)
      BY <1>2, ProcessFeeds
    <3> HIDE DEF w
    <3>2. acc' = Settled(w)
      BY <1>7 DEF w
    <3> QED BY <3>1, <3>2, SettledIs DEF Fed
  <2>2. \A d \in E : d.s = rounds /\ d.b = at + 1 /\ d.i \in Nat
    <3>1. FedOf(w, frames, disk) \subseteq frames
      BY DEF FedOf, Upto
    <3>2. \A f \in FedOf(w, frames, disk) : f.i \in Nat
      BY <1>2, <3>1
    <3> QED BY <3>2 DEF Events
  <2>3. E \cap began = {}
    BY <1>2, <2>2 DEF ImageInvariant
  <2>4. HeldInv(acc', Since \cup E)
    <3>1. CASE KeepsFront(acc)
      BY <2>1, <3>1 DEF HeldInv, KeepsFront
    <3>2. CASE ~KeepsFront(acc)
      BY <1>7, <3>2, FeedHeld
    <3> QED BY <3>1, <3>2
  <2>5. PassesInv(acc', rounds, Since \cup E, log \cup E,
                  IF disk THEN BatchesBehind(at + 1) ELSE {}, IF disk THEN ids ELSE {})
    <3>1. CASE KeepsFront(acc)
      BY <1>7, <3>1, FeedPasses
    <3>2. CASE ~KeepsFront(acc)
      BY <2>1, <3>2 DEF PassesInv, KeepsFront
    <3> QED BY <3>1, <3>2
  <2> HIDE DEF E
  <2>6. Since' = Since \cup E
    BY <1>1, <1>7, <2>3 DEF Since, E
  <2>7. /\ Ahead' \subseteq IF disk THEN BatchesBehind(at + 1) ELSE {}
        /\ Recent' \subseteq IF disk THEN ids ELSE {}
    <3>1. CASE disk
      BY <1>1, <1>7, <3>1 DEF Ahead, Recent, BatchesBehind
    <3>2. CASE ~disk
      BY <1>4, <1>7, <3>2
    <3> QED BY <3>1, <3>2
  <2>8. PassesInv(acc', rounds', Since', log', Ahead', Recent')
    <3> DEFINE a == acc'
               p == IF disk THEN BatchesBehind(at + 1) ELSE {}
               q == IF disk THEN ids ELSE {}
               x == Ahead'
               y == Recent'
               s == Since \cup E
               l == log \cup E
    <3>1. PassesInv(a, rounds, s, l, p, q) /\ x \subseteq p /\ y \subseteq q
      BY <2>5, <2>7
    <3>2. rounds' = rounds /\ Since' = s /\ log' = l
      BY <1>1, <1>7, <2>6 DEF E
    <3> HIDE DEF a, p, q, x, y, s, l
    <3>3. PassesInv(a, rounds, s, l, x, y)
      BY <3>1, PassesShrink
    <3> USE DEF a, x, y
    <3> QED BY <3>2, <3>3
  <2>9. LogInv'
    <3>1. \A d \in log' : /\ d.s \in Nat /\ d.b \in Nat /\ d.i \in Nat /\ d.s <= rounds
                          /\ d.s = rounds => d.b <= at + 1
      <4>1. \A d \in log : d.s = rounds => d.b <= at + 1
        BY <1>2
      <4>2. \A d \in E : d.s \in Nat /\ d.b \in Nat /\ d.s <= rounds /\ d.b <= at + 1
        BY <1>2, <2>2 DEF E
      <4> QED BY <1>2, <1>7, <2>2, <4>1, <4>2 DEF E
    <3>2. Feeding' => at' = at + 1
      BY <1>4, <1>7
    <3> QED BY <1>1, <3>1, <3>2 DEF LogInv
  <2>10. (began \subseteq log)' /\ (~acc.wrap => acc.mode = "all")'
    BY <1>1, <1>7, <2>1 DEF ImageInvariant
  <2> QED BY <2>4, <2>6, <2>8, <2>9, <2>10 DEF ImageInvariant
<1> QED BY <1>3, <1>5, <1>6, <1>7

LEMMA ImagePreserved ==
  ASSUME OnePerPosition, LateByOnePass
  PROVE  ControlInv /\ ImageInvariant /\ [Next]_vars => ImageInvariant'
<1> SUFFICES ASSUME ControlInv, ImageInvariant, [Next]_vars PROVE ImageInvariant'
  OBVIOUS
<1>1. CASE UNCHANGED vars
  BY <1>1, ImageStays DEF vars, series_, history, Feeding
<1>2. CASE Interrupt
  BY <1>2, ImageStays DEF Interrupt, series_, history, Feeding
<1>3. CASE Exhausted
  BY <1>3, ImageStays DEF Exhausted, Fail, series_, history, Feeding
<1>4. CASE CloseReads
  BY <1>4, ImageStays DEF CloseReads, series_, Feeding
<1>5. CASE CloseSaves
  BY <1>5, ImageStays DEF CloseSaves, series_, history, Feeding
<1>6. CASE Enqueue
  BY <1>6, ImageStays DEF Enqueue, series_, history, Feeding
<1>7. CASE View
  BY <1>7, ImageStays DEF View, series_, history, Feeding
<1>8. ASSUME NEW t \in Writers, TakeFrame(t) PROVE ImageInvariant'
  BY <1>8, ImageStays DEF TakeFrame, series_, history, Feeding
<1>9. ASSUME NEW t \in Writers, PutFrame(t) PROVE ImageInvariant'
  <2>1. UNCHANGED <<acc, log, began, rounds, series, at>>
    BY <1>9 DEF PutFrame, history
  <2>2. Feeding' => Feeding
    <3>1. CASE t = "http"
      BY <1>9, <3>1 DEF PutFrame, Feeding
    <3>2. CASE t # "http"
      <4>1. main \in {"preview", "tuning", "final", "last"}
        BY <1>9, <3>2, ParallaxAssumption DEF PutFrame, Publishing
      <4>2. IF main \in {"final", "last"} THEN active' = FALSE ELSE active' = active
        BY <1>9, <3>2 DEF PutFrame
      <4> QED BY <4>1, <4>2 DEF Feeding
    <3> QED BY <3>1, <3>2
  <2> QED BY <2>1, <2>2, ImageStays
<1>10. CASE Start
  BY <1>10, ImageOverStart
<1>11. CASE Feed
  BY <1>11, ImageOverFeed
<1>12. CASE Finish
  BY <1>12, ImageOverFinish
<1>13. CASE Update
  BY <1>13, ImageOverUpdate
<1>14. CASE ApplyPending
  BY <1>14, ImageOverApplyPending
<1> QED
  BY <1>1, <1>2, <1>3, <1>4, <1>5, <1>6, <1>7, <1>8, <1>9, <1>10, <1>11, <1>12, <1>13, <1>14 DEF Next

\* The images' invariant holds of every run whose batches hold a position once, and whose images
\* are late by one pass at most.
THEOREM ImageInvariance == OnePerPosition /\ LateByOnePass => (Spec => []ImageInvariant)
<1> SUFFICES ASSUME OnePerPosition, LateByOnePass PROVE Spec => []ImageInvariant
  OBVIOUS
<1>1. Init => ImageInvariant
  BY ImageBegins
<1>2. ControlInv /\ ImageInvariant /\ [Next]_vars => ImageInvariant'
  BY ImagePreserved
<1>3. Spec => []ControlInv
  BY ControlInvariance
<1> QED
  BY <1>1, <1>2, <1>3, PTL DEF Spec

\* A set of frames of one pass is what ImagesExact asks of an image.
LEMMA PassExact ==
  ASSUME NEW base \in Bases, NEW a, NEW r, NEW since, FedInv(a, base, r, since),
         NEW frames, NEW n, NEW geo, OnlyOf(frames, n, base, since, geo),
         NEW lost, \A e \in since : Num(base, e) = n => Has(frames, e) \/ e \in lost,
         NEW f \in frames
  PROVE  /\ Has(since, f) /\ \A g \in frames : Pass(g) = Pass(f)
         /\ \A e \in since : Pass(e) = Pass(f) => Has(frames, e) \/ e \in lost
<1>1. \A g \in frames : Num(base, g) = n /\ Has(since, g)
  BY DEF OnlyOf
<1>2. \A e \in since : e.s \in Nat /\ e.i \in Nat
  BY DEF FedInv
<1>3. \A g \in frames : g.s \in Nat /\ g.i \in Nat
  BY <1>1, <1>2 DEF Has
<1>4. ASSUME NEW g \in frames PROVE Pass(g) = Pass(f)
  <2>1. PICK d \in since : d.s = g.s /\ d.i = g.i
    BY <1>1 DEF Has
  <2>2. PICK e \in since : e.s = f.s /\ e.i = f.i
    BY <1>1 DEF Has
  <2>3. Num(base, d) = n /\ Num(base, e) = n
    BY <1>1, <2>1, <2>2 DEF Num
  <2>4. ~ (d.s < e.s) /\ ~ (e.s < d.s)
    <3>1. n \in Nat
      BY <1>2, <2>3, NumIsNat
    <3>2. ~ (n < n)
      BY <3>1
    <3> QED BY <2>3, <3>2 DEF FedInv
  <2>5. g.s = f.s
    BY <1>2, <2>1, <2>2, <2>4
  <2>6. g.i \div Positions = f.i \div Positions
    <3> DEFINE x == g.i \div Positions
               y == f.i \div Positions
               v == base[f.s]
    <3>1. x \in Nat /\ y \in Nat /\ v \in Nat /\ x + v = y + v
      <4>1. x \in Nat /\ y \in Nat
        BY <1>3, PositionsPositive, Quotient
      <4>2. v \in Nat
        BY <1>3 DEF Bases
      <4>3. x + v = y + v
        BY <1>1, <2>5 DEF Num
      <4> QED BY <4>1, <4>2, <4>3
    <3> HIDE DEF x, y, v
    <3>2. x = y
      BY <3>1
    <3> QED BY <3>2 DEF x, y
  <2> QED BY <2>5, <2>6 DEF Pass
<1>5. ASSUME NEW e \in since, Pass(e) = Pass(f) PROVE Has(frames, e) \/ e \in lost
  <2>1. e.s = f.s /\ e.i \div Positions = f.i \div Positions
    BY <1>5 DEF Pass
  <2>2. Num(base, e) = n
    BY <1>1, <2>1 DEF Num
  <2> QED BY <2>2
<1> QED BY <1>1, <1>4, <1>5

LEMMA ImagesAre == ImageInvariant => ImagesExact
<1> SUFFICES ASSUME ImageInvariant PROVE ImagesExact
  OBVIOUS
<1>1. HeldInv(acc, Since) /\ PassesInv(acc, rounds, Since, log, Ahead, Recent)
  BY DEF ImageInvariant
<1>2. CASE ~KeepsFront(acc)
  <2>1. acc.front = {} /\ \A f \in acc.image : f.g = acc.geo
    BY <1>1, <1>2 DEF HeldInv
  <2>2. \A f \in acc.image \cup Completed(acc) : f.g = acc.geo
    BY <2>1 DEF Completed
  <2>3. acc.mode = "all" => Ids(acc.image) = Ids(Since)
    BY <1>1, <1>2, SameIds DEF HeldInv
  <2>4. {e \in Since : ~Replaced(e)} = Unreplaced(Since)
    BY DEF Replaced, Unreplaced
  <2>5. acc.mode = "latest" => Ids(acc.image) = Ids({e \in Since : ~Replaced(e)})
    BY <1>1, <1>2, <2>4, SameIds DEF HeldInv
  <2> QED BY <1>2, <2>2, <2>3, <2>5 DEF ImagesExact
<1>3. CASE KeepsFront(acc)
  <2>1. acc.mode # "all" /\ acc.mode # "latest"
    BY <1>3 DEF KeepsFront
  <2>2. PICK base \in Bases : PassInv(acc, base, rounds, Since, log, Ahead)
    BY <1>1, <1>3 DEF PassesInv
  <2>3. FedInv(acc, base, rounds, Since) /\ ImageInv(acc, base, Since) /\ FrontInv(acc, base, Since, log)
    BY <2>2 DEF PassInv
  <2>4. \A f \in acc.image \cup Completed(acc) : f.g = acc.geo
    BY <2>3 DEF ImageInv, FrontInv, OnlyOf, Completed
  <2> DEFINE lost == {e \in Since : acc.mode = "reset" /\ Overtaken(e, log)}
  <2>5. ASSUME NEW frames \in {acc.image} \cup {c.frames : c \in acc.front}, NEW f \in frames
        PROVE  /\ Has(Since, f) /\ \A g \in frames : Pass(g) = Pass(f)
               /\ \A e \in Since : Pass(e) = Pass(f) => Has(frames, e) \/ e \in lost
    <3>1. PICK n : /\ OnlyOf(frames, n, base, Since, acc.geo)
                   /\ \A e \in Since : Num(base, e) = n => Has(frames, e) \/ e \in lost
      <4>1. CASE frames = acc.image
        <5>1. ~acc.closed
          BY <2>3, <2>5, <4>1 DEF ImageInv
        <5>2. /\ OnlyOf(frames, acc.pass, base, Since, acc.geo)
              /\ \A e \in Since : Num(base, e) = acc.pass => Has(frames, e)
          BY <2>3, <4>1, <5>1 DEF ImageInv
        <5> QED BY <5>2
      <4>2. CASE frames # acc.image
        <5>1. PICK c \in acc.front : frames = c.frames
          BY <4>2
        <5>2. /\ OnlyOf(frames, c.pass, base, Since, acc.geo)
              /\ \A e \in Since : Num(base, e) = c.pass => Has(frames, e) \/ e \in lost
          BY <2>3, <5>1 DEF FrontInv
        <5> QED BY <5>2
      <4> QED BY <4>1, <4>2
    <3> HIDE DEF lost
    <3> QED BY <2>3, <2>5, <3>1, PassExact
  <2>6. ASSUME NEW frames \in {acc.image} \cup {c.frames : c \in acc.front}, NEW f \in frames
        PROVE  /\ [s |-> f.s, i |-> f.i] \in Ids(Since)
               /\ \A g \in frames : Pass(g) = Pass(f)
               /\ \A e \in Since :
                    Pass(e) = Pass(f) =>
                      \/ [s |-> e.s, i |-> e.i] \in Ids(frames)
                      \/ acc.mode = "reset" /\ \E d \in log : Earlier(d, e) /\ NewerPass(Pass(d), Pass(e))
    <3>1. [s |-> f.s, i |-> f.i] \in Ids(Since)
      BY <2>5, HasId
    <3>2. ASSUME NEW e \in Since, Pass(e) = Pass(f)
          PROVE  \/ [s |-> e.s, i |-> e.i] \in Ids(frames)
                 \/ acc.mode = "reset" /\ \E d \in log : Earlier(d, e) /\ NewerPass(Pass(d), Pass(e))
      BY <2>5, <3>2, HasId DEF Overtaken
    <3> QED BY <2>5, <3>1, <3>2
  <2> QED BY <2>1, <2>4, <2>6 DEF ImagesExact
<1> QED BY <1>2, <1>3

\* An image is what its mode says it is, whatever was switched, retuned or interrupted before:
\* every frame since it was begun, the newest of each position, or those of one pass.
THEOREM ImageIsExact == OnePerPosition /\ LateByOnePass => (Spec => []ImagesExact)
<1> SUFFICES ASSUME OnePerPosition, LateByOnePass PROVE Spec => []ImagesExact
  OBVIOUS
<1>1. Spec => []ImageInvariant
  BY ImageInvariance
<1>2. ImageInvariant => ImagesExact
  BY ImagesAre
<1> QED
  BY <1>1, <1>2, PTL

-----------------------------------------------------------------------------
(* The passes that a batch completes, and what is saved of each.            *)

LEMMA SetOfAppend ==
  ASSUME NEW S, NEW q \in Seq(S), NEW x
  PROVE  ToSet(Append(q, x)) = ToSet(q) \cup {x} /\ Append(q, x) \in Seq(S \cup {x})
<1>1. q \in Seq(S \cup {x})
  <2>1. Len(q) \in Nat /\ DOMAIN q = 1 .. Len(q) /\ \A j \in 1 .. Len(q) : q[j] \in S \cup {x}
    OBVIOUS
  <2>2. q = [j \in 1 .. Len(q) |-> q[j]]
    OBVIOUS
  <2> QED BY <2>1, <2>2
<1>2. /\ Append(q, x) \in Seq(S \cup {x}) /\ Len(q) \in Nat
      /\ DOMAIN q = 1 .. Len(q) /\ DOMAIN Append(q, x) = 1 .. (Len(q) + 1)
      /\ \A j \in 1 .. Len(q) : Append(q, x)[j] = q[j]
      /\ Append(q, x)[Len(q) + 1] = x
  BY <1>1
<1>3. ToSet(Append(q, x)) = {Append(q, x)[j] : j \in 1 .. (Len(q) + 1)} /\ ToSet(q) = {q[j] : j \in 1 .. Len(q)}
  BY <1>2 DEF ToSet
<1> DEFINE n == Len(q)
           y == Append(q, x)
<1>4. n \in Nat /\ (\A j \in 1 .. n : y[j] = q[j]) /\ y[n + 1] = x
  BY <1>2
<1> HIDE DEF n, y
<1>5. {y[j] : j \in 1 .. (n + 1)} = {q[j] : j \in 1 .. n} \cup {x}
  <2>1. 1 .. (n + 1) = (1 .. n) \cup {n + 1}
    BY <1>4
  <2>2. {y[j] : j \in 1 .. (n + 1)} = {y[j] : j \in 1 .. n} \cup {y[n + 1]}
    BY <2>1
  <2>3. {y[j] : j \in 1 .. n} = {q[j] : j \in 1 .. n}
    BY <1>4
  <2> QED BY <1>4, <2>2, <2>3
<1> QED BY <1>2, <1>3, <1>5 DEF n, y

IsSeq(q) == \E S : q \in Seq(S)

\* What the image holds of pass q behind it, when frames have been put to accumulator m.
Content(m, frames, q) ==
  IF KeepsFront(m) THEN (IF q = m.pass THEN m.image ELSE {}) \cup InPass(frames, q)
                   ELSE Deposited(m, Upto(frames, q))

\* A pass of the batch, or the one that was running.
Passed(m, frames, q) == (q = m.pass /\ ~m.closed) \/ (q > m.pass /\ InPass(frames, q) # {})

\* An accumulator that takes frames, none of them of a closed pass.
FileStep(m, frames) ==
  /\ IsAcc(m) /\ m.done = <<>> /\ \A f \in frames : IsFrame(f)
  /\ Apart(m, frames) /\ (m.closed => m.pass >= 0 /\ \A f \in frames : PassOf(f) > m.pass)
  /\ KeepsFront(m) /\ (m.pass = -1 \/ m.closed) => m.image = {}
  /\ ~KeepsFront(m) => m.front = {}

\* Behind pass k: every pass before the running one is in a file of its number.
Filing(a, k, m, frames) ==
  LET some == Upto(frames, k)
  IN /\ Carried(m, a) /\ IsSeq(a.done) /\ a.pass >= m.pass
     /\ \A f \in some : PassOf(f) <= a.pass
     /\ a.pass = m.pass \/ \E f \in some : PassOf(f) = a.pass
     /\ some = {} => a = m
     /\ some # {} => ~a.closed
     /\ KeepsFront(m) /\ ~a.closed /\ a.pass >= 0 => a.image = Content(m, some, a.pass)
     /\ ~KeepsFront(m) => Laid(a, k, m, frames, TRUE)
     /\ \A x \in ToSet(a.done) : x.pass \in Int /\ x.pass >= m.pass /\ (x.pass = m.pass => ~m.closed) /\ x.pass < a.pass
     /\ m.filed => \A q \in Nat : q < a.pass /\ Passed(m, frames, q) =>
                     \E x \in ToSet(a.done) : x.pass = q /\ x.frames = Content(m, frames, q)

\* What ClosePass appends.
LEMMA CloseFiles ==
  ASSUME NEW a, IsAcc(a), ~KeepsFront(a) => a.front = {}
  PROVE  LET b == ClosePass(a)
         IN /\ KeepsFront(a) => b.image = {}
            /\ ~KeepsFront(a) => b.image = a.image
            /\ b.done = IF a.filed THEN Append(a.done, [pass |-> a.pass, frames |-> a.image]) ELSE a.done
<1> DEFINE c == [pass |-> a.pass, frames |-> a.image]
           kept == [a EXCEPT !.front = {c}, !.image = {}, !.start = NoId]
           now == IF KeepsFront(a) THEN kept ELSE a
           x == [pass |-> a.pass, frames |-> Completed(now)]
<1>1. ClosePass(a) = [now EXCEPT !.closed = TRUE, !.done = IF a.filed THEN Append(@, x) ELSE @]
  BY DEF ClosePass
<1>2. kept.image = {} /\ kept.front = {c} /\ kept.done = a.done /\ {"closed", "done", "image"} \subseteq DOMAIN kept
  BY DEF IsAcc
<1>3. Completed(now) = a.image
  <2>1. CASE KeepsFront(a)
    <3>1. c.frames = a.image
      OBVIOUS
    <3>2. now.front = {c}
      BY <1>2, <2>1
    <3> HIDE DEF now, c
    <3>3. Completed(now) = UNION {d.frames : d \in {c}}
      BY <3>2 DEF Completed
    <3>4. UNION {d.frames : d \in {c}} = c.frames
      OBVIOUS
    <3> QED BY <3>1, <3>3, <3>4
  <2>2. CASE ~KeepsFront(a)
    BY <2>2 DEF Completed
  <2> QED BY <2>1, <2>2
<1>4. /\ KeepsFront(a) => now.image = {}
      /\ ~KeepsFront(a) => now.image = a.image
      /\ now.done = a.done /\ {"closed", "done", "image"} \subseteq DOMAIN now
  BY <1>2 DEF IsAcc
<1>5. x = [pass |-> a.pass, frames |-> a.image]
  BY <1>3
<1> HIDE DEF now, x
<1> QED BY <1>1, <1>4, <1>5

\* A newer pass is opened.
LEMMA OpenFiles ==
  ASSUME NEW a, IsAcc(a), ~KeepsFront(a) => a.front = {}, NEW k \in Nat, k > a.pass,
         KeepsFront(a) /\ (a.pass = -1 \/ a.closed) => a.image = {}
  PROVE  LET b == OpenPass(a, k)
             x == [pass |-> a.pass, frames |-> a.image]
         IN /\ b.pass = k /\ b.closed = FALSE
            /\ KeepsFront(a) => b.image = {}
            /\ ~KeepsFront(a) => b.image = a.image
            /\ b.done = IF a.filed /\ a.pass >= 0 /\ ~a.closed THEN Append(a.done, x) ELSE a.done
<1> DEFINE o == IF Closes(a, k) THEN ClosePass(a) ELSE a
           x == [pass |-> a.pass, frames |-> a.image]
<1>1. OpenPass(a, k) = [o EXCEPT !.pass = k, !.closed = FALSE]
  BY DEF OpenPass, IsAcc
<1>2. Closes(a, k) <=> a.pass >= 0 /\ ~a.closed
  BY DEF Closes
<1>3. {"pass", "closed", "image", "done"} \subseteq DOMAIN o
  <2>1. IsAcc(ClosePass(a))
    BY ClosePassCarries DEF Carried
  <2> QED BY <2>1 DEF IsAcc
<1>4. /\ KeepsFront(a) => o.image = {}
      /\ ~KeepsFront(a) => o.image = a.image
      /\ o.done = IF a.filed /\ a.pass >= 0 /\ ~a.closed THEN Append(a.done, x) ELSE a.done
  <2>1. CASE Closes(a, k)
    <3>1. o = ClosePass(a)
      BY <2>1
    <3> HIDE DEF o
    <3> QED BY <1>2, <2>1, <3>1, CloseFiles
  <2>2. CASE ~Closes(a, k)
    <3>1. a.pass = -1 \/ a.closed
      BY <1>2, <2>2 DEF IsAcc
    <3> QED BY <1>2, <2>2, <3>1
  <2> QED BY <2>1, <2>2
<1> HIDE DEF o, x
<1> QED BY <1>1, <1>3, <1>4 DEF x

\* The next pass of the batch.
LEMMA UptoNext ==
  ASSUME NEW frames, \A f \in frames : IsFrame(f), NEW k \in Nat
  PROVE  Upto(frames, k) = Upto(frames, k - 1) \cup InPass(frames, k)
<1>1. \A f \in frames : PassOf(f) <= k <=> (PassOf(f) <= k - 1 \/ PassOf(f) = k)
  BY PassIsNat
<1> QED BY <1>1 DEF Upto, InPass

\* What the image of a running pass q holds does not depend on later passes.
LEMMA ContentUpto ==
  ASSUME NEW m, NEW frames, \A f \in frames : IsFrame(f), NEW k \in Nat, NEW q \in Int, q <= k
  PROVE  Content(m, Upto(frames, k), q) = Content(m, frames, q)
<1>1. \A f \in frames : PassOf(f) <= q => PassOf(f) <= k
  BY PassIsNat
<1>2. \A f \in frames : PassOf(f) = q => PassOf(f) <= k
  OBVIOUS
<1> QED BY <1>1, <1>2 DEF Content, Upto, InPass

LEMMA FilingNext ==
  ASSUME NEW m, NEW frames, FileStep(m, frames), NEW k \in Nat, NEW a, Filing(a, k - 1, m, frames)
  PROVE  Filing(TakePass(a, k, frames, TRUE), k, m, frames)
<1> DEFINE b == TakePass(a, k, frames, TRUE)
           F == InPass(frames, k)
           old == Upto(frames, k - 1)
           some == Upto(frames, k)
           x == [pass |-> a.pass, frames |-> a.image]
<1>1. /\ Carried(m, a) /\ IsAcc(a) /\ IsSeq(a.done) /\ a.mode = m.mode /\ a.filed = m.filed
      /\ a.pass \in Int /\ m.pass \in Int /\ a.pass >= -1 /\ m.pass >= -1 /\ a.pass >= m.pass
      /\ (KeepsFront(a) <=> KeepsFront(m))
      /\ \A f \in old : PassOf(f) <= a.pass
      /\ a.pass = m.pass \/ \E f \in old : PassOf(f) = a.pass
      /\ old = {} => a = m
      /\ old # {} => ~a.closed
  BY DEF Filing, Carried, FileStep, IsAcc, KeepsFront
<1>2. \A f \in frames : PassOf(f) \in Nat /\ IsFrame(f)
  BY PassIsNat DEF FileStep
<1>3. some = old \cup F
  BY <1>2, UptoNext
<1>4. ~KeepsFront(m) => Laid(b, k, m, frames, TRUE)
  <2>1. Laid(a, k - 1, m, frames, TRUE) => Laid(b, k, m, frames, TRUE) \/ KeepsFront(m)
    BY <1>2, LaidNext DEF FileStep
  <2> QED BY <2>1 DEF Filing
<1>5. CASE F = {}
  <2>1. b = a
    BY <1>5 DEF TakePass
  <2>2. some = old
    BY <1>3, <1>5
  <2>3. ~KeepsFront(m) => Laid(a, k, m, frames, TRUE)
    BY <1>4, <2>1
  <2> HIDE DEF b, some, old
  <2>4. Filing(a, k, m, frames)
    BY <2>2, <2>3 DEF Filing, some, old
  <2> QED BY <2>1, <2>4 DEF b
<1>6. CASE F # {}
  <2>1. b = AcceptPass(a, k, F)
    BY <1>6 DEF TakePass
  <2>2. \A f \in F : f \in frames /\ PassOf(f) = k
    BY DEF InPass
  <2>3. Carried(a, b) /\ Carried(m, b)
    <3>1. Carried(a, b)
      BY <1>1, <1>2, <2>1, <2>2, AcceptPassCarries
    <3> QED BY <1>1, <3>1 DEF Carried
  <2>4. some # {}
    BY <1>3, <1>6
  <2>5. a.closed => a = m /\ k > a.pass
    <3> SUFFICES ASSUME a.closed PROVE a = m /\ k > a.pass
      OBVIOUS
    <3>1. a = m
      BY <1>1
    <3>2. PICK f \in F : TRUE
      BY <1>6
    <3> QED BY <2>2, <3>1, <3>2 DEF FileStep
  <2>6. a.pass = -1 => a = m
    <3> SUFFICES ASSUME a.pass = -1, NEW f \in old PROVE FALSE
      BY <1>1
    <3>1. PassOf(f) \in Nat /\ PassOf(f) <= a.pass
      BY <1>1, <1>2 DEF Upto
    <3> QED BY <3>1
  <2>7. /\ \A y \in ToSet(a.done) : /\ y.pass \in Int /\ y.pass >= m.pass
                                    /\ (y.pass = m.pass => ~m.closed) /\ y.pass < a.pass
        /\ m.filed => \A q \in Nat : q < a.pass /\ Passed(m, frames, q) =>
                        \E y \in ToSet(a.done) : y.pass = q /\ y.frames = Content(m, frames, q)
    BY DEF Filing
  <2>8. CASE k > a.pass
    <3> DEFINE o == OpenPass(a, k)
    <3>1. ~KeepsFront(a) => a.front = {}
      BY <1>1 DEF Filing, Laid, FileStep
    <3>2. KeepsFront(a) /\ (a.pass = -1 \/ a.closed) => a.image = {}
      BY <1>1, <2>5, <2>6 DEF FileStep
    <3>3. /\ o.pass = k /\ o.closed = FALSE
          /\ KeepsFront(a) => o.image = {}
          /\ o.done = IF a.filed /\ a.pass >= 0 /\ ~a.closed THEN Append(a.done, x) ELSE a.done
      BY <1>1, <2>8, <3>1, <3>2, OpenFiles
    <3>4. IsAcc(o) /\ o.mode = a.mode
      BY <1>1, OpenPassCarries DEF Carried
    <3>5. b = Deposit(o, F)
      <4>1. ~ (k < o.pass \/ o.closed)
        BY <3>3
      <4>2. AcceptPass(a, k, F) = IF k < o.pass \/ o.closed THEN Late(o, F) ELSE Deposit(o, F)
        BY DEF AcceptPass
      <4> HIDE DEF o, F, b
      <4> QED BY <2>1, <4>1, <4>2
    <3> HIDE DEF o, b, F
    <3>6. b.pass = k /\ b.closed = FALSE /\ b.done = o.done /\ b.image = Held(o, F) \cup F
      BY <3>3, <3>4, <3>5, DepositIs
    <3> USE DEF F
    <3>7. KeepsFront(m) => b.image = Content(m, some, k)
      <4> SUFFICES ASSUME KeepsFront(m) PROVE b.image = Content(m, some, k)
        OBVIOUS
      <4>1. o.image = {} /\ k # m.pass
        BY <1>1, <2>8, <3>3
      <4>2. b.image = F
        BY <3>6, <4>1 DEF Held
      <4>3. InPass(some, k) = F
        BY DEF InPass, Upto
      <4> QED BY <4>1, <4>2, <4>3 DEF Content
    <3>8. \A f \in some : PassOf(f) <= k
      BY DEF Upto
    <3>9. \E f \in some : PassOf(f) = k
      BY <1>3, <1>6, <2>2
    <3>10. /\ IsSeq(b.done)
           /\ ToSet(b.done) = IF a.filed /\ a.pass >= 0 /\ ~a.closed THEN ToSet(a.done) \cup {x} ELSE ToSet(a.done)
      <4>1. PICK S : a.done \in Seq(S)
        BY <1>1 DEF IsSeq
      <4>2. ToSet(Append(a.done, x)) = ToSet(a.done) \cup {x} /\ Append(a.done, x) \in Seq(S \cup {x})
        <5> HIDE DEF x
        <5> QED BY <4>1, SetOfAppend
      <4> HIDE DEF x
      <4> QED BY <1>1, <3>3, <3>6, <4>2 DEF IsSeq
    <3>11. x.pass = a.pass /\ x.frames = a.image
      OBVIOUS
    <3>12. a.pass = m.pass /\ ~a.closed => ~m.closed
      <4> SUFFICES ASSUME a.pass = m.pass, ~a.closed, m.closed PROVE FALSE
        OBVIOUS
      <4>1. PICK f \in old : TRUE
        BY <1>1
      <4>2. PassOf(f) \in Nat /\ PassOf(f) > m.pass /\ PassOf(f) <= m.pass
        BY <1>1, <1>2, <4>1 DEF FileStep, Upto
      <4> QED BY <1>1, <4>2
    <3>13. \A y \in ToSet(b.done) : /\ y.pass \in Int /\ y.pass >= m.pass
                                    /\ (y.pass = m.pass => ~m.closed) /\ y.pass < k
      <4> TAKE y \in ToSet(b.done)
      <4>1. CASE y \in ToSet(a.done)
        BY <1>1, <2>7, <2>8, <4>1
      <4>2. CASE y = x /\ ~a.closed
        BY <1>1, <2>8, <3>11, <3>12, <4>2
      <4> HIDE DEF x
      <4> QED BY <3>10, <4>1, <4>2
    <3>14. ASSUME m.filed, NEW q \in Nat, q < k, Passed(m, frames, q)
           PROVE  \E y \in ToSet(b.done) : y.pass = q /\ y.frames = Content(m, frames, q)
      <4>1. CASE q < a.pass
        BY <2>7, <3>10, <3>14, <4>1
      <4>2. CASE q = a.pass
        <5>1. ~a.closed
          <6> SUFFICES ASSUME a.closed PROVE FALSE
            OBVIOUS
          <6>1. a = m
            BY <2>5
          <6> QED BY <1>1, <3>14, <4>2, <6>1 DEF Passed
        <5>2. x \in ToSet(b.done)
          BY <1>1, <3>10, <3>14, <4>2, <5>1
        <5>3. a.image = Content(m, old, q)
          <6>1. CASE KeepsFront(m)
            BY <4>2, <5>1, <6>1 DEF Filing
          <6>2. CASE ~KeepsFront(m)
            <7>1. a.image = Deposited(m, old)
              BY <6>2 DEF Filing, Laid
            <7>2. Upto(old, q) = old
              BY <1>1, <4>2 DEF Upto
            <7> HIDE DEF old
            <7> QED BY <6>2, <7>1, <7>2 DEF Content
          <6> QED BY <6>1, <6>2
        <5>4. k - 1 \in Nat /\ q <= k - 1
          BY <3>14
        <5>5. Content(m, old, q) = Content(m, frames, q)
          BY <1>2, <5>4, ContentUpto
        <5> HIDE DEF x
        <5> QED BY <3>11, <4>2, <5>2, <5>3, <5>5
      <4>3. CASE q > a.pass
        <5>1. q > m.pass /\ InPass(frames, q) # {}
          BY <1>1, <3>14, <4>3 DEF Passed
        <5>2. PICK f \in frames : PassOf(f) = q
          BY <5>1 DEF InPass
        <5>3. f \in old
          BY <3>14, <5>2 DEF Upto
        <5>4. q <= a.pass
          BY <1>1, <5>2, <5>3
        <5> QED BY <1>1, <4>3, <5>4
      <4> QED BY <1>1, <4>1, <4>2, <4>3
    <3>15. b.pass >= m.pass
      BY <1>1, <2>8, <3>6
    <3> HIDE DEF some
    <3>16. Filing(b, k, m, frames)
      BY <1>4, <2>3, <2>4, <3>6, <3>7, <3>8, <3>9, <3>10, <3>13, <3>14, <3>15 DEF Filing, some
    <3> QED BY <3>16 DEF b
  <2>9. CASE ~ (k > a.pass)
    <3>1. ~a.closed
      BY <2>5, <2>9
    <3>2. OpenPass(a, k) = a
      BY <1>1, <2>9 DEF OpenPass
    <3>3. b = IF k < a.pass THEN Late(a, F) ELSE Deposit(a, F)
      BY <2>1, <3>1, <3>2 DEF AcceptPass
    <3>4. b.pass = a.pass /\ b.closed = FALSE /\ b.done = a.done
          /\ (KeepsFront(m) => b.image = IF k < a.pass THEN a.image ELSE a.image \cup F)
      <4>1. ~Closes(a, k)
        BY <2>9 DEF Closes
      <4>2. b.done = a.done
        <5>1. AcceptPass(a, k, F).done = a.done
          <6> HIDE DEF F
          <6> QED BY <1>1, <4>1, AcceptPassDone
        <5> QED BY <2>1, <5>1
      <4>3. LET d == Deposit(a, F)
            IN /\ d.pass = a.pass /\ d.closed = a.closed
               /\ d.image = Held(a, F) \cup F
        BY <1>1, DepositIs
      <4>4. KeepsFront(m) => Held(a, F) = a.image
        BY <1>1 DEF Held, KeepsFront
      <4>5. LET l == Late(a, F)
            IN /\ l.pass = a.pass /\ l.closed = a.closed
               /\ KeepsFront(m) => l.image = a.image
        <5>1. CASE a.mode = "swap"
          <6>1. \E y : Late(a, F) = [a EXCEPT !.front = y]
            BY <5>1 DEF Late
          <6> QED BY <1>1, <6>1 DEF IsAcc
        <5>2. CASE a.mode = "reset"
          BY <5>2 DEF Late
        <5>3. CASE a.mode \notin {"swap", "reset"}
          BY <1>1, <4>3, <5>3 DEF Late, KeepsFront
        <5> QED BY <5>1, <5>2, <5>3
      <4>6. a.closed = FALSE
        BY <1>1, <3>1 DEF IsAcc
      <4> HIDE DEF b, F
      <4> QED BY <3>3, <4>2, <4>3, <4>4, <4>5, <4>6
    <3>5. KeepsFront(m) /\ a.pass >= 0 => b.image = Content(m, some, a.pass)
      <4> SUFFICES ASSUME KeepsFront(m), a.pass >= 0 PROVE b.image = Content(m, some, a.pass)
        OBVIOUS
      <4>1. a.image = Content(m, old, a.pass)
        BY <3>1 DEF Filing
      <4>2. InPass(some, a.pass) = InPass(old, a.pass) \cup InPass(F, a.pass)
        BY <1>3 DEF InPass
      <4>3. CASE k < a.pass
        <5>1. InPass(F, a.pass) = {}
          BY <1>1, <2>2, <4>3 DEF InPass
        <5> HIDE DEF F, old, some
        <5> QED BY <3>4, <4>1, <4>2, <4>3, <5>1 DEF Content
      <4>4. CASE ~ (k < a.pass)
        <5>1. k = a.pass
          BY <1>1, <2>9, <4>4
        <5>2. InPass(F, a.pass) = F
          BY <2>2, <5>1 DEF InPass
        <5> HIDE DEF F, old, some
        <5> QED BY <3>4, <4>1, <4>2, <4>4, <5>2 DEF Content
      <4> QED BY <4>3, <4>4
    <3>6. \A f \in some : PassOf(f) <= a.pass
      <4> TAKE f \in some
      <4>1. CASE f \in old
        BY <1>1, <4>1
      <4>2. CASE f \in F
        BY <1>1, <2>2, <2>9, <4>2
      <4> QED BY <1>3, <4>1, <4>2
    <3>7. a.pass = m.pass \/ \E f \in some : PassOf(f) = a.pass
      BY <1>1, <1>3
    <3> HIDE DEF b, some
    <3>8. Filing(b, k, m, frames)
      BY <1>1, <1>4, <2>3, <2>4, <2>7, <3>4, <3>5, <3>6, <3>7 DEF Filing, some
    <3> QED BY <3>8 DEF b
  <2> QED BY <2>8, <2>9
<1> QED BY <1>5, <1>6

\* What a whole batch has done to the passes of accumulator a.
Completes(w, a, frames) ==
  /\ ~w.closed /\ w.pass >= a.pass /\ \A f \in frames : PassOf(f) <= w.pass
  /\ w.pass = a.pass \/ \E f \in frames : PassOf(f) = w.pass
  /\ \A x \in ToSet(w.done) : x.pass \in Int /\ x.pass >= a.pass /\ (x.pass = a.pass => ~a.closed) /\ x.pass < w.pass
  /\ a.filed => \A q \in Nat : q < w.pass /\ Passed(a, frames, q) =>
                  \E x \in ToSet(w.done) : x.pass = q /\ x.frames = Content(a, frames, q)

LEMMA BatchFiles ==
  ASSUME NEW m, NEW frames, FileStep(m, frames), frames # {},
         NEW lo \in Nat, NEW hi \in Nat, lo <= hi, \A f \in frames : PassOf(f) \in lo .. hi
  PROVE  Completes(TakePasses(m, lo, hi, frames, TRUE), m, frames)
<1> DEFINE disk == TRUE
<1>0. lo \in Int /\ hi \in Int /\ lo - 1 <= hi
  OBVIOUS
<1> HIDE DEF disk
<1>1. PICK g : Behind(g, m, lo, hi, frames, disk) /\ TakePasses(m, lo, hi, frames, disk) = g[hi]
  BY <1>0, PassByPass
<1> USE DEF disk
<1> DEFINE S == {k \in (lo - 1) .. hi : Filing(g[k], k, m, frames)}
<1>2. lo - 1 \in S
  <2>1. g[lo - 1] = m
    BY <1>1 DEF Behind
  <2>2. Upto(frames, lo - 1) = {}
    <3>1. \A f \in frames : ~ (PassOf(f) <= lo - 1)
      OBVIOUS
    <3> QED BY <3>1 DEF Upto
  <2>3. IsAcc(m) /\ m.done = <<>> /\ m.pass \in Int
    BY DEF FileStep, IsAcc
  <2>4. IsSeq(m.done) /\ ToSet(m.done) = {}
    <3>1. <<>> \in Seq({}) /\ DOMAIN <<>> = {}
      OBVIOUS
    <3> QED BY <2>3, <3>1 DEF IsSeq, ToSet
  <2>5. KeepsFront(m) => m.image = Content(m, {}, m.pass)
    BY DEF Content, InPass
  <2>6. Laid(m, lo - 1, m, frames, TRUE)
    <3>1. Deposited(m, {}) = m.image
      BY DEF Deposited, Held
    <3> QED BY <2>2, <2>3, <3>1 DEF Laid, Carried
  <2>7. \A q \in Nat : ~ (q < m.pass /\ Passed(m, frames, q))
    BY <2>3 DEF Passed
  <2>8. Carried(m, m)
    BY <2>3 DEF Carried
  <2>9. Filing(m, lo - 1, m, frames)
    <3> DEFINE k == lo - 1
    <3>1. Upto(frames, k) = {} /\ Laid(m, k, m, frames, TRUE)
      BY <2>2, <2>6
    <3>2. m.pass >= m.pass
      BY <2>3
    <3> HIDE DEF k
    <3>3. Filing(m, k, m, frames)
      BY <2>4, <2>5, <2>7, <2>8, <3>1, <3>2 DEF Filing
    <3> QED BY <3>3 DEF k
  <2> QED BY <2>1, <2>9
<1>3. ASSUME NEW k \in lo .. hi, k - 1 \in S PROVE k \in S
  <2>1. g[k] = TakePass(g[k - 1], k, frames, TRUE)
    BY <1>1 DEF Behind
  <2>2. k \in Nat /\ k \in (lo - 1) .. hi
    OBVIOUS
  <2>3. Filing(g[k - 1], k - 1, m, frames)
    BY <1>3
  <2>4. Filing(g[k], k, m, frames)
    BY <2>1, <2>2, <2>3, FilingNext
  <2> QED BY <2>2, <2>4
<1> HIDE DEF S
<1>4. hi \in S
  BY <1>2, <1>3, Climb
<1>5. Upto(frames, hi) = frames
  BY DEF Upto
<1>6. Filing(g[hi], hi, m, frames)
  BY <1>4 DEF S
<1> DEFINE w == g[hi]
<1>7. Filing(w, hi, m, frames)
  BY <1>6
<1> HIDE DEF w
<1>8. Completes(w, m, frames)
  BY <1>5, <1>7 DEF Filing, Completes
<1> QED BY <1>1, <1>8 DEF w

\* The cursor is where it was, or on a frame of the batch.
LEMMA MovedLast ==
  ASSUME NEW a, IsAcc(a), NEW frames, frames # {}, IsFiniteSet(frames), \A f \in frames : IsFrame(f)
  PROVE  Moved(a, frames).last = a.last \/ \E f \in frames : Moved(a, frames).last = f.a
<1> DEFINE S == {a.last} \cup {f.a : f \in frames}
           h == [f \in frames |-> f.a]
           T == {f.a : f \in frames}
<1>1. S \in SUBSET Int /\ S # {}
  BY DEF IsAcc, IsFrame
<1>2. IsFiniteSet(T)
  <2>1. h \in Surjection(frames, T)
    BY DEF Surjection
  <2> HIDE DEF h, T
  <2> QED BY <2>1, FS_Surjection
<1>3. IsFiniteSet(S)
  <2>1. IsFiniteSet({a.last})
    BY FS_Singleton
  <2> HIDE DEF T
  <2>2. IsFiniteSet({a.last} \cup T)
    BY <1>2, <2>1, FS_Union
  <2> QED BY <2>2 DEF T
<1>4. Max(S) \in S
  BY <1>1, <1>3, Greatest
<1>5. Moved(a, frames).last = Max(S)
  BY DEF Moved, IsAcc
<1> QED BY <1>4, <1>5

LEMMA ProcessMoves ==
  ASSUME NEW a, IsAcc(a), NEW kind, NEW disk,
         NEW frames, frames # {}, IsFiniteSet(frames), \A f \in frames : IsFrame(f)
  PROVE  LET w == Process(a, kind, frames, disk)
         IN /\ w.last \in Nat /\ a.last <= w.last /\ \A f \in frames : f.a <= w.last
            /\ w.last = a.last \/ \E f \in frames : w.last = f.a
<1> DEFINE m == MovedFor(a, kind, frames)
           w == Process(a, kind, frames, disk)
           lo == FirstPass(frames)
           hi == FinalPass(frames)
<1>1. IsAcc(m) /\ m.last \in Nat /\ a.last <= m.last /\ \A f \in frames : f.a <= m.last
  BY MovedForIs
<1>2. m.last = a.last \/ \E f \in frames : m.last = f.a
  <2> DEFINE v == Moved(a, frames)
  <2>1. v.last = a.last \/ \E f \in frames : v.last = f.a
    BY MovedLast
  <2>2. IsAcc(v)
    BY MovedIs DEF Fed
  <2>3. \E x : m = [v EXCEPT !.kind = x]
    BY DEF MovedFor
  <2> HIDE DEF v, m
  <2>4. m.last = v.last
    BY <2>2, <2>3 DEF IsAcc
  <2> QED BY <2>1, <2>4
<1>3. lo \in Nat /\ hi \in Nat /\ lo <= hi
  BY PassRange
<1>4. w = IF Tracks(a) THEN TakePasses(m, lo, hi, frames, disk) ELSE Deposit(m, frames)
  BY ProcessIs
<1> HIDE DEF m, lo, hi, w
<1>5. Carried(m, w)
  BY <1>1, <1>3, <1>4, TakePassesCarries, DepositCarries
<1>6. w.last = m.last
  BY <1>5 DEF Carried
<1> QED BY <1>1, <1>2, <1>6 DEF w

LEMMA ProcessFiles ==
  ASSUME NEW a, Tracks(a), NEW kind, NEW frames, FileStep(a, frames), frames # {}, IsFiniteSet(frames)
  PROVE  Completes(Process(a, kind, frames, TRUE), a, frames)
<1> DEFINE m == MovedFor(a, kind, frames)
           w == Process(a, kind, frames, TRUE)
           lo == FirstPass(frames)
           hi == FinalPass(frames)
<1>1. IsAcc(a) /\ \A f \in frames : IsFrame(f)
  BY DEF FileStep
<1>2. /\ IsAcc(m) /\ m.mode = a.mode /\ m.filed = a.filed
      /\ m.done = a.done /\ m.image = a.image /\ m.front = a.front
      /\ m.pass = a.pass /\ m.closed = a.closed
  BY <1>1, MovedForIs
<1>3. lo \in Nat /\ hi \in Nat /\ lo <= hi /\ \A f \in frames : PassOf(f) \in lo .. hi
  BY <1>1, PassRange
<1>4. w = TakePasses(m, lo, hi, frames, TRUE)
  BY ProcessIs
<1> HIDE DEF m, lo, hi, w
<1>5. FileStep(m, frames)
  BY <1>2 DEF FileStep, KeepsFront, Apart
<1>6. Completes(w, m, frames)
  BY <1>3, <1>4, <1>5, BatchFiles
<1>7. \A q : Content(m, frames, q) = Content(a, frames, q) /\ (Passed(m, frames, q) <=> Passed(a, frames, q))
  BY <1>2 DEF Content, Passed, KeepsFront, Deposited, Held
<1>8. Completes(w, a, frames)
  BY <1>2, <1>6, <1>7 DEF Completes
<1> QED BY <1>8 DEF w

\* The running pass is the cursor's.
LEMMA PassFollows ==
  ASSUME NEW a, IsAcc(a), a.pass = (IF a.last < 0 THEN -1 ELSE a.last \div Positions),
         NEW frames, \A f \in frames : IsFrame(f), NEW w, w.pass \in Int,
         w.last \in Nat, a.last <= w.last, \A f \in frames : f.a <= w.last,
         w.last = a.last \/ \E f \in frames : w.last = f.a,
         w.pass >= a.pass, \A f \in frames : PassOf(f) <= w.pass,
         w.pass = a.pass \/ \E f \in frames : PassOf(f) = w.pass
  PROVE  w.pass = w.last \div Positions
<1> DEFINE z == w.last \div Positions
<1>1. z \in Nat /\ a.pass \in Int
  BY PositionsPositive, Quotient DEF IsAcc
<1>2. w.pass <= z
  <2>1. CASE w.pass = a.pass
    <3>1. CASE a.last < 0
      BY <1>1, <2>1, <3>1
    <3>2. CASE ~ (a.last < 0)
      <4>1. a.last \in Nat
        BY <3>2 DEF IsAcc
      <4> QED BY <2>1, <3>2, <4>1, DivMonotone
    <3> QED BY <3>1, <3>2
  <2>2. ASSUME NEW f \in frames, PassOf(f) = w.pass PROVE w.pass <= z
    <3>1. f.a \in Nat /\ f.a <= w.last
      BY DEF IsFrame
    <3>2. f.a \div Positions <= z
      BY <3>1, DivMonotone
    <3> QED BY <2>2, <3>2 DEF PassOf
  <2> QED BY <2>1, <2>2
<1>3. z <= w.pass
  <2>1. CASE w.last = a.last
    <3>1. z = a.pass
      BY <2>1
    <3> HIDE DEF z
    <3> QED BY <1>1, <3>1
  <2>2. ASSUME NEW f \in frames, w.last = f.a PROVE z <= w.pass
    BY <2>2 DEF PassOf
  <2> QED BY <2>1, <2>2
<1> HIDE DEF z
<1>4. w.pass = z
  BY <1>1, <1>2, <1>3
<1> QED BY <1>4 DEF z

-----------------------------------------------------------------------------
(* The scan that is saved: what the sink, the cursor and the files have of   *)
(* the images of a session that goes on.                                    *)

Running == main \in {"run", "preview", "tuning", "final"}

\* The sink has seen the images of the series.
ReceivedInv ==
  /\ IsFiniteSet(log)
  /\ active => sink.seen = {e.i % Positions : e \in Mine} /\ sink.frames = Cardinality(Mine)

\* What came before the image was begun came in an earlier batch.
BeganInv == \A d \in began, e \in Since : d.s < e.s \/ (d.s = e.s /\ d.b < e.b)

\* The number of the pass that image i of the series is of.
Nth(a, i) == i \div Positions + a.offset \div Positions

\* The running pass is the cursor's; one that is closed was closed with its series.
CursorInv ==
  /\ acc.wrap \/ acc.offset = 0
  /\ \A e \in Since : acc.last >= 0 /\ (e.s = rounds => e.i + acc.offset <= acc.last)
  /\ Tracks(acc) =>
       /\ acc.pass = IF acc.last < 0 THEN -1 ELSE acc.last \div Positions
       /\ acc.pass >= acc.offset \div Positions => \E d \in Mine : Nth(acc, d.i) = acc.pass
       /\ acc.closed => acc.pass >= 0 /\ (Feeding => acc.pass < acc.offset \div Positions)

\* Between the save and its snapshot.
FinalInv ==
  main = "final" => /\ active /\ lock = "main" /\ (report = "complete" <=> Complete)
                    /\ file.round = rounds /\ file.frames = Completed(acc)

FrontKept == KeepsFront(acc) /\ acc.closed /\ acc.front = {} => Since = {}

\* No image of a newer pass was fed.
Leads(p) == \A d \in log : ~NewerPass(Pass(d), p)

\* A whole pass that nothing followed was closed with its series.
EndedInv ==
  Tracks(acc) =>
    \A e \in Since : Leads(Pass(e)) /\ (e.s < rounds \/ ~Feeding) /\ CameWhole(Pass(e)) => acc.closed

\* A file holds pass p, and no file that is still to come has its number.
InFile(p, files, a) ==
  \E m \in files : /\ m.pass \in Int /\ (m.pass < a.pass \/ (m.pass = a.pass /\ a.closed))
                   /\ \A x \in OfPass(p) : Has(m.frames, x)
                   /\ KeepsFront(a) => \A f \in m.frames : Has(OfPass(p), f)

FileInv ==
  saveErrors = 0 /\ acc.filed =>
    \A e \in Since : CameWhole(Pass(e)) /\ (acc.closed \/ ~Leads(Pass(e))) => InFile(Pass(e), movie, acc)

ScanInvariant ==
  Running => ReceivedInv /\ BeganInv /\ CursorInv /\ FinalInv /\ FrontKept /\ EndedInv /\ FileInv

LEMMA ScanBegins == Init => ScanInvariant
<1> SUFFICES ASSUME Init PROVE ScanInvariant
  OBVIOUS
<1>1. /\ acc = NoAcc /\ log = {} /\ began = {} /\ main = "run" /\ ~active
  BY DEF Init, ControlInit
<1>2. acc.mode = "none" /\ acc.wrap /\ ~acc.filed
  BY <1>1 DEF NoAcc, Build
<1>3. Since = {} /\ ~Tracks(acc) /\ ~KeepsFront(acc)
  BY <1>1, <1>2 DEF Since, Tracks, KeepsFront
<1>4. ReceivedInv
  BY <1>1, FS_EmptySet DEF ReceivedInv
<1>5. BeganInv /\ FinalInv /\ FrontKept /\ EndedInv /\ FileInv
  BY <1>1, <1>3 DEF BeganInv, FinalInv, FrontKept, EndedInv, FileInv
<1>6. CursorInv
  BY <1>2, <1>3 DEF CursorInv
<1> QED BY <1>4, <1>5, <1>6 DEF ScanInvariant

\* A step that has to do with no image, or the last of a session.
LEMMA ScanStays ==
  ASSUME ScanInvariant, UNCHANGED <<acc, log, began, rounds, sink, movie, saveErrors>>,
         Running' => Running /\ (Feeding' <=> Feeding) /\ (active' => active),
         main' = "final" => /\ main = "final" /\ active' /\ lock' = "main" /\ UNCHANGED <<file, report>>
  PROVE  ScanInvariant'
<1> SUFFICES ASSUME Running' PROVE (ReceivedInv /\ BeganInv /\ CursorInv /\ FinalInv /\ FrontKept /\ EndedInv /\ FileInv)'
  BY DEF ScanInvariant
<1>1. ReceivedInv /\ BeganInv /\ CursorInv /\ FinalInv /\ FrontKept /\ EndedInv /\ FileInv
  BY DEF ScanInvariant
<1>2. Since' = Since /\ Mine' = Mine
  BY DEF Since, Mine
<1>3. ReceivedInv' /\ BeganInv' /\ FrontKept'
  BY <1>1, <1>2 DEF ReceivedInv, BeganInv, FrontKept, KeepsFront
<1>4. CursorInv'
  <2>1. Tracks(acc)' <=> Tracks(acc)
    BY DEF Tracks, KeepsFront
  <2>2. \A i : Nth(acc, i)' = Nth(acc, i)
    BY DEF Nth
  <2> QED BY <1>1, <1>2, <2>1, <2>2 DEF CursorInv, Nth
<1>5. FinalInv'
  BY <1>1 DEF FinalInv, Complete, Completed
<1>6. \A p : (Leads(p)' <=> Leads(p)) /\ OfPass(p)' = OfPass(p) /\ (CameWhole(p)' <=> CameWhole(p))
  BY <1>2 DEF Leads, OfPass, CameWhole
<1>7. EndedInv'
  BY <1>1, <1>2, <1>6 DEF EndedInv, Tracks, KeepsFront
<1>8. \A p : InFile(p, movie, acc)' <=> InFile(p, movie, acc)
  BY <1>6 DEF InFile, KeepsFront
<1>9. FileInv'
  BY <1>1, <1>2, <1>6, <1>8 DEF FileInv
<1> QED BY <1>3, <1>4, <1>5, <1>7, <1>9

\* An image that begins now, or goes on without its frames.
LEMMA ScanRestarts ==
  ASSUME ReceivedInv', FinalInv', Since' = {},
         acc'.wrap \/ acc'.offset = 0,
         Tracks(acc') => /\ acc'.pass = IF acc'.last < 0 THEN -1 ELSE acc'.last \div Positions
                         /\ acc'.pass >= acc'.offset \div Positions => \E d \in Mine' : Nth(acc', d.i) = acc'.pass
                         /\ acc'.closed => acc'.pass >= 0 /\ (Feeding' => acc'.pass < acc'.offset \div Positions)
  PROVE  ScanInvariant'
<1>1. BeganInv' /\ FrontKept' /\ EndedInv' /\ FileInv'
  BY DEF BeganInv, FrontKept, EndedInv, FileInv
<1>2. CursorInv'
  BY DEF CursorInv
<1> QED BY <1>1, <1>2 DEF ScanInvariant

\* One that has no pass yet.
LEMMA ScanBlank ==
  ASSUME ReceivedInv', FinalInv', Since' = {}, IsAcc(acc'), acc'.pass = -1, acc'.last = -1, ~acc'.closed,
         acc'.offset = 0
  PROVE  ScanInvariant'
<1>1. ~ (acc'.pass >= acc'.offset \div Positions)
  <2>1. 0 \div Positions \in Nat
    BY PositionsPositive, Quotient
  <2> QED BY <2>1
<1>2. acc'.pass = IF acc'.last < 0 THEN -1 ELSE acc'.last \div Positions
  OBVIOUS
<1> QED BY <1>1, <1>2, ScanRestarts

\* The next series.
LEMMA ScanOverStart == ControlInv /\ ImageInvariant /\ ScanInvariant /\ Start => ScanInvariant'
<1> SUFFICES ASSUME ControlInv, ImageInvariant, ScanInvariant, Start PROVE ScanInvariant'
  OBVIOUS
<1>1. PICK x \in Series :
        IF StartRefused(x) THEN Fail /\ UNCHANGED <<acc, series_, log, began>>
        ELSE /\ acc' = Started(x) /\ sink' = NewSink
             /\ rounds' = rounds + 1 /\ active' = TRUE
             /\ began' = (IF Persistent THEN began ELSE log)
             /\ UNCHANGED <<main, log>>
  BY DEF Start
<1>2. /\ UNCHANGED <<setup, saveErrors, movie>> /\ main = "run" /\ ~active /\ rounds \in Nat
      /\ AccOk(acc) /\ IsAcc(acc) /\ acc.offset % Positions = 0 /\ ArgsOk(args) /\ setup \in Setups
  BY DEF Start, counters, ControlInv, AccOk
<1>3. /\ Running /\ ReceivedInv /\ BeganInv /\ CursorInv /\ FrontKept /\ EndedInv /\ FileInv
  BY <1>2 DEF ScanInvariant, Running
<1>4. CASE StartRefused(x)
  <2>1. main' = "stop"
    BY <1>1, <1>4 DEF Fail
  <2> QED BY <2>1 DEF ScanInvariant, Running
<1>5. CASE ~StartRefused(x)
  <2>1. /\ acc' = Started(x) /\ sink' = NewSink /\ rounds' = rounds + 1 /\ active'
        /\ began' = (IF Persistent THEN began ELSE log) /\ main' = "run" /\ log' = log
    BY <1>1, <1>2, <1>5
  <2>2. Feeding' /\ ~Feeding
    BY <1>2, <2>1 DEF Feeding
  <2>3. \A d \in log : d.s \in Nat /\ d.i \in Nat /\ d.s < rounds' /\ d.s <= rounds
    <3>1. \A d \in log : d.s \in Nat /\ d.i \in Nat /\ d.s <= rounds
      BY DEF ImageInvariant, LogInv
    <3> QED BY <1>2, <2>1, <3>1
  <2>4. Mine' = {}
    <3>1. \A d \in log : d.s # rounds'
      BY <1>2, <2>1, <2>3
    <3> QED BY <2>1, <3>1 DEF Mine
  <2>5. ReceivedInv'
    <3>1. sink'.seen = {} /\ sink'.frames = 0
      BY <2>1 DEF NewSink
    <3>2. Cardinality({}) = 0
      BY FS_EmptySet
    <3> QED BY <1>3, <2>1, <2>4, <3>1, <3>2 DEF ReceivedInv
  <2>6. FinalInv'
    BY <2>1 DEF FinalInv
  <2>7. CASE ~Persistent
    <3>1. Since' = {}
      BY <2>1, <2>7 DEF Since
    <3> DEFINE b == Build(args.mode, args.tune, x.shape, setup.passes)
    <3>2. acc' = b
      BY <2>1, <2>7 DEF Started
    <3>3. /\ b.pass = -1 /\ b.last = -1 /\ ~b.closed /\ b.offset = 0
      BY BuildIs
    <3>4. IsAcc(b)
      BY <1>2, BuildOk DEF ArgsOk, AccOk
    <3> HIDE DEF b
    <3> QED BY <2>5, <2>6, <3>1, <3>2, <3>3, <3>4, ScanBlank
  <2>8. CASE Persistent
    <3> DEFINE b == StartSeries(acc)
               P == Positions
    <3>1. acc' = b /\ began' = began /\ Since' = Since
      BY <2>1, <2>8 DEF Started, Since
    <3>2. acc.wrap
      BY <1>2, <2>8 DEF Persistent, ArgsOk, AccOk
    <3>3. /\ IsAcc(b) /\ b.offset % P = 0 /\ b.offset \in Nat
          /\ b = [acc EXCEPT !.offset = NextOffset(acc)]
          /\ acc.last >= 0 => b.offset > acc.last
      <4>1. b = [acc EXCEPT !.offset = NextOffset(acc)]
        BY <3>2 DEF StartSeries
      <4>2. IsAcc(b) /\ b.offset % Positions = 0 /\ (acc.last >= 0 => b.offset > acc.last)
        BY <1>2, <3>2, StartSeriesIs
      <4> QED BY <4>1, <4>2 DEF IsAcc
    <3> HIDE DEF b
    <3>4. /\ b.wrap /\ b.last = acc.last /\ b.pass = acc.pass /\ b.closed = acc.closed /\ b.mode = acc.mode
          /\ b.filed = acc.filed /\ b.front = acc.front /\ b.image = acc.image
      BY <3>2, <3>3 DEF IsAcc
    <3>5. (Tracks(b) <=> Tracks(acc)) /\ (KeepsFront(b) <=> KeepsFront(acc))
      BY <3>4 DEF Tracks, KeepsFront
    <3>6. P \in Nat /\ P > 0 /\ b.offset \div P \in Nat
      BY <3>3, PositionsPositive, Quotient
    <3>7. Tracks(acc) => acc.pass < b.offset \div P
      <4> SUFFICES ASSUME Tracks(acc) PROVE acc.pass < b.offset \div P
        OBVIOUS
      <4>1. acc.pass = IF acc.last < 0 THEN -1 ELSE acc.last \div P
        BY <1>3 DEF CursorInv
      <4>2. CASE acc.last < 0
        BY <3>6, <4>1, <4>2
      <4>3. CASE ~ (acc.last < 0)
        <5>1. acc.last \in Nat /\ acc.last < b.offset
          BY <1>2, <3>3, <4>3 DEF IsAcc
        <5> DEFINE m == acc.last \div P
                   n == b.offset \div P
        <5>2. m \in Nat /\ n \in Nat /\ P * m <= acc.last /\ b.offset = P * n
          <6>1. m \in Nat /\ acc.last % P \in 0 .. (P - 1) /\ acc.last = P * m + (acc.last % P)
            BY <3>6, <5>1, Quotient
          <6>2. n \in Nat /\ b.offset = P * n + (b.offset % P)
            BY <3>3, <3>6, Quotient
          <6>3. P * m \in Nat /\ P * n \in Nat
            BY <3>6, <6>1, <6>2
          <6> HIDE DEF m, n, P
          <6>4. P * m <= acc.last
            BY <6>1, <6>3, <3>6
          <6>5. b.offset = P * n
            BY <3>3, <6>2, <6>3
          <6> QED BY <6>1, <6>2, <6>4, <6>5
        <5> HIDE DEF m, n, P
        <5>3. P * m < P * n
          <6>1. P * m \in Nat /\ P * n \in Nat
            BY <3>6, <5>2
          <6> QED BY <5>1, <5>2, <6>1
        <5>4. m < n
          <6> SUFFICES ASSUME n <= m PROVE FALSE
            BY <5>2
          <6>1. P * n <= P * m
            BY <3>6, <5>2
          <6>2. P * m \in Nat /\ P * n \in Nat
            BY <3>6, <5>2
          <6> QED BY <5>3, <6>1, <6>2
        <5> QED BY <4>1, <4>3, <5>4 DEF m, n
      <4> QED BY <4>2, <4>3
    <3>8. CursorInv'
      <4>1. \A e \in Since : acc.last >= 0 /\ e.s # rounds'
        <5>1. Since \subseteq log
          BY DEF Since
        <5>2. \A d \in log : d.s # rounds'
          BY <1>2, <2>1, <2>3
        <5> QED BY <1>3, <5>1, <5>2 DEF CursorInv
      <4>2. Tracks(b) => ~ (b.pass >= b.offset \div P)
        BY <3>4, <3>5, <3>6, <3>7, <1>2 DEF IsAcc
      <4>3. Tracks(b) => /\ b.pass = IF b.last < 0 THEN -1 ELSE b.last \div P
                         /\ b.closed => b.pass >= 0 /\ b.pass < b.offset \div P
        BY <1>3, <3>4, <3>5, <3>7 DEF CursorInv
      <4> QED BY <3>1, <3>4, <4>1, <4>2, <4>3 DEF CursorInv
    <3>9. BeganInv' /\ FrontKept'
      BY <1>3, <3>1, <3>4, <3>5 DEF BeganInv, FrontKept
    <3>10. \A p : (Leads(p)' <=> Leads(p)) /\ OfPass(p)' = OfPass(p) /\ (CameWhole(p)' <=> CameWhole(p))
      BY <2>1, <3>1 DEF Leads, OfPass, CameWhole
    <3>11. EndedInv'
      BY <1>3, <2>2, <3>1, <3>4, <3>5, <3>10 DEF EndedInv
    <3>12. \A p : InFile(p, movie, acc)' <=> InFile(p, movie, acc)
      BY <1>2, <3>1, <3>4, <3>5, <3>10 DEF InFile
    <3>13. FileInv'
      BY <1>2, <1>3, <3>1, <3>4, <3>10, <3>12 DEF FileInv
    <3> QED BY <2>5, <2>6, <3>8, <3>9, <3>11, <3>13 DEF ScanInvariant
  <2> QED BY <2>7, <2>8
<1> QED BY <1>4, <1>5

\* A change.
LEMMA ScanOverApply ==
  ASSUME ControlInv, ImageInvariant, ScanInvariant, NEW c, acc' = Updated(c).acc,
         began' = (IF Restarts(Updated(c)) THEN log ELSE began),
         UNCHANGED <<log, rounds, sink, movie, saveErrors, active>>,
         Running' => Running /\ (Feeding' <=> Feeding) /\ main # "final" /\ main' # "final"
  PROVE  ScanInvariant'
<1> DEFINE b == Updated(c).acc
<1>1. Becomes(acc, b)
  BY UpdatedBecomes DEF ControlInv
<1>2. acc' = b /\ began' = IF b # acc /\ (b.mode # "latest" \/ b.image = {}) THEN log ELSE began
  BY DEF Restarts
<1> HIDE DEF b
<1>3. SUFFICES ASSUME Running' PROVE ScanInvariant'
  BY DEF ScanInvariant
<1>4. /\ Running /\ (Feeding' <=> Feeding) /\ main # "final" /\ main' # "final" /\ AccOk(acc) /\ IsAcc(acc)
      /\ ReceivedInv /\ BeganInv /\ CursorInv /\ FrontKept /\ EndedInv /\ FileInv
  BY <1>3 DEF ScanInvariant, ControlInv, AccOk
<1>5. ReceivedInv' /\ FinalInv' /\ Mine' = Mine
  BY <1>4 DEF ReceivedInv, FinalInv, Mine
<1>6. CASE b = acc
  BY <1>2, <1>4, <1>6, ScanStays
<1>7. CASE b # acc /\ Blank(b)
  <2>1. Since' = {}
    <3>1. began' = log /\ log' = log
      BY <1>2, <1>7 DEF Blank
    <3> QED BY <3>1 DEF Since
  <2>2. IsAcc(acc') /\ acc'.pass = -1 /\ acc'.last = -1 /\ ~acc'.closed /\ acc'.offset = 0
    BY <1>2, <1>7 DEF Blank
  <2> QED BY <1>5, <2>1, <2>2, ScanBlank
<1>8. ASSUME b # acc, acc # NoAcc, NEW t, b = SetGeometry(acc, t) PROVE ScanInvariant'
  <2>1. /\ IsAcc(b) /\ b.mode = acc.mode /\ b.wrap = acc.wrap /\ b.filed = acc.filed /\ b.offset = acc.offset
        /\ b.last = acc.last /\ b.pass = acc.pass /\ b.closed = acc.closed
    BY <1>4, <1>8, SetGeometryIs
  <2>2. (Tracks(b) <=> Tracks(acc)) /\ (KeepsFront(b) <=> KeepsFront(acc))
    BY <2>1 DEF Tracks, KeepsFront
  <2>3. Since' = {} \/ (Since' = Since /\ began' = began /\ ~KeepsFront(acc))
    <3>1. CASE b.mode = "latest" /\ b.image # {}
      BY <1>2, <2>1, <3>1 DEF Since, KeepsFront
    <3>2. CASE ~ (b.mode = "latest" /\ b.image # {})
      <4>1. began' = log /\ log' = log
        BY <1>2, <1>8, <3>2
      <4> QED BY <4>1 DEF Since
    <3> QED BY <3>1, <3>2
  <2>4. /\ acc'.wrap \/ acc'.offset = 0
        /\ Tracks(acc') =>
             /\ acc'.pass = IF acc'.last < 0 THEN -1 ELSE acc'.last \div Positions
             /\ acc'.pass >= acc'.offset \div Positions => \E d \in Mine' : Nth(acc', d.i) = acc'.pass
             /\ acc'.closed => acc'.pass >= 0 /\ (Feeding' => acc'.pass < acc'.offset \div Positions)
    BY <1>2, <1>4, <1>5, <2>1, <2>2 DEF CursorInv, Nth
  <2>5. CASE Since' = {}
    BY <1>5, <2>4, <2>5, ScanRestarts
  <2>6. CASE Since' = Since /\ began' = began /\ ~KeepsFront(acc)
    <3>1. CursorInv'
      BY <1>2, <1>4, <2>1, <2>4, <2>6 DEF CursorInv
    <3>2. BeganInv' /\ FrontKept'
      BY <1>2, <1>4, <2>2, <2>6 DEF BeganInv, FrontKept
    <3>3. \A p : (Leads(p)' <=> Leads(p)) /\ OfPass(p)' = OfPass(p) /\ (CameWhole(p)' <=> CameWhole(p))
      BY <2>6 DEF Leads, OfPass, CameWhole
    <3>4. EndedInv'
      BY <1>2, <1>4, <2>1, <2>2, <2>6, <3>3 DEF EndedInv
    <3>5. \A p : InFile(p, movie, acc)' <=> InFile(p, movie, acc)
      BY <1>2, <2>1, <2>2, <3>3 DEF InFile
    <3>6. FileInv'
      BY <1>2, <1>4, <2>1, <2>6, <3>3, <3>5 DEF FileInv
    <3> QED BY <1>5, <3>1, <3>2, <3>4, <3>6 DEF ScanInvariant
  <2> QED BY <2>3, <2>5, <2>6
<1> QED BY <1>1, <1>6, <1>7, <1>8 DEF Becomes

LEMMA ScanOverUpdate == ControlInv /\ ImageInvariant /\ ScanInvariant /\ Update => ScanInvariant'
<1> SUFFICES ASSUME ControlInv, ImageInvariant, ScanInvariant, Update PROVE ScanInvariant'
  OBVIOUS
<1>1. UNCHANGED <<log, rounds, sink, movie, saveErrors, main, active>> /\ lock = "none"
  BY DEF Update, series_
<1>2. PICK c \in Changes :
        Apply(c, IF acc' = NoAcc THEN UNCHANGED <<http, lock>> ELSE http' = "publish" /\ lock' = "http",
              UNCHANGED <<http, lock>>, UNCHANGED <<http, lock>>)
  BY DEF Update
<1>3. acc' = Updated(c).acc /\ began' = IF Restarts(Updated(c)) THEN log ELSE began
  BY <1>2 DEF Apply
<1>4. Running' => Running /\ (Feeding' <=> Feeding) /\ main # "final" /\ main' # "final"
  BY <1>1 DEF Feeding, Running, ScanInvariant, FinalInv
<1> QED BY <1>1, <1>3, <1>4, ScanOverApply

LEMMA ScanOverApplyPending ==
  ControlInv /\ ImageInvariant /\ ScanInvariant /\ ApplyPending => ScanInvariant'
<1> SUFFICES ASSUME ControlInv, ImageInvariant, ScanInvariant, ApplyPending PROVE ScanInvariant'
  OBVIOUS
<1> DEFINE c == Head(pending)
<1>1. UNCHANGED <<log, rounds, sink, movie, saveErrors, active>> /\ main = "run" /\ active
  BY DEF ApplyPending, series_, counters
<1>2. Apply(c, main' = "tuning" /\ lock' = "main", UNCHANGED <<main, lock>>, Fail /\ UNCHANGED lock)
  BY DEF ApplyPending
<1> HIDE DEF c
<1>3. acc' = Updated(c).acc /\ began' = IF Restarts(Updated(c)) THEN log ELSE began
  BY <1>2 DEF Apply
<1>4. main' \in {"tuning", "run", "stop"}
  <2>1. Updated(c).end \in {"done", "refused", "crashed"}
    BY UpdatedIs DEF ControlInv, Ends
  <2> QED BY <1>1, <1>2, <2>1 DEF Apply, Fail
<1>5. Running' => Running /\ (Feeding' <=> Feeding) /\ main # "final" /\ main' # "final"
  BY <1>1, <1>4 DEF Feeding, Running
<1> QED BY <1>1, <1>3, <1>5, ScanOverApply

-----------------------------------------------------------------------------
(* The images of a pass that came as a whole.                               *)

\* An image that was fed.
IsEvent(e) == e.s \in Nat /\ e.b \in Nat /\ e.i \in Nat

LEMMA OneWay ==
  ASSUME NEW d, NEW e, IsEvent(d), IsEvent(e), Earlier(d, e) PROVE ~Earlier(e, d)
  BY DEF IsEvent, Earlier

LEMMA PassOfEvent ==
  ASSUME NEW e, IsEvent(e) PROVE Pass(e).s = e.s /\ Pass(e).k = e.i \div Positions /\ Pass(e).k \in Nat
<1>1. e.i \div Positions \in Nat
  BY PositionsPositive, Quotient DEF IsEvent
<1> QED BY <1>1 DEF Pass

\* Two passes are the same, or one is newer.
LEMMA OneIsNewer ==
  ASSUME NEW d, NEW e, IsEvent(d), IsEvent(e)
  PROVE  Pass(d) = Pass(e) \/ NewerPass(Pass(d), Pass(e)) \/ NewerPass(Pass(e), Pass(d))
<1>1. /\ Pass(d).s = d.s /\ Pass(d).k \in Nat /\ Pass(e).s = e.s /\ Pass(e).k \in Nat
      /\ Pass(d) = [s |-> Pass(d).s, k |-> Pass(d).k] /\ Pass(e) = [s |-> Pass(e).s, k |-> Pass(e).k]
  BY PassOfEvent DEF Pass
<1> QED BY <1>1 DEF NewerPass, IsEvent

\* Some of the events have a last.
LEMMA LastIs ==
  ASSUME NEW S, S # {}, IsFiniteSet(S), \A e \in S : IsEvent(e)
  PROVE  LastOf(S) \in S /\ \A d \in S : ~Earlier(LastOf(S), d)
<1>1. ASSUME NEW T, T # {}, T \subseteq S, NEW h \in [S -> Nat]
      PROVE  \E e \in T : \A d \in T : h[d] <= h[e]
  <2> DEFINE V == {h[e] : e \in T}
             g == [e \in T |-> h[e]]
  <2>1. V \in SUBSET Int /\ V # {}
    BY <1>1
  <2>2. IsFiniteSet(T)
    BY <1>1, FS_Subset
  <2>3. g \in Surjection(T, V)
    BY DEF Surjection
  <2>4. IsFiniteSet(V)
    <3> HIDE DEF V, g
    <3> QED BY <2>2, <2>3, FS_Surjection
  <2>5. Max(V) \in V /\ \A x \in V : x <= Max(V)
    <3> HIDE DEF V
    <3> QED BY <2>1, <2>4, Greatest
  <2>6. PICK e \in T : h[e] = Max(V)
    BY <2>5
  <2>7. \A d \in T : h[d] \in V
    OBVIOUS
  <2> HIDE DEF V
  <2> QED BY <2>5, <2>6, <2>7
<1> DEFINE hs == [e \in S |-> e.s]
           hb == [e \in S |-> e.b]
           hi == [e \in S |-> e.i]
<1>2. hs \in [S -> Nat] /\ hb \in [S -> Nat] /\ hi \in [S -> Nat]
  BY DEF IsEvent
<1>3. PICK x \in S : \A d \in S : d.s <= x.s
  <2>1. \E e \in S : \A d \in S : hs[d] <= hs[e]
    <3> HIDE DEF hs
    <3> QED BY <1>1, <1>2
  <2> QED BY <2>1
<1> DEFINE T == {e \in S : e.s = x.s}
<1>4. PICK y \in T : \A d \in T : d.b <= y.b
  <2>1. T # {} /\ T \subseteq S
    OBVIOUS
  <2>2. \E e \in T : \A d \in T : hb[d] <= hb[e]
    <3> HIDE DEF hb, T
    <3> QED BY <1>1, <1>2, <2>1
  <2> QED BY <2>2
<1> DEFINE U == {e \in T : e.b = y.b}
<1>5. PICK z \in U : \A d \in U : d.i <= z.i
  <2>1. U # {} /\ U \subseteq S
    OBVIOUS
  <2>2. \E e \in U : \A d \in U : hi[d] <= hi[e]
    <3> HIDE DEF hi, U
    <3> QED BY <1>1, <1>2, <2>1
  <2> QED BY <2>2
<1>6. z \in S /\ z.s = x.s /\ z.b = y.b
  OBVIOUS
<1>7. \A d \in S : ~Earlier(z, d)
  <2> TAKE d \in S
  <2>1. IsEvent(d) /\ IsEvent(z) /\ d.s <= z.s
    BY <1>3, <1>6
  <2>2. d.s = z.s => d.b <= z.b
    BY <1>4, <1>6
  <2>3. d.s = z.s /\ d.b = z.b => d.i <= z.i
    BY <1>5, <1>6
  <2> QED BY <2>1, <2>2, <2>3 DEF Earlier, IsEvent
<1> HIDE DEF T, U
<1>8. \E e \in S : \A d \in S : ~Earlier(e, d)
  BY <1>6, <1>7
<1> QED BY <1>8 DEF LastOf

\* A whole pass has an image for each position.
LEMMA EveryPosition ==
  ASSUME NEW p, NEW O, p.k \in Nat, \A e \in O : IsEvent(e) /\ Pass(e) = p,
         Cardinality(Ids(O)) = Positions, NEW r \in 0 .. (Positions - 1)
  PROVE  \E e \in O : e.i = p.k * Positions + r
<1> DEFINE P == Positions
           T == {[s |-> p.s, i |-> p.k * P + x] : x \in 0 .. (P - 1)}
           h == [x \in 0 .. (P - 1) |-> [s |-> p.s, i |-> p.k * P + x]]
<1>1. P \in Nat /\ P > 0
  BY PositionsPositive
<1>2. IsFiniteSet(0 .. (P - 1)) /\ Cardinality(0 .. (P - 1)) = P
  <2>1. 0 \in Int /\ P - 1 \in Int /\ ~ (0 > P - 1) /\ (P - 1) - 0 + 1 = P
    BY <1>1
  <2> QED BY <2>1, FS_Interval
<1>3. h \in Surjection(0 .. (P - 1), T)
  BY DEF Surjection
<1>4. h \in Injection(0 .. (P - 1), T)
  <2> DEFINE u == p.k * P
  <2>1. u \in Nat
    BY <1>1
  <2>2. \A x, y \in 0 .. (P - 1) : h[x] = h[y] => x = y
    <3> TAKE x, y \in 0 .. (P - 1)
    <3>1. h[x].i = u + x /\ h[y].i = u + y
      OBVIOUS
    <3> HIDE DEF h, u
    <3> QED BY <1>1, <2>1, <3>1
  <2>3. h \in [0 .. (P - 1) -> T]
    OBVIOUS
  <2> DEFINE I == 0 .. (P - 1)
  <2>4. h \in [I -> T] /\ \A x, y \in I : h[x] = h[y] => x = y
    BY <2>2, <2>3
  <2> HIDE DEF h, I, T
  <2>5. h \in Injection(I, T)
    BY <2>4 DEF Injection, IsInjective
  <2> QED BY <2>5 DEF I
<1>5. IsFiniteSet(T) /\ Cardinality(T) = P
  <2> HIDE DEF T, h, P
  <2>1. ExistsBijection(0 .. (P - 1), T)
    BY <1>3, <1>4 DEF ExistsBijection, Bijection
  <2> QED BY <1>2, <2>1, FS_Bijection
<1>6. Ids(O) \subseteq T
  <2> SUFFICES ASSUME NEW e \in O PROVE [s |-> e.s, i |-> e.i] \in T
    BY DEF Ids
  <2>1. e.s = p.s /\ e.i \div P = p.k
    BY PassOfEvent
  <2>2. e.i % P \in 0 .. (P - 1) /\ e.i = P * (e.i \div P) + (e.i % P)
    BY <1>1, Quotient DEF IsEvent
  <2>3. e.i = p.k * P + (e.i % P)
    <3> DEFINE x == e.i % P
    <3>1. e.i = P * p.k + x
      BY <2>1, <2>2
    <3>2. P * p.k = p.k * P
      BY <1>1
    <3> QED BY <3>1, <3>2
  <2> QED BY <2>1, <2>2, <2>3
<1>7. Ids(O) = T
  <2> HIDE DEF T, P
  <2>1. Ids(O) \in SUBSET T /\ Cardinality(T) = Cardinality(Ids(O))
    BY <1>5, <1>6 DEF P
  <2> QED BY <1>5, <2>1, FS_Subset
<1>8. [s |-> p.s, i |-> p.k * P + r] \in Ids(O)
  BY <1>7
<1>9. PICK e \in O : [s |-> e.s, i |-> e.i] = [s |-> p.s, i |-> p.k * P + r]
  BY <1>8 DEF Ids
<1> QED BY <1>9

\* "latest": what remains of what was fed holds a pass that nothing newer came behind.
LEMMA NewestHeld ==
  ASSUME NEW p, NEW T, IsFiniteSet(T), \A d \in T : IsEvent(d),
         \A d \in T : ~NewerPass(Pass(d), p),
         \A d \in T, e \in T : Pass(e) = p /\ NewerPass(p, Pass(d)) => Earlier(d, e),
         NEW e \in T, Pass(e) = p
  PROVE  Has(Unreplaced(T), e)
<1> DEFINE D == {d \in T : d.s = e.s /\ d.i = e.i}
           l == LastOf(D)
<1>1. l \in D /\ \A d \in D : ~Earlier(l, d)
  <2>1. D # {} /\ IsFiniteSet(D) /\ \A d \in D : IsEvent(d)
    BY FS_Subset
  <2> HIDE DEF D
  <2> QED BY <2>1, LastIs
<1> HIDE DEF l
<1>2. l \in T /\ l.s = e.s /\ l.i = e.i /\ Pass(l) = p
  BY <1>1 DEF Pass
<1>3. ASSUME NEW d \in T, d.i % Positions = l.i % Positions, Earlier(l, d) PROVE FALSE
  <2>1. ~NewerPass(p, Pass(d))
    <3> SUFFICES ASSUME NewerPass(p, Pass(d)) PROVE FALSE
      OBVIOUS
    <3>1. Earlier(d, l)
      BY <1>2
    <3> QED BY <1>2, <1>3, <3>1, OneWay
  <2>2. Pass(d) = Pass(l)
    BY <1>2, <2>1, OneIsNewer
  <2>3. d.s = l.s /\ d.i \div Positions = l.i \div Positions
    BY <1>2, <2>2, PassOfEvent
  <2>4. d.i = l.i
    <3> DEFINE P == Positions
    <3>1. d.i = P * (d.i \div P) + (d.i % P) /\ l.i = P * (l.i \div P) + (l.i % P)
      BY <1>2, PositionsPositive, Quotient DEF IsEvent
    <3> QED BY <1>3, <2>3, <3>1
  <2>5. d \in D
    BY <1>2, <2>3, <2>4
  <2> QED BY <1>1, <1>3, <2>5
<1>4. l \in Unreplaced(T)
  BY <1>2, <1>3 DEF Unreplaced
<1> QED BY <1>2, <1>4 DEF Has

\* What is known of the image of a running pass that is of this series.
LEMMA RunningImage ==
  ASSUME NEW a, NEW base \in Bases, NEW r \in Nat, NEW since, NEW fed, NEW ahead,
         PassInv(a, base, r, since, fed, ahead), ~a.closed, base[r] = a.offset \div Positions,
         \A d \in since : IsEvent(d),
         NEW p, p.s = r, p.k \in Nat, a.pass = p.k + a.offset \div Positions, DOMAIN p = {"s", "k"},
         p = [s |-> p.s, k |-> p.k]
  PROVE  Same(a.image, {e \in since : Pass(e) = p})
<1> DEFINE O == {e \in since : Pass(e) = p}
           v == base[r]
<1>1. v \in Nat /\ a.pass = p.k + v
  BY DEF Bases
<1>2. \A e \in since : e.s = r => Num(base, e) = Pass(e).k + v
  BY PassOfEvent DEF Num
<1>3. ASSUME NEW e \in since, Num(base, e) = a.pass PROVE Pass(e) = p
  <2>1. e.s = r
    <3>1. e.s <= r /\ (e.s < r => Num(base, e) < v) /\ e.s \in Nat
      BY DEF PassInv, FedInv
    <3>2. ~ (Num(base, e) < v)
      BY <1>1, <1>3
    <3> QED BY <3>1, <3>2
  <2>2. Pass(e).k \in Nat /\ Pass(e).k + v = p.k + v
    BY <1>1, <1>2, <1>3, <2>1, PassOfEvent
  <2>3. Pass(e).k = p.k
    BY <1>1, <2>2
  <2> QED BY <2>1, <2>3, PassOfEvent DEF Pass
<1>4. \A f \in a.image : Has(O, f)
  <2> TAKE f \in a.image
  <2>1. Num(base, f) = a.pass /\ Has(since, f)
    BY DEF PassInv, ImageInv, OnlyOf
  <2>2. PICK e \in since : e.s = f.s /\ e.i = f.i
    BY <2>1 DEF Has
  <2>3. Num(base, e) = a.pass
    BY <2>1, <2>2 DEF Num
  <2>4. e \in O
    BY <1>3, <2>3
  <2> HIDE DEF O
  <2> QED BY <2>2, <2>4 DEF Has
<1>5. \A e \in O : Has(a.image, e)
  <2> TAKE e \in O
  <2>1. e \in since /\ Pass(e) = p
    OBVIOUS
  <2>2. e.s = r
    BY <2>1, PassOfEvent
  <2>3. Num(base, e) = a.pass
    BY <1>1, <1>2, <2>1, <2>2
  <2> QED BY <2>1, <2>3 DEF PassInv, ImageInv
<1> HIDE DEF O
<1> QED BY <1>4, <1>5 DEF Same, O

LEMMA LogIs ==
  ASSUME ImageInvariant
  PROVE  /\ \A d \in log : IsEvent(d) /\ d.s <= rounds
         /\ Since \subseteq log /\ \A d \in Since : IsEvent(d) /\ d.s <= rounds
  BY DEF ImageInvariant, LogInv, IsEvent, Since

\* The newest pass is the running one, if it is of this series.
LEMMA RunningNumber ==
  ASSUME ControlInv, ImageInvariant, CursorInv, Tracks(acc),
         NEW e \in Since, e.s = rounds, Leads(Pass(e))
  PROVE  /\ acc.pass = Nth(acc, e.i) /\ acc.last \in Nat /\ acc.pass = acc.last \div Positions
         /\ acc.pass \in Nat /\ acc.pass >= acc.offset \div Positions
<1>1. /\ IsAcc(acc) /\ acc.offset % Positions = 0 /\ acc.offset \in Nat
      /\ e.i \in Nat /\ e.s = rounds /\ \A d \in log : IsEvent(d)
  BY LogIs DEF ControlInv, AccOk, IsAcc, IsEvent
<1> DEFINE v == acc.offset \div Positions
           k == e.i \div Positions
<1>2. k \in Nat /\ v \in Nat /\ (e.i + acc.offset) \div Positions = k + v
  BY <1>1, Shifted
<1>3. acc.last \in Nat /\ e.i + acc.offset <= acc.last /\ acc.pass = acc.last \div Positions
  BY <1>1 DEF CursorInv, IsAcc
<1>4. k + v <= acc.last \div Positions
  <2>1. e.i + acc.offset \in Nat
    BY <1>1
  <2> QED BY <1>2, <1>3, <2>1, DivMonotone
<1>5. acc.pass \in Int /\ acc.pass >= v
  BY <1>1, <1>2, <1>3, <1>4 DEF IsAcc
<1>6. PICK d \in Mine : Nth(acc, d.i) = acc.pass
  BY <1>5 DEF CursorInv
<1>7. d \in log /\ d.s = e.s /\ d.i \in Nat /\ IsEvent(d)
  BY <1>1, <1>6 DEF Mine, IsEvent
<1>8. d.i \div Positions \in Nat /\ d.i \div Positions <= k
  <2>1. ~NewerPass(Pass(d), Pass(e))
    BY <1>7 DEF Leads
  <2>2. ~ (d.i \div Positions > k)
    BY <1>7, <2>1 DEF NewerPass, Pass
  <2>3. d.i \div Positions \in Nat
    BY <1>7, PassOfEvent DEF Pass
  <2> HIDE DEF k
  <2> QED BY <1>2, <2>2, <2>3
<1>9. acc.pass <= k + v
  <2>1. acc.pass = d.i \div Positions + v
    BY <1>6 DEF Nth
  <2> HIDE DEF k, v
  <2> QED BY <1>2, <1>8, <2>1
<1>10. acc.pass = k + v
  <2> HIDE DEF k, v
  <2> QED BY <1>2, <1>3, <1>4, <1>5, <1>9
<1> QED BY <1>2, <1>3, <1>5, <1>10 DEF Nth

\* What the image of the running pass holds of it, when it came as a whole.
LEMMA PassHeld ==
  ASSUME ControlInv, ImageInvariant, ReceivedInv, CursorInv, Tracks(acc), ~acc.closed, acc # NoAcc,
         NEW e \in Since, e.s = rounds, Leads(Pass(e)), CameWhole(Pass(e))
  PROVE  /\ \A x \in OfPass(Pass(e)) : Has(acc.image, x)
         /\ KeepsFront(acc) => \A f \in acc.image : Has(OfPass(Pass(e)), f)
<1> DEFINE p == Pass(e)
           O == OfPass(p)
<1>1. /\ \A d \in Since : IsEvent(d) /\ d \in log
      /\ IsFiniteSet(Since) /\ O = {d \in Since : Pass(d) = p}
      /\ p.s = rounds /\ p.k \in Nat /\ p = [s |-> p.s, k |-> p.k] /\ DOMAIN p = {"s", "k"}
  <2>1. \A d \in Since : IsEvent(d) /\ d \in log
    BY LogIs
  <2>2. IsFiniteSet(Since)
    BY <2>1, FS_Subset DEF ReceivedInv
  <2>3. p.s = rounds /\ p.k \in Nat
    BY <2>1, PassOfEvent
  <2> QED BY <2>1, <2>2, <2>3 DEF OfPass, Pass
<1>2. CASE KeepsFront(acc)
  <2>1. PICK base \in Bases :
          base[rounds] = acc.offset \div Positions /\ PassInv(acc, base, rounds, Since, log, Ahead)
    BY <1>2 DEF ImageInvariant, PassesInv
  <2>2. acc.pass = p.k + acc.offset \div Positions
    BY RunningNumber DEF Nth, Pass
  <2>3. rounds \in Nat
    BY DEF ControlInv
  <2> HIDE DEF p
  <2>4. Same(acc.image, {d \in Since : Pass(d) = p})
    BY <1>1, <2>1, <2>2, <2>3, RunningImage
  <2> QED BY <1>1, <2>4 DEF Same, p
<1>3. CASE ~KeepsFront(acc)
  <2>1. CASE acc.mode = "latest"
    <3>1. Same(acc.image, Unreplaced(Since))
      BY <1>3, <2>1 DEF ImageInvariant, HeldInv
    <3>2. \A x \in O : Has(Unreplaced(Since), x)
      <4> TAKE x \in O
      <4>1. x \in Since /\ Pass(x) = p
        BY <1>1
      <4>2. \A d \in Since : ~NewerPass(Pass(d), p)
        BY <1>1 DEF Leads
      <4>3. \A d \in Since, y \in Since : Pass(y) = p /\ NewerPass(p, Pass(d)) => Earlier(d, y)
        BY <1>1 DEF CameWhole
      <4> HIDE DEF p, O
      <4> QED BY <1>1, <4>1, <4>2, <4>3, NewestHeld
    <3>3. \A x \in O : Has(acc.image, x)
      BY <3>1, <3>2 DEF Same, Has
    <3> QED BY <1>3, <3>3
  <2>2. CASE acc.mode # "latest"
    <3>1. acc.mode = "all"
      BY <1>3, <2>2 DEF ControlInv, AccOk, KeepsFront, Modes
    <3>2. Same(acc.image, Since)
      BY <1>3, <3>1 DEF ImageInvariant, HeldInv
    <3> QED BY <1>1, <1>3, <3>2 DEF Same
  <2> QED BY <2>1, <2>2
<1> QED BY <1>2, <1>3

\* The series ends, and its last pass with it.
LEMMA EndSeriesIs ==
  ASSUME NEW a, IsAcc(a), a.done = <<>>, ~KeepsFront(a) => a.front = {}
  PROVE  LET b == EndSeries(a)
             x == [pass |-> a.pass, frames |-> a.image]
         IN /\ Carried(a, b) /\ b.pass = a.pass
            /\ b = a \/ (Tracks(a) /\ a.pass >= 0 /\ ~a.closed /\ b.closed
                         /\ (KeepsFront(a) => b.front # {}) /\ ToSet(b.done) = IF a.filed THEN {x} ELSE {})
            /\ Tracks(a) /\ a.pass >= 0 /\ a.last \div Positions = a.pass
                 /\ a.last % Positions = Positions - 1 => b.closed
<1> DEFINE b == EndSeries(a)
           c == ClosePass(a)
           x == [pass |-> a.pass, frames |-> a.image]
<1>1. Carried(a, b)
  BY EndSeriesCarries
<1>2. /\ Carried(a, c) /\ c.pass = a.pass /\ c.closed = TRUE
      /\ KeepsFront(a) => c.front # {}
  <2>1. CASE KeepsFront(a)
    <3>1. /\ Carried(a, c) /\ c.pass = a.pass /\ c.closed = TRUE
          /\ c.front = {[pass |-> a.pass, frames |-> a.image]}
      BY <2>1, ClosePassIs
    <3> HIDE DEF c
    <3> QED BY <3>1
  <2>2. CASE ~KeepsFront(a)
    <3>1. Carried(a, c) /\ c.pass = a.pass
      BY <2>2, CloseOther
    <3> DEFINE z == [pass |-> a.pass, frames |-> Completed(a)]
    <3>2. c = [a EXCEPT !.closed = TRUE, !.done = IF a.filed THEN Append(@, z) ELSE @]
      BY <2>2 DEF ClosePass
    <3> HIDE DEF c, z
    <3>3. c.closed = TRUE
      BY <3>2 DEF IsAcc
    <3> QED BY <2>2, <3>1, <3>3
  <2> QED BY <2>1, <2>2
<1>3. ToSet(c.done) = IF a.filed THEN {x} ELSE {}
  <2>1. c.done = IF a.filed THEN Append(a.done, x) ELSE a.done
    BY CloseFiles
  <2> DEFINE q == <<>>
             S == {}
  <2>2. q \in Seq(S) /\ ToSet(q) = {} /\ a.done = q
    BY DEF ToSet
  <2> HIDE DEF x, c, q, S
  <2>3. ToSet(Append(q, x)) = ToSet(q) \cup {x}
    BY <2>2, SetOfAppend
  <2> QED BY <2>1, <2>2, <2>3
<1>4. /\ b = IF /\ Tracks(a) /\ a.pass >= 0 /\ ~a.closed
                /\ a.last \div Positions = a.pass /\ a.last % Positions = Positions - 1
             THEN c ELSE a
  BY DEF EndSeries
<1> HIDE DEF b, c, x
<1> QED BY <1>1, <1>2, <1>3, <1>4 DEF b, x

\* The files that a call writes, over those that are there.
LEMMA WrittenKeeps ==
  ASSUME NEW passes, NEW m \in movie, \A p \in passes : m.pass # p.pass
  PROVE  m \in Written(passes)
  BY DEF Written

LEMMA WrittenHas == ASSUME NEW passes, NEW m \in passes PROVE m \in Written(passes)
  BY DEF Written

LEMMA ScanOverFinish == ControlInv /\ ImageInvariant /\ ScanInvariant /\ Finish => ScanInvariant'
<1> SUFFICES ASSUME ControlInv, ImageInvariant, ScanInvariant, Finish PROVE ScanInvariant'
  OBVIOUS
<1> DEFINE o == EndSeries(acc)
           z == [pass |-> acc.pass, frames |-> acc.image]
<1>1. \/ main' = "stop"
      \/ /\ acc' = Settled(o) /\ movie' = Filed(o)
         /\ report' = (IF Complete THEN "complete" ELSE "incomplete")
         /\ Save /\ main' = "final" /\ lock' = "main" /\ saveErrors' = saveErrors
  BY DEF Finish, Fail
<1>2. CASE main' = "stop"
  BY <1>2 DEF ScanInvariant, Running
<1>3. CASE /\ acc' = Settled(o) /\ movie' = Filed(o)
           /\ report' = (IF Complete THEN "complete" ELSE "incomplete")
           /\ Save /\ main' = "final" /\ lock' = "main" /\ saveErrors' = saveErrors
  <2>1. main = "run" /\ active /\ UNCHANGED <<rounds, sink, active, log, began>>
    BY DEF Finish, series_, history
  <2>2. /\ ReceivedInv /\ BeganInv /\ CursorInv /\ FrontKept /\ EndedInv /\ FileInv
        /\ IsAcc(acc) /\ acc.done = <<>> /\ acc # NoAcc
    BY <2>1 DEF ScanInvariant, Running, ControlInv, AccOk
  <2>3. ~KeepsFront(acc) => acc.front = {}
    BY DEF ImageInvariant, HeldInv
  <2>4. /\ Carried(acc, o) /\ o.pass = acc.pass
        /\ o = acc \/ (Tracks(acc) /\ acc.pass >= 0 /\ ~acc.closed /\ o.closed
                       /\ (KeepsFront(acc) => o.front # {})
                       /\ ToSet(o.done) = IF acc.filed THEN {z} ELSE {})
        /\ Tracks(acc) /\ acc.pass >= 0 /\ acc.last \div Positions = acc.pass
             /\ acc.last % Positions = Positions - 1 => o.closed
    BY <2>2, <2>3, EndSeriesIs
  <2> HIDE DEF o, z
  <2>5. /\ acc'.pass = acc.pass /\ acc'.last = acc.last /\ acc'.offset = acc.offset /\ acc'.wrap = acc.wrap
        /\ acc'.mode = acc.mode /\ acc'.filed = acc.filed /\ acc'.front = o.front /\ acc'.closed = o.closed
        /\ (KeepsFront(acc') <=> KeepsFront(acc)) /\ (Tracks(acc') <=> Tracks(acc))
    <3>1. IsAcc(o)
      BY <2>4 DEF Carried
    <3>2. /\ acc'.image = o.image /\ acc'.front = o.front /\ acc'.pass = o.pass /\ acc'.closed = o.closed
          /\ acc'.mode = o.mode /\ acc'.last = o.last /\ acc'.wrap = o.wrap /\ acc'.offset = o.offset
      BY <1>3, <3>1, SettledIs
    <3>3. Carried(o, acc')
      BY <1>3, <3>1, SettledCarries
    <3> QED BY <2>4, <3>2, <3>3 DEF Carried, KeepsFront, Tracks
  <2>6. Since' = Since /\ Mine' = Mine /\ ~Feeding' /\ Feeding
    BY <1>3, <2>1 DEF Since, Mine, Feeding
  <2>7. ReceivedInv' /\ BeganInv'
    BY <2>1, <2>2, <2>6 DEF ReceivedInv, BeganInv
  <2>8. CursorInv'
    <3>1. Tracks(acc) /\ acc'.closed => acc'.pass >= 0
      BY <2>2, <2>4, <2>5 DEF CursorInv
    <3>2. \A i : Nth(acc', i) = Nth(acc, i)
      BY <2>5 DEF Nth
    <3> QED BY <2>1, <2>2, <2>5, <2>6, <3>1, <3>2 DEF CursorInv
  <2>9. FinalInv'
    <3>1. file' = [rev |-> revision, round |-> rounds, frames |-> Completed(acc')]
      BY <1>3 DEF Save
    <3>2. Complete' <=> Complete
      BY <2>1, <2>5 DEF Complete
    <3>3. file'.round = rounds' /\ file'.frames = Completed(acc)'
      BY <2>1, <3>1 DEF Completed
    <3> QED BY <1>3, <2>1, <3>2, <3>3 DEF FinalInv
  <2>10. FrontKept'
    <3>1. CASE o = acc
      BY <2>2, <2>5, <2>6, <3>1 DEF FrontKept
    <3>2. CASE o # acc
      BY <2>4, <2>5, <3>2 DEF FrontKept
    <3> QED BY <3>1, <3>2
  <2>11. \A p : (Leads(p)' <=> Leads(p)) /\ OfPass(p)' = OfPass(p) /\ (CameWhole(p)' <=> CameWhole(p))
    BY <2>1, <2>6 DEF Leads, OfPass, CameWhole
  <2>12. EndedInv'
    <3> SUFFICES ASSUME Tracks(acc), NEW e \in Since, Leads(Pass(e)), CameWhole(Pass(e))
                 PROVE  acc'.closed
      BY <2>5, <2>6, <2>11 DEF EndedInv
    <3>1. CASE acc.closed
      BY <2>4, <2>5, <3>1
    <3>2. CASE ~acc.closed
      <4>1. e.s = rounds
        <5>1. ~ (e.s < rounds)
          BY <2>2, <3>2 DEF EndedInv
        <5> QED BY <5>1, LogIs DEF IsEvent, ControlInv
      <4>2. acc.pass = Nth(acc, e.i) /\ acc.last \in Nat /\ acc.pass = acc.last \div Positions /\ acc.pass \in Nat
        BY <2>2, <4>1, RunningNumber
      <4>3. acc.last % Positions = Positions - 1
        <5> DEFINE P == Positions
                   k == e.i \div P
                   v == acc.offset \div P
                   p == Pass(e)
        <5>1. P \in Nat /\ P > 0 /\ IsEvent(e) /\ acc.offset \in Nat /\ acc.offset % P = 0
          BY PositionsPositive, LogIs DEF ControlInv, AccOk, IsAcc
        <5>2. p.k = k /\ k \in Nat /\ v \in Nat /\ acc.offset = P * v
          <6>1. k \in Nat /\ v \in Nat /\ acc.offset = P * v + (acc.offset % P)
            BY <5>1, Quotient DEF IsEvent
          <6> HIDE DEF v, P
          <6>2. P * v \in Nat
            BY <5>1, <6>1
          <6> QED BY <5>1, <6>1, <6>2, PassOfEvent DEF P
        <5>3. \E x \in OfPass(p) : x.i = p.k * P + (P - 1)
          <6>1. \A x \in OfPass(p) : IsEvent(x) /\ Pass(x) = p
            BY LogIs DEF OfPass
          <6>2. Cardinality(Ids(OfPass(p))) = P /\ P - 1 \in 0 .. (P - 1) /\ p.k \in Nat
            BY <5>1, <5>2 DEF CameWhole
          <6> HIDE DEF p
          <6> QED BY <6>1, <6>2, EveryPosition
        <5>4. PICK x \in Since : x.i = k * P + (P - 1) /\ x.s = rounds
          <6>1. \A x \in Since : Pass(x) = p => x.s = e.s
            BY LogIs, PassOfEvent
          <6> QED BY <4>1, <5>2, <5>3, <6>1 DEF OfPass
        <5>5. x.i + acc.offset <= acc.last
          BY <2>2, <5>4 DEF CursorInv
        <5>6. acc.last % P \in 0 .. (P - 1) /\ acc.last = P * acc.pass + (acc.last % P) /\ acc.pass = k + v
          BY <4>2, <5>1, Quotient DEF Nth
        <5> DEFINE w == acc.last % P
        <5>7. w \in 0 .. (P - 1) /\ acc.last = P * (k + v) + w
          BY <5>6
        <5> HIDE DEF P, k, v, w
        <5>8. P * (k + v) = P * k + P * v /\ k * P = P * k /\ P * k \in Nat /\ P * v \in Nat
          BY <5>1, <5>2
        <5>9. P * k + (P - 1) + P * v <= P * k + P * v + w
          BY <4>2, <5>1, <5>2, <5>4, <5>5, <5>7, <5>8
        <5>10. w = P - 1
          BY <5>1, <5>7, <5>8, <5>9
        <5> QED BY <5>10 DEF w, P
      <4> QED BY <2>4, <2>5, <4>2, <4>3
    <3> QED BY <3>1, <3>2
  <2>13. FileInv'
    <3> SUFFICES ASSUME saveErrors = 0, acc.filed, NEW e \in Since, CameWhole(Pass(e)),
                        acc'.closed \/ ~Leads(Pass(e))
                 PROVE  \E m \in movie' : /\ m.pass \in Int /\ (m.pass < acc'.pass \/ (m.pass = acc'.pass /\ acc'.closed))
                                          /\ \A x \in OfPass(Pass(e)) : Has(m.frames, x)
                                          /\ KeepsFront(acc) => \A f \in m.frames : Has(OfPass(Pass(e)), f)
      BY <1>3, <2>5, <2>6, <2>11 DEF FileInv, InFile
    <3>1. movie' = Written(ToSet(o.done))
      BY <1>3 DEF Filed
    <3>2. Tracks(acc)
      BY DEF Tracks
    <3>3. CASE o = acc
      <4>1. ToSet(o.done) = {}
        BY <2>2, <3>3 DEF ToSet
      <4>2. movie' = movie
        BY <3>1, <4>1 DEF Written
      <4>3. InFile(Pass(e), movie, acc)
        BY <2>2, <2>5, <3>3 DEF FileInv
      <4> QED BY <2>5, <3>3, <4>2, <4>3 DEF InFile
    <3>4. CASE o # acc
      <4>1. ~acc.closed /\ o.closed /\ ToSet(o.done) = {z}
        BY <2>4, <3>4
      <4>2. movie' = Written({z}) /\ z.pass = acc.pass /\ z.frames = acc.image
        BY <3>1, <4>1 DEF z
      <4>3. CASE ~Leads(Pass(e))
        <5>1. PICK m \in movie : /\ m.pass \in Int /\ m.pass < acc.pass
                                 /\ \A x \in OfPass(Pass(e)) : Has(m.frames, x)
                                 /\ KeepsFront(acc) => \A f \in m.frames : Has(OfPass(Pass(e)), f)
          BY <2>2, <4>1, <4>3 DEF FileInv, InFile
        <5>2. m.pass # acc.pass
          BY <2>2, <5>1 DEF IsAcc
        <5>3. m \in movie'
          BY <4>2, <5>2, WrittenKeeps
        <5> QED BY <2>5, <5>1, <5>3
      <4>4. CASE Leads(Pass(e))
        <5>1. e.s = rounds
          <6>1. ~ (e.s < rounds)
            BY <2>2, <3>2, <4>1, <4>4 DEF EndedInv
          <6> QED BY <6>1, LogIs DEF IsEvent, ControlInv
        <5>2. /\ \A x \in OfPass(Pass(e)) : Has(acc.image, x)
              /\ KeepsFront(acc) => \A f \in acc.image : Has(OfPass(Pass(e)), f)
          BY <2>2, <3>2, <4>1, <4>4, <5>1, PassHeld
        <5>3. z \in movie'
          BY <4>2, WrittenHas
        <5>4. acc.pass \in Int
          BY <2>2 DEF IsAcc
        <5> QED BY <2>5, <4>1, <4>2, <5>2, <5>3, <5>4
      <4> QED BY <4>3, <4>4
    <3> QED BY <3>3, <3>4
  <2> QED BY <2>7, <2>8, <2>9, <2>10, <2>12, <2>13 DEF ScanInvariant
<1> QED BY <1>1, <1>2, <1>3

-----------------------------------------------------------------------------
(* What is saved, from what is known at the save.                           *)

LEMMA ReportIs ==
  ASSUME ReceivedInv, active, \A d \in log : IsEvent(d)
  PROVE  Complete <=> /\ \A p \in 0 .. (Positions - 1) : \E e \in Mine : e.i % Positions = p
                      /\ acc.wrap \/ Cardinality(Mine) = Positions
<1> DEFINE P == Positions
           I == 0 .. (P - 1)
           V == {e.i % P : e \in Mine}
<1>1. P \in Nat /\ P > 0
  BY PositionsPositive
<1>2. IsFiniteSet(I) /\ Cardinality(I) = P
  <2>1. 0 \in Int /\ P - 1 \in Int /\ ~ (0 > P - 1) /\ (P - 1) - 0 + 1 = P
    BY <1>1
  <2> QED BY <2>1, FS_Interval
<1>3. V \subseteq I
  <2> SUFFICES ASSUME NEW e \in Mine PROVE e.i % P \in I
    OBVIOUS
  <2>1. e.i \in Nat
    BY DEF Mine, IsEvent
  <2> QED BY <1>1, <2>1, Quotient
<1>4. Cardinality(V) = P <=> I \subseteq V
  <2> HIDE DEF V, I
  <2>1. Cardinality(V) = P => I = V
    <3>1. V \in SUBSET I
      BY <1>3
    <3> QED BY <1>2, <3>1, FS_Subset
  <2>2. I \subseteq V => I = V
    BY <1>3
  <2> QED BY <1>2, <2>1, <2>2
<1>5. sink.seen = V /\ sink.frames = Cardinality(Mine)
  BY DEF ReceivedInv
<1>6. I \subseteq V <=> \A p \in I : \E e \in Mine : e.i % P = p
  OBVIOUS
<1> HIDE DEF V, I
<1>7. Complete <=> Cardinality(V) = P /\ (acc.wrap \/ Cardinality(Mine) = P)
  BY <1>5 DEF Complete
<1> QED BY <1>4, <1>6, <1>7 DEF I

LEMMA ScanIs == ControlInv /\ ImageInvariant /\ ScanInvariant => ScanSaved
<1> SUFFICES ASSUME ControlInv, ImageInvariant, ScanInvariant, main = "final"
             PROVE  ReportIsTrue /\ LastPassSaved /\ PassesFiled
  BY DEF ScanSaved
<1>1. /\ ReceivedInv /\ BeganInv /\ CursorInv /\ FinalInv /\ FrontKept /\ EndedInv /\ FileInv
  BY DEF ScanInvariant, Running
<1>2. /\ active /\ (report = "complete" <=> Complete) /\ file.round = rounds
      /\ file.frames = Completed(acc) /\ ~Feeding
  BY <1>1 DEF FinalInv, Feeding
<1>3. /\ acc # NoAcc /\ AccOk(acc) /\ IsAcc(acc) /\ acc.mode \in Modes /\ acc.filed = setup.passes
      /\ rounds \in Nat
  BY <1>2 DEF ControlInv, AccOk
<1>4. /\ \A d \in log : IsEvent(d) /\ d.s <= rounds
      /\ Since \subseteq log /\ \A d \in Since : IsEvent(d) /\ d.s <= rounds
  BY LogIs
<1>5. ReportIsTrue
  BY <1>1, <1>2, <1>4, ReportIs DEF ReportIsTrue
<1>6. PassesFiled
  <2> SUFFICES ASSUME setup.passes, saveErrors = 0, NEW e \in Since, CameWhole(Pass(e))
               PROVE  \E m \in movie : /\ Ids(OfPass(Pass(e))) \subseteq Ids(m.frames)
                                       /\ KeepsFront(acc) => Ids(m.frames) = Ids(OfPass(Pass(e)))
    BY DEF PassesFiled
  <2>1. acc.filed /\ Tracks(acc)
    BY <1>3 DEF Tracks
  <2>2. acc.closed \/ ~Leads(Pass(e))
    BY <1>1, <1>2, <2>1 DEF EndedInv
  <2>3. PICK m \in movie : /\ \A x \in OfPass(Pass(e)) : Has(m.frames, x)
                           /\ KeepsFront(acc) => \A f \in m.frames : Has(OfPass(Pass(e)), f)
    BY <1>1, <2>1, <2>2 DEF FileInv, InFile
  <2>4. Ids(OfPass(Pass(e))) \subseteq Ids(m.frames)
    BY <2>3, HasId DEF Ids
  <2>5. KeepsFront(acc) => Ids(m.frames) = Ids(OfPass(Pass(e)))
    <3>1. KeepsFront(acc) => Same(m.frames, OfPass(Pass(e)))
      BY <2>3 DEF Same
    <3> QED BY <3>1, SameIds
  <2> QED BY <2>4, <2>5
<1>7. LastPassSaved
  <2> DEFINE l == LastOf(Mine)
             p == Pass(l)
             O == OfPass(p)
  <2> SUFFICES ASSUME Mine # {}, CameWhole(p)
               PROVE  /\ Ids(O) \subseteq Ids(file.frames)
                      /\ acc.mode \in {"latest", "reset", "swap"} => Ids(file.frames) = Ids(O)
    BY <1>2 DEF LastPassSaved, LastPass
  <2>1. l \in Mine /\ \A d \in Mine : ~Earlier(l, d)
    <3>1. \A e \in Mine : e \in log /\ IsEvent(e)
      BY <1>4 DEF Mine
    <3>2. IsFiniteSet(Mine)
      BY <1>1, <3>1, FS_Subset DEF ReceivedInv
    <3> QED BY <3>1, <3>2, LastIs
  <2> HIDE DEF l
  <2>2. l \in log /\ l.s = rounds /\ IsEvent(l) /\ p.s = rounds /\ p.k \in Nat
    BY <1>4, <2>1, PassOfEvent DEF Mine
  <2>3. \A x \in O : x \in Since /\ IsEvent(x) /\ Pass(x) = p /\ x.s = rounds
    BY <1>4, <2>2, PassOfEvent DEF OfPass
  <2> HIDE DEF O, p
  <2>4. \A r \in 0 .. (Positions - 1) : \E e \in O : e.i = p.k * Positions + r
    BY <2>2, <2>3, EveryPosition DEF CameWhole, O
  <2>5. O # {}
    <3>1. 0 \in 0 .. (Positions - 1)
      BY PositionsPositive
    <3> QED BY <2>4, <3>1
  <2>6. l \in O
    <3>1. PICK e \in O : TRUE
      BY <2>5
    <3>2. l \notin began
      <4> SUFFICES ASSUME l \in began PROVE FALSE
        OBVIOUS
      <4>1. l.s = e.s => l.b < e.b
        BY <1>1, <2>2, <2>3, <3>1 DEF BeganInv, IsEvent
      <4>2. Earlier(l, e)
        BY <2>2, <2>3, <3>1, <4>1 DEF Earlier
      <4>3. e \in Mine
        BY <1>4, <2>3, <3>1 DEF Mine
      <4> QED BY <2>1, <4>2, <4>3
    <3> QED BY <2>2, <3>2 DEF O, OfPass, Since, p
  <2>7. Leads(p)
    <3> SUFFICES ASSUME NEW d \in log, NewerPass(Pass(d), p) PROVE FALSE
      BY DEF Leads
    <3>1. Earlier(l, d)
      BY <2>6 DEF CameWhole, O
    <3>2. d.s = rounds
      <4>1. IsEvent(d) /\ d.s <= rounds /\ Pass(d).s = d.s
        BY <1>4, PassOfEvent
      <4> QED BY <1>3, <2>2, <4>1 DEF NewerPass, IsEvent
    <3> QED BY <2>1, <3>1, <3>2 DEF Mine
  <2>8. CASE KeepsFront(acc)
    <3>1. PICK base \in Bases :
            base[rounds] = acc.offset \div Positions /\ PassInv(acc, base, rounds, Since, log, Ahead)
      BY <2>8 DEF ImageInvariant, PassesInv
    <3>2. Tracks(acc) /\ l \in Since /\ l.s = rounds /\ Leads(Pass(l)) /\ CameWhole(Pass(l))
      BY <2>2, <2>3, <2>6, <2>7, <2>8 DEF Tracks, p
    <3>3. acc.closed
      BY <1>1, <1>2, <3>2 DEF EndedInv
    <3>4. acc.front # {}
      BY <1>1, <2>8, <3>2, <3>3 DEF FrontKept
    <3>5. acc.pass = p.k + base[rounds]
      BY <1>1, <3>1, <3>2, RunningNumber DEF Nth, Pass, p
    <3>6. ASSUME NEW c \in acc.front PROVE Same(c.frames, O)
      <4>1. /\ c.pass = acc.pass /\ OnlyOf(c.frames, acc.pass, base, Since, acc.geo)
            /\ \A e \in Since : Num(base, e) = acc.pass =>
                 Has(c.frames, e) \/ (acc.mode = "reset" /\ Overtaken(e, log))
        BY <3>1, <3>3 DEF PassInv, FrontInv
      <4>2. \A e \in Since : Pass(e) = p <=> Num(base, e) = acc.pass
        <5> TAKE e \in Since
        <5>1. /\ IsEvent(e) /\ e.s <= rounds /\ Pass(e).s = e.s /\ Pass(e).k = e.i \div Positions /\ Pass(e).k \in Nat
              /\ Pass(e) = [s |-> Pass(e).s, k |-> Pass(e).k]
          BY <1>4, PassOfEvent DEF Pass
        <5>2. p = [s |-> p.s, k |-> p.k]
          BY DEF p, Pass
        <5>3. CASE e.s = rounds
          <6>1. Num(base, e) = Pass(e).k + base[rounds] /\ base[rounds] \in Nat
            BY <1>3, <5>1, <5>3 DEF Num, Bases
          <6>2. Num(base, e) = acc.pass <=> Pass(e).k = p.k
            BY <2>2, <3>5, <5>1, <6>1
          <6> QED BY <2>2, <5>1, <5>2, <5>3, <6>2
        <5>4. CASE e.s # rounds
          <6>1. e.s < rounds /\ Num(base, e) < base[rounds] /\ base[rounds] \in Nat
            BY <1>3, <3>1, <5>1, <5>4 DEF PassInv, FedInv, Bases, IsEvent
          <6>2. Num(base, e) \in Nat
            BY <5>1, NumIsNat DEF IsEvent
          <6> QED BY <2>2, <3>5, <5>1, <5>4, <6>1, <6>2
        <5> QED BY <5>3, <5>4
      <4>3. \A f \in c.frames : Has(O, f)
        <5> TAKE f \in c.frames
        <5>1. PICK x \in Since : x.s = f.s /\ x.i = f.i
          BY <4>1 DEF OnlyOf, Has
        <5>2. Num(base, x) = acc.pass
          BY <4>1, <5>1 DEF OnlyOf, Num
        <5> QED BY <4>2, <5>1, <5>2 DEF Has, O, OfPass
      <4>4. \A e \in O : Has(c.frames, e)
        <5> TAKE e \in O
        <5>1. e \in Since /\ Num(base, e) = acc.pass /\ Pass(e) = p
          BY <2>3, <4>2
        <5>2. ~Overtaken(e, log)
          BY <2>7, <5>1 DEF Leads, Overtaken
        <5> QED BY <4>1, <5>1, <5>2
      <4> QED BY <4>3, <4>4 DEF Same
    <3>7. Same(file.frames, O)
      <4>1. file.frames = UNION {c.frames : c \in acc.front}
        BY <1>2, <3>4 DEF Completed
      <4>2. PICK c \in acc.front : TRUE
        BY <3>4
      <4>3. \A f \in file.frames : Has(O, f)
        BY <3>6, <4>1 DEF Same
      <4>4. \A e \in O : Has(file.frames, e)
        <5> TAKE e \in O
        <5>1. PICK f \in c.frames : f.s = e.s /\ f.i = e.i
          BY <3>6, <4>2 DEF Same, Has
        <5>2. f \in file.frames
          BY <4>1, <4>2, <5>1
        <5> QED BY <5>1, <5>2 DEF Has
      <4> QED BY <4>3, <4>4 DEF Same
    <3>8. Ids(file.frames) = Ids(O)
      BY <3>7, SameIds
    <3> QED BY <3>8
  <2>9. CASE ~KeepsFront(acc)
    <3>1. file.frames = acc.image
      BY <1>2, <2>9 DEF ImageInvariant, HeldInv, Completed
    <3>2. CASE acc.mode = "latest"
      <4>1. Same(acc.image, Unreplaced(Since))
        BY <2>9, <3>2 DEF ImageInvariant, HeldInv
      <4>2. /\ IsFiniteSet(Since)
            /\ \A d \in Since : IsEvent(d) /\ ~NewerPass(Pass(d), p)
            /\ \A d \in Since, y \in Since : Pass(y) = p /\ NewerPass(p, Pass(d)) => Earlier(d, y)
        <5>1. IsFiniteSet(Since)
          BY <1>1, <1>4, FS_Subset DEF ReceivedInv
        <5>2. \A d \in Since : IsEvent(d) /\ ~NewerPass(Pass(d), p)
          BY <1>4, <2>7 DEF Leads
        <5>3. \A d \in Since, y \in Since : Pass(y) = p /\ NewerPass(p, Pass(d)) => Earlier(d, y)
          BY <1>4 DEF CameWhole, OfPass
        <5> QED BY <5>1, <5>2, <5>3
      <4>3. \A x \in O : Has(Unreplaced(Since), x)
        <5> TAKE x \in O
        <5>1. x \in Since /\ Pass(x) = p
          BY <2>3
        <5> QED BY <4>2, <5>1, NewestHeld
      <4>4. ASSUME NEW x \in Unreplaced(Since) PROVE x \in O
        <5>1. x \in Since /\ IsEvent(x) /\ ~ \E d \in Since : d.i % Positions = x.i % Positions /\ Earlier(x, d)
          BY <1>4 DEF Unreplaced
        <5> DEFINE P == Positions
                   r == x.i % P
        <5>2. P \in Nat /\ P > 0 /\ r \in 0 .. (P - 1)
          BY <5>1, PositionsPositive, Quotient DEF IsEvent
        <5>3. PICK e \in O : e.i = p.k * P + r
          BY <2>4, <5>2
        <5>4. e.i % P = r
          <6> DEFINE v == p.k * P
          <6>1. v \in Nat /\ v % P = 0
            <7> HIDE DEF P
            <7> QED BY <2>2, <5>2, Multiple
          <6>2. r \in Nat
            BY <5>2
          <6>3. (r + v) % P = r % P
            <7> HIDE DEF r, v
            <7> QED BY <6>1, <6>2, Shifted DEF P
          <6>4. e.i = r + v
            <7> HIDE DEF r, v
            <7> QED BY <5>3, <6>1, <6>2 DEF v
          <6>5. r % P = r
            <7>1. \A n \in 0 .. (P - 1) : n % P = n
              <8> HIDE DEF P
              <8> QED BY <5>2
            <7> QED BY <5>2, <7>1
          <6> QED BY <6>3, <6>4, <6>5
        <5>5. ~ NewerPass(p, Pass(x))
          <6> SUFFICES ASSUME NewerPass(p, Pass(x)) PROVE FALSE
            OBVIOUS
          <6>1. Earlier(x, e)
            BY <2>3, <4>2, <5>1, <5>3
          <6> QED BY <2>3, <5>1, <5>3, <5>4, <6>1
        <5>6. Pass(x) = p
          BY <2>2, <4>2, <5>1, <5>5, OneIsNewer DEF p
        <5> QED BY <5>1, <5>6 DEF O, OfPass
      <4>5. Same(acc.image, O)
        <5>1. \A f \in acc.image : Has(O, f)
          BY <4>1, <4>4 DEF Same, Has
        <5>2. \A x \in O : Has(acc.image, x)
          BY <4>1, <4>3 DEF Same, Has
        <5> QED BY <5>1, <5>2 DEF Same
      <4>6. Ids(file.frames) = Ids(O)
        BY <3>1, <4>5, SameIds
      <4> QED BY <4>6
    <3>3. CASE acc.mode # "latest"
      <4>1. acc.mode = "all"
        BY <1>3, <2>9, <3>3 DEF KeepsFront, Modes
      <4>2. Same(acc.image, Since)
        BY <2>9, <4>1 DEF ImageInvariant, HeldInv
      <4>3. \A x \in O : Has(file.frames, x)
        BY <2>3, <3>1, <4>2 DEF Same
      <4>4. Ids(O) \subseteq Ids(file.frames)
        BY <4>3, HasId DEF Ids
      <4> QED BY <4>1, <4>4
    <3> QED BY <3>2, <3>3
  <2> QED BY <2>8, <2>9
<1> QED BY <1>5, <1>6, <1>7

-----------------------------------------------------------------------------
(* A batch that is fed as a whole.                                          *)

\* Its frames, and accumulator w behind them.
Whole(frames, w) ==
  /\ frames # {} /\ IsFiniteSet(frames) /\ Apart(acc, frames)
  /\ \A f \in frames : /\ IsFrame(f) /\ f.s = rounds /\ f.g = acc.geo /\ f.a = f.i + acc.offset
                       /\ PassOf(f) = Nth(acc, f.i) /\ Pos(f) = f.i % Positions
  /\ Fed(acc, w) /\ w.last \in Nat /\ acc.last <= w.last /\ \A f \in frames : f.a <= w.last
  /\ w.last = acc.last \/ \E f \in frames : w.last = f.a
  /\ Tracks(acc) => Completes(w, acc, frames)
  /\ acc' = Settled(w) /\ movie' = Written(ToSet(w.done))
  /\ UNCHANGED <<rounds, began, active, saveErrors>>
  /\ active /\ Feeding /\ Feeding' /\ main' # "final"
  /\ log' = log \cup Events(rounds, at + 1, frames) /\ Since' = Since \cup Events(rounds, at + 1, frames)
  /\ \A d \in log : IsEvent(d) /\ d.s <= rounds /\ (d.s = rounds => d.b < at + 1)
  /\ rounds \in Nat /\ at \in Nat /\ IsAcc(acc) /\ acc.offset % Positions = 0

\* The events of a batch.
LEMMA EventsAre ==
  ASSUME NEW frames, \A f \in frames : IsFrame(f), rounds \in Nat, at \in Nat
  PROVE  LET E == Events(rounds, at + 1, frames)
         IN /\ \A e \in E : IsEvent(e) /\ e.s = rounds /\ e.b = at + 1 /\ \E f \in frames : e.i = f.i
            /\ \A f \in frames : \E e \in E : e.i = f.i
<1> DEFINE event(f) == [s |-> rounds, b |-> at + 1, i |-> f.i]
           E == Events(rounds, at + 1, frames)
<1>1. E = {event(f) : f \in frames}
  BY DEF Events
<1>2. \A f \in frames : IsEvent(event(f)) /\ event(f).s = rounds /\ event(f).b = at + 1 /\ event(f).i = f.i
  BY DEF IsEvent, IsFrame
<1> HIDE DEF E, event
<1> QED BY <1>1, <1>2 DEF E

LEMMA FeedFrames ==
  ASSUME ControlInv, ImageInvariant, CursorInv, Feed, OnePerPosition
  PROVE  LET frames == FramesOf(acc, rounds, series.batches[at + 1])
         IN /\ frames # {} /\ IsFiniteSet(frames) /\ Apart(acc, frames)
            /\ \A f \in frames : /\ IsFrame(f) /\ f.s = rounds /\ f.g = acc.geo /\ f.a = f.i + acc.offset
                                 /\ PassOf(f) = Nth(acc, f.i) /\ Pos(f) = f.i % Positions
            /\ {f.i : f \in frames} = series.batches[at + 1]
<1> DEFINE ids    == series.batches[at + 1]
           frames == FramesOf(acc, rounds, ids)
<1>1. /\ frames # {} /\ IsFiniteSet(frames) /\ IsAcc(acc) /\ rounds \in Nat
      /\ \A f \in frames : IsFrame(f) /\ f.g = acc.geo /\ f.s = rounds
      /\ {f.i : f \in frames} = ids
  BY FeedingIs
<1>2. (\A f \in frames : Pos(f) = f.i % Positions) /\ Apart(acc, frames)
  BY FeedApart
<1>3. ids \in SUBSET Nat /\ ids # {} /\ IsFiniteSet(ids)
  BY BatchIs DEF Feed
<1>4. \A f \in frames : f.a = f.i + acc.offset
  <2>1. \A f \in frames : f.a = f.i + (IF acc.wrap THEN acc.offset ELSE 0)
    BY <1>1, <1>3, FramesAre
  <2> QED BY <2>1 DEF CursorInv
<1>5. acc.offset \in Nat /\ acc.offset % Positions = 0
  BY <1>1 DEF ControlInv, AccOk, IsAcc
<1> HIDE DEF frames
<1>6. ASSUME NEW f \in frames PROVE PassOf(f) = Nth(acc, f.i)
  <2>1. f.i \in Nat /\ f.a = f.i + acc.offset
    BY <1>1, <1>4 DEF IsFrame
  <2> QED BY <1>5, <2>1, Shifted DEF PassOf, Nth
<1> QED BY <1>1, <1>2, <1>4, <1>6 DEF frames

\* The frames come to no closed pass, and to an image without frames if there is no open one.
LEMMA FeedFiles ==
  ASSUME ControlInv, ImageInvariant, CursorInv, Feed, OnePerPosition, Tracks(acc)
  PROVE  FileStep(acc, FramesOf(acc, rounds, series.batches[at + 1]))
<1> DEFINE frames == FramesOf(acc, rounds, series.batches[at + 1])
<1>1. /\ frames # {} /\ IsFiniteSet(frames) /\ Apart(acc, frames)
      /\ \A f \in frames : IsFrame(f) /\ PassOf(f) = Nth(acc, f.i)
  BY FeedFrames
<1>2. IsAcc(acc) /\ acc.done = <<>> /\ Feeding
  BY FeedingIs
<1> HIDE DEF frames
<1>3. acc.closed => acc.pass >= 0 /\ \A f \in frames : PassOf(f) > acc.pass
  <2> SUFFICES ASSUME acc.closed, NEW f \in frames PROVE acc.pass >= 0 /\ PassOf(f) > acc.pass
    BY <1>2 DEF CursorInv
  <2>1. acc.pass >= 0 /\ acc.pass < acc.offset \div Positions
    BY <1>2 DEF CursorInv
  <2>2. f.i \div Positions \in Nat /\ acc.offset \div Positions \in Nat /\ acc.pass \in Int
    BY <1>1, <1>2, PositionsPositive, Quotient DEF IsFrame, IsAcc
  <2>3. PassOf(f) = f.i \div Positions + acc.offset \div Positions
    BY <1>1 DEF Nth
  <2> QED BY <2>1, <2>2, <2>3
<1>4. KeepsFront(acc) /\ (acc.pass = -1 \/ acc.closed) => acc.image = {}
  <2> SUFFICES ASSUME KeepsFront(acc), acc.pass = -1, NEW f \in acc.image PROVE FALSE
    BY DEF ImageInvariant, PassesInv, PassInv, ImageInv
  <2>1. PICK base \in Bases : PassInv(acc, base, rounds, Since, log, Ahead)
    BY DEF ImageInvariant, PassesInv
  <2>2. Num(base, f) = -1
    BY <2>1 DEF PassInv, ImageInv, OnlyOf
  <2>3. Num(base, f) \in Nat
    BY <1>2, NumIsNat DEF IsAcc, IsFrame
  <2> QED BY <2>2, <2>3
<1>5. ~KeepsFront(acc) => acc.front = {}
  BY DEF ImageInvariant, HeldInv
<1>6. FileStep(acc, frames)
  BY <1>1, <1>2, <1>3, <1>4, <1>5 DEF FileStep
<1> QED BY <1>6 DEF frames

LEMMA FeedWhole ==
  ASSUME ControlInv, ImageInvariant, CursorInv, Feed, OnePerPosition, main' # "stop"
  PROVE  LET ids    == series.batches[at + 1]
             frames == FramesOf(acc, rounds, ids)
         IN /\ Whole(frames, Process(acc, series.kind, frames, TRUE))
            /\ ~OutsideScan(ids) /\ {f.i : f \in frames} = ids
            /\ sink' = [seen |-> sink.seen \cup Marked(ids), frames |-> sink.frames + Cardinality(ids)]
<1> DEFINE ids    == series.batches[at + 1]
           frames == FramesOf(acc, rounds, ids)
           w      == Process(acc, series.kind, frames, TRUE)
           E      == Events(rounds, at + 1, frames)
<1>1. /\ frames # {} /\ IsFiniteSet(frames) /\ Apart(acc, frames)
      /\ \A f \in frames : /\ IsFrame(f) /\ f.s = rounds /\ f.g = acc.geo /\ f.a = f.i + acc.offset
                           /\ PassOf(f) = Nth(acc, f.i) /\ Pos(f) = f.i % Positions
      /\ {f.i : f \in frames} = ids
  BY FeedFrames
<1>2. /\ Feeding /\ at \in Nat /\ rounds \in Nat /\ IsAcc(acc)
      /\ \A d \in log : /\ d.s \in Nat /\ d.b \in Nat /\ d.i \in Nat /\ d.s <= rounds
                        /\ d.s = rounds => d.b < at + 1
  BY FeedingIs
<1>3. /\ ~OutsideScan(ids) /\ acc' = Settled(w) /\ movie' = Filed(w) /\ saveErrors' = saveErrors
      /\ sink' = [seen |-> sink.seen \cup Marked(ids), frames |-> sink.frames + Cardinality(ids)]
      /\ log' = Logged(frames) /\ main' \in {"run", "preview"}
      /\ active /\ UNCHANGED <<rounds, active, began>>
  BY DEF Feed, Fail
<1>4. Tracks(acc) => Completes(w, acc, frames)
  <2>1. Tracks(acc) => FileStep(acc, frames)
    BY FeedFiles
  <2> HIDE DEF frames
  <2> QED BY <1>1, <2>1, ProcessFiles
<1>5. acc.offset % Positions = 0
  BY <1>3 DEF ControlInv, AccOk
<1>6. log' = log \cup E /\ movie' = Written(ToSet(w.done))
  BY <1>3 DEF Logged, Events, Filed
<1> HIDE DEF frames
<1> DEFINE disk == TRUE
<1> HIDE DEF disk
<1>7. /\ Fed(acc, w) /\ w.last \in Nat /\ acc.last <= w.last /\ \A f \in frames : f.a <= w.last
      /\ w.last = acc.last \/ \E f \in frames : w.last = f.a
  <2> DEFINE v == Process(acc, series.kind, frames, disk)
  <2>1. Fed(acc, v)
    BY <1>1, <1>2, ProcessFeeds
  <2>2. /\ v.last \in Nat /\ acc.last <= v.last /\ \A f \in frames : f.a <= v.last
        /\ v.last = acc.last \/ \E f \in frames : v.last = f.a
    BY <1>1, <1>2, ProcessMoves
  <2>3. v = w
    BY DEF disk
  <2> HIDE DEF v, w
  <2> QED BY <2>1, <2>2, <2>3
<1>8. Since' = Since \cup E
  <2>1. \A e \in E : e.b = at + 1 /\ e.s = rounds
    BY <1>1, <1>2, EventsAre
  <2>2. E \cap began = {}
    BY <1>2, <2>1 DEF ImageInvariant
  <2> HIDE DEF E
  <2> QED BY <1>3, <1>6, <2>2 DEF Since
<1>9. Feeding'
  BY <1>3 DEF Feeding
<1>10. \A d \in log : IsEvent(d) /\ d.s <= rounds /\ (d.s = rounds => d.b < at + 1)
  BY <1>2 DEF IsEvent
<1> HIDE DEF w, ids
<1>11. Whole(frames, w)
  BY <1>1, <1>2, <1>3, <1>4, <1>5, <1>6, <1>7, <1>8, <1>9, <1>10 DEF Whole
<1> QED BY <1>1, <1>3, <1>11 DEF w, frames, ids

\* What the next state has of the accumulator behind the batch.
LEMMA WholeIs ==
  ASSUME NEW frames, NEW w, Whole(frames, w)
  PROVE  /\ acc'.image = w.image /\ acc'.front = w.front /\ acc'.pass = w.pass /\ acc'.closed = w.closed
         /\ acc'.last = w.last /\ acc'.mode = acc.mode /\ acc'.wrap = acc.wrap
         /\ acc'.offset = acc.offset /\ acc'.filed = acc.filed
         /\ (KeepsFront(acc') <=> KeepsFront(acc)) /\ (Tracks(acc') <=> Tracks(acc))
         /\ IsAcc(w) /\ w.pass \in Int /\ acc.pass \in Int
<1>1. Fed(acc, w) /\ acc' = Settled(w) /\ IsAcc(acc)
  BY DEF Whole
<1>2. IsAcc(w) /\ w.mode = acc.mode /\ w.wrap = acc.wrap /\ w.offset = acc.offset /\ w.filed = acc.filed
  BY <1>1 DEF Fed
<1>3. LET b == Settled(w)
      IN /\ b.image = w.image /\ b.front = w.front /\ b.pass = w.pass /\ b.closed = w.closed
         /\ b.mode = w.mode /\ b.last = w.last /\ b.wrap = w.wrap /\ b.offset = w.offset
  BY <1>2, SettledIs
<1>4. Settled(w).filed = w.filed
  BY <1>2 DEF Settled, IsAcc
<1>5. w.pass \in Int /\ acc.pass \in Int
  BY <1>1, <1>2 DEF IsAcc
<1> QED BY <1>1, <1>2, <1>3, <1>4, <1>5 DEF KeepsFront, Tracks

LEMMA FeedReceived ==
  ASSUME ReceivedInv, NEW frames, NEW w, Whole(frames, w),
         NEW ids \in SUBSET Nat, IsFiniteSet(ids), {f.i : f \in frames} = ids, ~OutsideScan(ids),
         sink' = [seen |-> sink.seen \cup Marked(ids), frames |-> sink.frames + Cardinality(ids)]
  PROVE  ReceivedInv'
<1> DEFINE E == Events(rounds, at + 1, frames)
           event(i) == [s |-> rounds, b |-> at + 1, i |-> i]
           h == [i \in ids |-> event(i)]
<1>1. E = {event(i) : i \in ids}
  BY DEF Events
<1>2. h \in Bijection(ids, E)
  <2>1. \A i, j \in ids : h[i] = h[j] => i = j
    OBVIOUS
  <2>2. h \in [ids -> E] /\ \A e \in E : \E i \in ids : h[i] = e
    BY <1>1
  <2> HIDE DEF h, E
  <2>3. h \in Injection(ids, E) /\ h \in Surjection(ids, E)
    BY <2>1, <2>2 DEF Injection, IsInjective, Surjection
  <2> QED BY <2>3 DEF Bijection
<1>3. IsFiniteSet(E) /\ Cardinality(E) = Cardinality(ids)
  <2> HIDE DEF h, E
  <2>1. ExistsBijection(ids, E)
    BY <1>2 DEF ExistsBijection
  <2> QED BY <2>1, FS_Bijection
<1>4. \A e \in E : e.s = rounds /\ e.b = at + 1 /\ e.i \in ids
  BY <1>1
<1>5. \A i \in ids : \E e \in E : e.i = i
  <2> TAKE i \in ids
  <2>1. event(i) \in E /\ event(i).i = i
    BY <1>1
  <2> HIDE DEF E, event
  <2> QED BY <2>1
<1> HIDE DEF E
<1>6. log' = log \cup E /\ rounds' = rounds /\ active /\ active' = active /\ acc.wrap = acc'.wrap
      /\ rounds \in Nat /\ at \in Nat /\ \A d \in log : d.s = rounds => d.b < at + 1
  BY WholeIs DEF Whole, E
<1>7. Mine' = Mine \cup E /\ Mine \cap E = {} /\ Mine \subseteq log
  <2>1. \A e \in E : e \notin log
    BY <1>4, <1>6 DEF IsEvent
  <2> QED BY <1>4, <1>6, <2>1 DEF Mine
<1>8. IsFiniteSet(log) /\ sink.seen = {e.i % Positions : e \in Mine} /\ sink.frames = Cardinality(Mine)
  BY <1>6 DEF ReceivedInv
<1>9. IsFiniteSet(log \cup E)
  BY <1>3, <1>8, FS_Union
<1>10. IsFiniteSet(Mine)
  BY <1>7, <1>8, FS_Subset
<1>11. Cardinality(Mine \cup E) = Cardinality(Mine) + Cardinality(ids)
  <2>1. Cardinality(Mine \cup E) = Cardinality(Mine) + Cardinality(E) - Cardinality(Mine \cap E)
    BY <1>3, <1>10, FS_Union
  <2>2. Cardinality(Mine \cap E) = 0
    BY <1>7, FS_EmptySet
  <2>3. Cardinality(Mine) \in Nat /\ Cardinality(E) \in Nat
    BY <1>3, <1>10, FS_CardinalityType
  <2> QED BY <1>3, <2>1, <2>2, <2>3
<1>12. Marked(ids) = {i % Positions : i \in ids}
  <2>1. CASE acc.wrap
    BY <2>1 DEF Marked
  <2>2. CASE ~acc.wrap
    <3>1. \A i \in ids : i % Positions = i
      <4> TAKE i \in ids
      <4>1. i \in Nat /\ i < Positions
        BY <2>2, PositionsPositive DEF OutsideScan
      <4> QED BY <4>1, PositionsPositive
    <3> QED BY <2>2, <3>1 DEF Marked
  <2> QED BY <2>1, <2>2
<1>13. {i % Positions : i \in ids} = {e.i % Positions : e \in E}
  BY <1>4, <1>5
<1>14. sink'.seen = {e.i % Positions : e \in Mine'} /\ sink'.frames = Cardinality(Mine')
  BY <1>7, <1>8, <1>11, <1>12, <1>13
<1> QED BY <1>6, <1>9, <1>14 DEF ReceivedInv

LEMMA FeedBegan ==
  ASSUME BeganInv, began \subseteq log, NEW frames, NEW w, Whole(frames, w) PROVE BeganInv'
<1> DEFINE E == Events(rounds, at + 1, frames)
<1>1. /\ Since' = Since \cup E /\ began' = began /\ rounds \in Nat
      /\ \A d \in log : d.s \in Nat /\ d.s <= rounds /\ (d.s = rounds => d.b < at + 1)
  BY DEF Whole, IsEvent
<1>2. \A e \in E : e.s = rounds /\ e.b = at + 1
  BY DEF Events
<1> HIDE DEF E
<1>3. ASSUME NEW d \in began, NEW e \in E PROVE d.s < e.s \/ (d.s = e.s /\ d.b < e.b)
  <2>1. d.s \in Nat /\ d.s <= rounds /\ (d.s = rounds => d.b < at + 1)
    BY <1>1
  <2> QED BY <1>1, <1>2, <2>1
<1> QED BY <1>1, <1>3 DEF BeganInv

LEMMA FeedCursor ==
  ASSUME CursorInv, NEW frames, NEW w, Whole(frames, w)
  PROVE  CursorInv' /\ (Tracks(acc) => w.pass = w.last \div Positions)
<1> DEFINE E == Events(rounds, at + 1, frames)
<1>1. /\ acc'.pass = w.pass /\ acc'.closed = w.closed /\ acc'.last = w.last /\ acc'.wrap = acc.wrap
      /\ acc'.offset = acc.offset /\ (Tracks(acc') <=> Tracks(acc))
      /\ IsAcc(w) /\ w.pass \in Int /\ acc.pass \in Int
  BY WholeIs
<1>2. /\ \A f \in frames : IsFrame(f) /\ f.a = f.i + acc.offset /\ PassOf(f) = Nth(acc, f.i) /\ f.a <= w.last
      /\ w.last \in Nat /\ acc.last <= w.last /\ IsAcc(acc) /\ acc.last \in Int
      /\ w.last = acc.last \/ \E f \in frames : w.last = f.a
      /\ Tracks(acc) => Completes(w, acc, frames)
      /\ Since' = Since \cup E /\ log' = log \cup E /\ rounds' = rounds
      /\ \A d \in log : IsEvent(d)
      /\ rounds \in Nat /\ at \in Nat
  BY DEF Whole, IsAcc
<1>3. /\ \A e \in E : IsEvent(e) /\ e.s = rounds /\ \E f \in frames : e.i = f.i
      /\ \A f \in frames : \E e \in E : e.i = f.i
  BY <1>2, EventsAre
<1> HIDE DEF E
<1>4. \A i : Nth(acc', i) = Nth(acc, i)
  BY <1>1 DEF Nth
<1>5. ASSUME NEW e \in Since' PROVE acc'.last >= 0 /\ (e.s = rounds' => e.i + acc'.offset <= acc'.last)
  <2>1. CASE e \in Since
    <3>1. e.s = rounds => e.i + acc.offset <= acc.last
      BY <2>1 DEF CursorInv
    <3>2. e.i \in Nat /\ acc.offset \in Nat
      BY <1>2, <2>1 DEF Since, IsEvent, IsAcc
    <3> QED BY <1>1, <1>2, <3>1, <3>2
  <2>2. CASE e \in E
    BY <1>1, <1>2, <1>3, <2>2
  <2> QED BY <1>2, <2>1, <2>2
<1>6. ASSUME Tracks(acc)
      PROVE  /\ w.pass = w.last \div Positions /\ ~w.closed
             /\ w.pass >= acc.offset \div Positions => \E d \in Mine' : Nth(acc, d.i) = w.pass
  <2>1. /\ ~w.closed /\ w.pass >= acc.pass /\ \A f \in frames : PassOf(f) <= w.pass
        /\ w.pass = acc.pass \/ \E f \in frames : PassOf(f) = w.pass
    BY <1>2, <1>6 DEF Completes
  <2>2. acc.pass = IF acc.last < 0 THEN -1 ELSE acc.last \div Positions
    BY <1>6 DEF CursorInv
  <2>3. w.pass = w.last \div Positions
    BY <1>1, <1>2, <2>1, <2>2, PassFollows
  <2>4. Mine \subseteq Mine' /\ E \subseteq Mine'
    BY <1>2, <1>3 DEF Mine
  <2>5. CASE w.pass = acc.pass
    BY <1>6, <2>1, <2>3, <2>4, <2>5 DEF CursorInv
  <2>6. ASSUME NEW f \in frames, PassOf(f) = w.pass PROVE \E d \in Mine' : Nth(acc, d.i) = w.pass
    BY <1>2, <1>3, <2>4, <2>6
  <2> QED BY <2>1, <2>3, <2>5, <2>6
<1>7. ~ (acc'.last < 0)
  BY <1>1, <1>2
<1>8. CursorInv'
  BY <1>1, <1>4, <1>5, <1>6, <1>7 DEF CursorInv
<1> QED BY <1>6, <1>8

\* Behind a batch no pass is closed, and none of an earlier series is the newest.
LEMMA FeedEnded ==
  ASSUME NEW frames, NEW w, Whole(frames, w), ImageInvariant PROVE EndedInv' /\ FrontKept' /\ FinalInv'
<1> DEFINE E == Events(rounds, at + 1, frames)
<1>1. acc'.closed = w.closed /\ (KeepsFront(acc') <=> KeepsFront(acc)) /\ (Tracks(acc') <=> Tracks(acc))
  BY WholeIs
<1>2. /\ Since' = Since \cup E /\ log' = log \cup E /\ rounds' = rounds /\ Feeding' /\ main' # "final"
      /\ Tracks(acc) => ~w.closed
      /\ rounds \in Nat /\ at \in Nat /\ frames # {} /\ \A f \in frames : IsFrame(f)
  BY DEF Whole, Completes
<1>3. FinalInv' /\ FrontKept'
  BY <1>1, <1>2 DEF FinalInv, FrontKept, Tracks
<1>4. EndedInv'
  <2> SUFFICES ASSUME NEW e \in Since', Leads(Pass(e))', e.s < rounds PROVE FALSE
    BY <1>2 DEF EndedInv
  <2>1. PICK x \in E : IsEvent(x) /\ x.s = rounds
    BY <1>2, EventsAre
  <2>2. ~NewerPass(Pass(x), Pass(e))
    BY <1>2 DEF Leads
  <2>3. Pass(x).s = rounds /\ Pass(e).s = e.s
    BY <2>1 DEF Pass
  <2> QED BY <1>2, <2>2, <2>3 DEF NewerPass
<1> QED BY <1>3, <1>4

\* Behind the batch a file of an older number holds O.
FiledBelow(O, w) ==
  \E m \in movie' : /\ m.pass \in Int /\ m.pass < w.pass
                    /\ \A x \in O : Has(m.frames, x)
                    /\ KeepsFront(acc) => \A f \in m.frames : Has(O, f)

\* A file stays, since a batch writes none of an older number, or of the one a closed pass has.
LEMMA FileStays ==
  ASSUME CursorInv, Tracks(acc), NEW frames, NEW w, Whole(frames, w), NEW p, InFile(p, movie, acc)
  PROVE  FiledBelow(OfPass(p), w)
<1>1. PICK m \in movie : /\ m.pass \in Int /\ (m.pass < acc.pass \/ (m.pass = acc.pass /\ acc.closed))
                         /\ \A x \in OfPass(p) : Has(m.frames, x)
                         /\ KeepsFront(acc) => \A f \in m.frames : Has(OfPass(p), f)
  BY DEF InFile
<1>2. /\ w.pass \in Int /\ acc.pass \in Int /\ w.pass >= acc.pass
      /\ \A x \in ToSet(w.done) : x.pass \in Int /\ x.pass >= acc.pass /\ (x.pass = acc.pass => ~acc.closed)
      /\ \A f \in frames : PassOf(f) <= w.pass
  BY WholeIs DEF Whole, Completes
<1>3. m \in movie'
  <2>1. \A x \in ToSet(w.done) : m.pass # x.pass
    BY <1>1, <1>2
  <2>2. m \in Written(ToSet(w.done))
    BY <2>1, WrittenKeeps
  <2> QED BY <2>2 DEF Whole
<1>4. m.pass < w.pass
  <2>1. CASE m.pass < acc.pass
    BY <1>1, <1>2, <2>1
  <2>2. CASE m.pass = acc.pass /\ acc.closed
    <3>1. PICK f \in frames : IsFrame(f) /\ PassOf(f) = Nth(acc, f.i) /\ Feeding /\ IsAcc(acc)
      BY DEF Whole
    <3>2. f.i \div Positions \in Nat /\ acc.offset \div Positions \in Nat
      BY <3>1, PositionsPositive, Quotient DEF IsFrame, IsAcc
    <3>3. acc.pass < acc.offset \div Positions
      BY <2>2, <3>1 DEF CursorInv
    <3>4. f.i \div Positions + acc.offset \div Positions <= w.pass
      BY <1>2, <3>1 DEF Nth
    <3> QED BY <1>2, <2>2, <3>2, <3>3, <3>4
  <2> QED BY <1>1, <2>1, <2>2
<1> QED BY <1>1, <1>3, <1>4 DEF FiledBelow

\* A pass that came as a whole, and has something newer behind it.
LEMMA FeedStill ==
  ASSUME ControlInv, ImageInvariant, CursorInv, FileInv, NEW frames, NEW w, Whole(frames, w),
         saveErrors = 0, acc.filed, NEW e \in Since', CameWhole(Pass(e))',
         NEW d \in log, NewerPass(Pass(d), Pass(e))
  PROVE  FiledBelow(OfPass(Pass(e))', w)
<1> DEFINE E == Events(rounds, at + 1, frames)
           p == Pass(e)
<1>1. /\ Since' = Since \cup E /\ log' = log \cup E
      /\ \A x \in log : IsEvent(x) /\ x.s <= rounds /\ (x.s = rounds => x.b < at + 1)
      /\ rounds \in Nat /\ at \in Nat /\ \A f \in frames : IsFrame(f)
  BY DEF Whole
<1>2. \A x \in E : IsEvent(x) /\ x.s = rounds /\ x.b = at + 1
  BY <1>1, EventsAre
<1> HIDE DEF E
<1>3. \A x \in OfPass(p)' : NewerPass(Pass(d), p) => Earlier(x, d)
  BY <1>1 DEF CameWhole
<1>4. ASSUME NEW x \in E, Pass(x) = p PROVE FALSE
  <2>1. x \in OfPass(p)'
    BY <1>1, <1>4 DEF OfPass
  <2>2. Earlier(x, d)
    BY <1>3, <2>1
  <2>3. Earlier(d, x)
    <3>1. IsEvent(d) /\ d.s <= rounds /\ (d.s = rounds => d.b < at + 1)
      BY <1>1
    <3> QED BY <1>1, <1>2, <3>1 DEF IsEvent, Earlier
  <2> QED BY <1>1, <1>2, <2>2, <2>3, OneWay
<1>5. OfPass(p)' = OfPass(p) /\ e \in Since
  BY <1>1, <1>4 DEF OfPass
<1>6. CameWhole(p)
  BY <1>1, <1>5 DEF CameWhole
<1>7. ~Leads(p)
  BY DEF Leads
<1>8. InFile(p, movie, acc)
  BY <1>5, <1>6, <1>7 DEF FileInv
<1>9. Tracks(acc)
  BY DEF Tracks
<1>10. FiledBelow(OfPass(p), w)
  <2> HIDE DEF p
  <2> QED BY <1>8, <1>9, FileStays
<1> QED BY <1>5, <1>10

\* One of an earlier series, which this batch is behind.
LEMMA FeedAfter ==
  ASSUME ControlInv, ImageInvariant, CursorInv, EndedInv, FileInv, NEW frames, NEW w, Whole(frames, w),
         saveErrors = 0, acc.filed, NEW e \in Since', CameWhole(Pass(e))', Leads(Pass(e)), e.s < rounds
  PROVE  FiledBelow(OfPass(Pass(e))', w)
<1> DEFINE E == Events(rounds, at + 1, frames)
           p == Pass(e)
<1>1. /\ Since' = Since \cup E /\ log' = log \cup E
      /\ rounds \in Nat /\ at \in Nat /\ \A f \in frames : IsFrame(f)
  BY DEF Whole
<1>2. \A x \in E : IsEvent(x) /\ x.s = rounds
  BY <1>1, EventsAre
<1> HIDE DEF E
<1>3. ASSUME NEW x \in E, Pass(x) = p PROVE FALSE
  <2>1. Pass(x).s = x.s /\ p.s = e.s
    BY DEF Pass
  <2>2. rounds = e.s
    BY <1>2, <1>3, <2>1
  <2> QED BY <1>1, <2>2
<1>4. OfPass(p)' = OfPass(p) /\ e \in Since
  BY <1>1, <1>3 DEF OfPass
<1>5. CameWhole(p)
  BY <1>1, <1>4 DEF CameWhole
<1>6. Tracks(acc)
  BY DEF Tracks
<1>7. acc.closed
  BY <1>4, <1>5, <1>6 DEF EndedInv
<1>8. InFile(p, movie, acc)
  BY <1>4, <1>5, <1>7 DEF FileInv
<1>9. FiledBelow(OfPass(p), w)
  <2> HIDE DEF p
  <2> QED BY <1>6, <1>8, FileStays
<1> QED BY <1>4, <1>9

\* One of this series that the batch follows: it was the running pass, or is of the batch itself.
LEMMA FeedPassed ==
  ASSUME ControlInv, ImageInvariant, CursorInv, Tracks(acc), NEW frames, NEW w, Whole(frames, w),
         NEW e \in Since', Leads(Pass(e)), e.s = rounds, NEW d \in log', NewerPass(Pass(d), Pass(e))
  PROVE  LET q == Nth(acc, e.i)
         IN /\ q \in Nat /\ q < w.pass /\ Passed(acc, frames, q)
            /\ (\E y \in Since : Pass(y) = Pass(e)) => q = acc.pass
<1> DEFINE E == Events(rounds, at + 1, frames)
           v == acc.offset \div Positions
           k == e.i \div Positions
           q == Nth(acc, e.i)
           p == Pass(e)
<1>1. /\ Since' = Since \cup E /\ log' = log \cup E /\ \A x \in log : IsEvent(x)
      /\ rounds \in Nat /\ at \in Nat /\ Feeding /\ IsAcc(acc) /\ acc.offset % Positions = 0
      /\ \A f \in frames : IsFrame(f) /\ PassOf(f) = Nth(acc, f.i) /\ PassOf(f) <= w.pass
  BY DEF Whole, Completes
<1>2. /\ \A x \in E : IsEvent(x) /\ x.s = rounds /\ \E f \in frames : x.i = f.i
  BY <1>1, EventsAre
<1> HIDE DEF E
<1>3. \A x \in log' : IsEvent(x)
  BY <1>1, <1>2
<1>4. e \in log' /\ IsEvent(e)
  BY <1>3 DEF Since
<1>5. k \in Nat /\ v \in Nat /\ q = k + v /\ p.s = rounds /\ p.k = k /\ acc.offset \in Nat
  <2>1. k \in Nat /\ v \in Nat
    BY <1>1, <1>4, PositionsPositive, Quotient DEF IsEvent, IsAcc
  <2> QED BY <1>1, <2>1 DEF Nth, Pass, IsAcc
<1>6. acc.pass \in Int /\ w.pass \in Int /\ acc.last \in Int
  BY <1>1, WholeIs DEF IsAcc
<1>7. q < w.pass
  <2>1. d \in E
    BY <1>1 DEF Leads
  <2>2. PICK f \in frames : d.i = f.i
    BY <1>2, <2>1
  <2>3. d.s = rounds /\ d.i \div Positions \in Nat /\ Pass(d).s = d.s /\ Pass(d).k = d.i \div Positions
    BY <1>2, <2>1, PassOfEvent
  <2>4. d.i \div Positions > k
    <3>1. NewerPass(Pass(d), p)
      OBVIOUS
    <3> HIDE DEF p
    <3> QED BY <1>1, <1>5, <2>3, <3>1 DEF NewerPass
  <2>5. d.i \div Positions + v <= w.pass
    BY <1>1, <2>2 DEF Nth
  <2> HIDE DEF k, v, q
  <2> QED BY <1>5, <1>6, <2>3, <2>4, <2>5
<1>8. ~ (q < acc.pass)
  <2> SUFFICES ASSUME q < acc.pass PROVE FALSE
    OBVIOUS
  <2>1. acc.pass >= v
    <3> HIDE DEF q, k, v
    <3> QED BY <1>5, <1>6
  <2>2. PICK x \in Mine : Nth(acc, x.i) = acc.pass
    BY <2>1 DEF CursorInv
  <2>3. x \in log /\ x.s = rounds /\ Pass(x).s = x.s /\ Pass(x).k = x.i \div Positions /\ Pass(x).k \in Nat
    BY <1>1, PassOfEvent DEF Mine
  <2>4. Pass(x).k + v = acc.pass
    BY <2>2, <2>3 DEF Nth
  <2>5. Pass(x).k > p.k
    <3> HIDE DEF q, k, v, p
    <3> QED BY <1>5, <1>6, <2>3, <2>4
  <2>6. NewerPass(Pass(x), p)
    <3>1. Pass(x).s = p.s
      BY <1>5, <2>3
    <3> HIDE DEF p
    <3> QED BY <2>5, <3>1 DEF NewerPass
  <2> QED BY <2>3, <2>6 DEF Leads
<1>9. q = acc.pass => ~acc.closed
  <2> SUFFICES ASSUME q = acc.pass, acc.closed PROVE FALSE
    OBVIOUS
  <2>1. acc.pass < v
    BY <1>1 DEF CursorInv
  <2> HIDE DEF q, k, v
  <2> QED BY <1>5, <1>6, <2>1
<1>10. ASSUME NEW y \in Since, Pass(y) = p PROVE q = acc.pass
  <2>1. y.s = rounds /\ y.i \div Positions = k /\ y.i \in Nat
    BY <1>1, <1>5, <1>10, LogIs DEF Pass, IsEvent
  <2>2. acc.last >= 0 /\ y.i + acc.offset <= acc.last
    BY <2>1 DEF CursorInv
  <2>3. acc.pass = acc.last \div Positions
    BY <1>6, <2>2 DEF CursorInv
  <2>4. (y.i + acc.offset) \div Positions = k + v
    BY <1>1, <1>5, <2>1, Shifted
  <2>5. k + v <= acc.last \div Positions
    <3>1. y.i + acc.offset \in Nat /\ acc.last \in Nat
      BY <1>5, <1>6, <2>1, <2>2
    <3> QED BY <2>2, <2>4, <3>1, DivMonotone
  <2> HIDE DEF q, k, v
  <2> QED BY <1>5, <1>6, <1>8, <2>3, <2>5
<1>11. q > acc.pass => InPass(frames, q) # {}
  <2> SUFFICES ASSUME q > acc.pass PROVE InPass(frames, q) # {}
    OBVIOUS
  <2>1. e \in E
    <3>1. e \notin Since
      <4>1. q # acc.pass
        <5> HIDE DEF q
        <5> QED BY <1>6
      <4> QED BY <1>10, <4>1
    <3> QED BY <1>1, <3>1
  <2>2. PICK f \in frames : e.i = f.i
    BY <1>2, <2>1
  <2>3. PassOf(f) = q
    BY <1>1, <2>2
  <2> QED BY <2>3 DEF InPass
<1>12. q \in Nat /\ (q = acc.pass \/ q > acc.pass)
  <2> HIDE DEF q, k, v
  <2> QED BY <1>5, <1>6, <1>8
<1> HIDE DEF q
<1> QED BY <1>7, <1>9, <1>10, <1>11, <1>12 DEF Passed, q

\* The frames of a batch that are of pass p of this series.
LEMMA BatchOfPass ==
  ASSUME NEW frames, NEW w, Whole(frames, w),
         NEW p, p.s = rounds, p.k \in Nat, p = [s |-> p.s, k |-> p.k],
         NEW q, q = p.k + acc.offset \div Positions
  PROVE  LET E == Events(rounds, at + 1, frames)
         IN /\ \A x \in E : Pass(x) = p => \E f \in InPass(frames, q) : f.s = x.s /\ f.i = x.i
            /\ \A f \in InPass(frames, q) : \E x \in E : Pass(x) = p /\ x.s = f.s /\ x.i = f.i
            /\ \A f \in Upto(frames, q) : f.i \div Positions <= p.k
<1> DEFINE E == Events(rounds, at + 1, frames)
           v == acc.offset \div Positions
<1>1. /\ rounds \in Nat /\ at \in Nat /\ IsAcc(acc)
      /\ \A f \in frames : IsFrame(f) /\ f.s = rounds /\ PassOf(f) = f.i \div Positions + v
  BY DEF Whole, Nth
<1>2. v \in Nat /\ \A f \in frames : f.i \in Nat /\ f.i \div Positions \in Nat
  BY <1>1, PositionsPositive, Quotient DEF IsFrame, IsAcc
<1>3. /\ \A x \in E : IsEvent(x) /\ x.s = rounds /\ \E f \in frames : x.i = f.i
      /\ \A f \in frames : \E x \in E : x.i = f.i
  BY <1>1, EventsAre
<1>4. q = p.k + v
  OBVIOUS
<1> HIDE DEF E, v
<1>5. ASSUME NEW x \in E, Pass(x) = p PROVE \E f \in InPass(frames, q) : f.s = x.s /\ f.i = x.i
  <2>1. PICK f \in frames : x.i = f.i
    BY <1>3
  <2>2. x.i \div Positions = p.k
    BY <1>5 DEF Pass
  <2>3. PassOf(f) = q
    BY <1>1, <1>4, <2>1, <2>2
  <2> QED BY <1>1, <1>3, <2>1, <2>3 DEF InPass
<1>6. ASSUME NEW f \in InPass(frames, q) PROVE \E x \in E : Pass(x) = p /\ x.s = f.s /\ x.i = f.i
  <2>1. f \in frames /\ PassOf(f) = q
    BY DEF InPass
  <2>2. PICK x \in E : x.i = f.i
    BY <1>3, <2>1
  <2>3. f.i \div Positions = p.k
    BY <1>1, <1>2, <1>4, <2>1
  <2>4. Pass(x) = p
    BY <1>3, <2>2, <2>3 DEF Pass
  <2> QED BY <1>1, <1>3, <2>1, <2>2, <2>4
<1>7. ASSUME NEW f \in Upto(frames, q) PROVE f.i \div Positions <= p.k
  <2>1. f \in frames /\ PassOf(f) <= q
    BY DEF Upto
  <2> QED BY <1>1, <1>2, <1>4, <2>1
<1> QED BY <1>5, <1>6, <1>7 DEF E

\* The pass that is e's, as the lemmas take it.
LEMMA ThisPass ==
  ASSUME NEW e, IsEvent(e), e.s = rounds
  PROVE  LET p == Pass(e)
         IN /\ p.s = rounds /\ p.k \in Nat /\ p = [s |-> p.s, k |-> p.k] /\ DOMAIN p = {"s", "k"}
            /\ Nth(acc, e.i) = p.k + acc.offset \div Positions
<1>1. Pass(e).s = rounds /\ Pass(e).k \in Nat /\ Pass(e).k = e.i \div Positions
  BY PassOfEvent
<1> QED BY <1>1 DEF Pass, Nth

\* "reset" and "swap": the image holds the running pass, and only it.
LEMMA FrontHolds ==
  ASSUME ImageInvariant, KeepsFront(acc), NEW frames, NEW w, Whole(frames, w),
         NEW e \in Since', e.s = rounds, IsEvent(e), NEW q, q = Nth(acc, e.i), Passed(acc, frames, q),
         (\E y \in Since : Pass(y) = Pass(e)) => q = acc.pass
  PROVE  Same(Content(acc, frames, q), OfPass(Pass(e))')
<1> DEFINE E == Events(rounds, at + 1, frames)
           p == Pass(e)
           F == InPass(frames, q)
           O == {x \in Since : Pass(x) = p}
           N == {x \in E : Pass(x) = p}
           I == IF q = acc.pass THEN acc.image ELSE {}
<1>1. /\ p.s = rounds /\ p.k \in Nat /\ p = [s |-> p.s, k |-> p.k] /\ DOMAIN p = {"s", "k"}
      /\ q = p.k + acc.offset \div Positions
  BY ThisPass
<1>2. Same(F, N)
  <2> HIDE DEF p
  <2>1. /\ \A x \in E : Pass(x) = p => \E f \in F : f.s = x.s /\ f.i = x.i
        /\ \A f \in F : \E x \in E : Pass(x) = p /\ x.s = f.s /\ x.i = f.i
    BY <1>1, BatchOfPass
  <2> HIDE DEF F, E
  <2> QED BY <2>1 DEF Same, Has
<1>3. Same(I, O)
  <2>1. CASE q = acc.pass
    <3>1. ~acc.closed
      <4>1. acc.pass \in Int
        BY DEF Whole, IsAcc
      <4>2. ~ (q > acc.pass)
        BY <2>1, <4>1
      <4> QED BY <2>1, <4>2 DEF Passed
    <3>2. PICK base \in Bases :
            base[rounds] = acc.offset \div Positions /\ PassInv(acc, base, rounds, Since, log, Ahead)
      BY DEF ImageInvariant, PassesInv
    <3>3. rounds \in Nat /\ \A d \in Since : IsEvent(d)
      BY LogIs DEF Whole
    <3>4. acc.pass = p.k + acc.offset \div Positions
      BY <1>1, <2>1
    <3>5. /\ p.s = rounds /\ p.k \in Nat /\ p = [s |-> p.s, k |-> p.k] /\ DOMAIN p = {"s", "k"}
          /\ base[rounds] = acc.offset \div Positions
      BY <1>1, <3>2
    <3> DEFINE a == acc
               r == rounds
               S == Since
    <3>6. /\ PassInv(a, base, r, S, log, Ahead) /\ ~a.closed /\ base[r] = a.offset \div Positions
          /\ a.pass = p.k + a.offset \div Positions /\ p.s = r /\ r \in Nat /\ \A d \in S : IsEvent(d)
      BY <3>1, <3>2, <3>3, <3>4, <3>5
    <3> HIDE DEF p, E, F, N, I, a, r, S
    <3>7. Same(a.image, {x \in S : Pass(x) = p})
      BY <3>5, <3>6, RunningImage
    <3> QED BY <2>1, <3>7 DEF O, I, a, S
  <2>2. CASE q # acc.pass
    <3>1. O = {} /\ I = {}
      BY <2>2
    <3> HIDE DEF O, I
    <3> QED BY <3>1 DEF Same
  <2> QED BY <2>1, <2>2
<1>4. OfPass(p)' = O \cup N
  <2>1. Since' = Since \cup E
    BY DEF Whole
  <2> HIDE DEF E
  <2> QED BY <2>1 DEF OfPass
<1>5. Content(acc, frames, q) = I \cup F
  BY DEF Content
<1> HIDE DEF I, F, O, N
<1>6. Same(I \cup F, O \cup N)
  BY <1>2, <1>3 DEF Same, Has
<1> QED BY <1>4, <1>5, <1>6

\* "all" and "latest": it holds whatever came up to the pass.
LEMMA OthersHold ==
  ASSUME ControlInv, ImageInvariant, IsFiniteSet(log'), ~KeepsFront(acc), acc # NoAcc,
         NEW frames, NEW w, Whole(frames, w),
         NEW e \in Since', e.s = rounds, IsEvent(e), NEW q, q = Nth(acc, e.i),
         Leads(Pass(e)), CameWhole(Pass(e))'
  PROVE  \A x \in OfPass(Pass(e))' : Has(Content(acc, frames, q), x)
<1> DEFINE E == Events(rounds, at + 1, frames)
           p == Pass(e)
           F == Upto(frames, q)
           U == Events(rounds, at + 1, F)
           T == Since \cup U
           D == Deposited(acc, F)
           b == [acc EXCEPT !.image = D]
<1>1. /\ p.s = rounds /\ p.k \in Nat /\ p = [s |-> p.s, k |-> p.k]
      /\ q = p.k + acc.offset \div Positions
  BY ThisPass
<1>2. /\ Since' = Since \cup E /\ log' = log \cup E /\ IsAcc(acc) /\ rounds \in Nat /\ at \in Nat
      /\ Apart(acc, frames)
      /\ \A f \in frames : IsFrame(f) /\ f.s = rounds /\ f.g = acc.geo /\ Pos(f) = f.i % Positions
      /\ \A d \in log : IsEvent(d) /\ d.s <= rounds /\ (d.s = rounds => d.b < at + 1)
  BY DEF Whole
<1>3. F \subseteq frames /\ InPass(frames, q) \subseteq F
  <2>1. \A f \in frames : PassOf(f) = q => PassOf(f) <= q
    BY <1>1, <1>2, PassIsNat
  <2> QED BY <2>1 DEF Upto, InPass
<1>4. U \subseteq E
  BY <1>3 DEF Events
<1>5. HeldInv(b, T)
  <2>1. b.mode = acc.mode /\ b.geo = acc.geo /\ b.front = acc.front /\ b.image = D
    BY <1>2 DEF IsAcc
  <2>2. Apart(acc, F)
    BY <1>2, <1>3 DEF Apart
  <2>3. \A f \in F : f.s = rounds /\ f.g = acc.geo /\ Pos(f) = f.i % Positions /\ f.i \in Nat
    BY <1>2, <1>3 DEF IsFrame
  <2>4. \A d \in Since : /\ d.s \in Nat /\ d.b \in Nat /\ d.i \in Nat /\ d.s <= rounds
                         /\ d.s = rounds => d.b < at + 1
    BY <1>2 DEF Since, IsEvent
  <2>5. HeldInv(acc, Since)
    BY DEF ImageInvariant
  <2> DEFINE n == at + 1
  <2>6. n \in Nat /\ \A d \in Since : /\ d.s \in Nat /\ d.b \in Nat /\ d.i \in Nat /\ d.s <= rounds
                                      /\ d.s = rounds => d.b < n
    BY <1>2, <2>4
  <2> HIDE DEF b, n, F
  <2>7. HeldInv(b, Since \cup Events(rounds, n, F))
    BY <1>2, <2>1, <2>2, <2>3, <2>5, <2>6, HeldGrows
  <2> QED BY <2>7 DEF n
<1>6. ~KeepsFront(b) /\ b.image = D /\ b.mode = acc.mode
  BY <1>2 DEF KeepsFront, IsAcc
<1>7. OfPass(p)' = {x \in Since' : Pass(x) = p}
  BY DEF OfPass
<1>8. ASSUME NEW x \in OfPass(p)' PROVE x \in T /\ Pass(x) = p
  <2>1. x \in Since' /\ Pass(x) = p
    BY <1>7
  <2>2. CASE x \in E
    <3>1. \E f \in InPass(frames, q) : f.s = x.s /\ f.i = x.i
      <4> HIDE DEF p
      <4> QED BY <1>1, <2>1, <2>2, BatchOfPass
    <3>2. PICK f \in F : f.i = x.i
      BY <1>3, <3>1
    <3>3. x = [s |-> rounds, b |-> at + 1, i |-> x.i]
      BY <2>2 DEF Events
    <3> HIDE DEF F
    <3>4. x \in U
      BY <3>2, <3>3 DEF Events
    <3> QED BY <2>1, <3>4
  <2> QED BY <1>2, <2>1, <2>2
<1> HIDE DEF b
<1>9. CASE acc.mode = "all"
  <2>1. Same(D, T)
    BY <1>5, <1>6, <1>9 DEF HeldInv
  <2> HIDE DEF D, T
  <2>2. \A x \in OfPass(p)' : Has(D, x)
    BY <1>8, <2>1 DEF Same
  <2> QED BY <2>2 DEF Content, D
<1>10. CASE acc.mode = "latest"
  <2>1. Same(D, Unreplaced(T))
    BY <1>5, <1>6, <1>10 DEF HeldInv
  <2>2. T \subseteq log' /\ T \subseteq Since'
    BY <1>2, <1>4 DEF Since
  <2>3. \A d \in log' : IsEvent(d)
    <3>1. \A d \in E : IsEvent(d)
      BY <1>2, EventsAre
    <3> QED BY <1>2, <3>1
  <2>4. IsFiniteSet(T)
    BY <2>2, FS_Subset
  <2>5. \A d \in T : ~NewerPass(Pass(d), p)
    <3> TAKE d \in T
    <3>1. CASE d \in Since
      BY <3>1 DEF Leads, Since
    <3>2. CASE d \in U
      <4>1. PICK f \in F : d = [s |-> rounds, b |-> at + 1, i |-> f.i]
        BY <3>2 DEF Events
      <4>2. f.i \div Positions <= p.k
        <5> HIDE DEF p
        <5> QED BY <1>1, BatchOfPass
      <4>3. d \in log' /\ d.s = rounds /\ d.i = f.i
        BY <2>2, <4>1
      <4>4. Pass(d).s = rounds /\ Pass(d).k = d.i \div Positions /\ Pass(d).k \in Nat
        BY <2>3, <4>3, PassOfEvent
      <4>5. Pass(d).k <= p.k
        <5> HIDE DEF p
        <5> QED BY <4>2, <4>3, <4>4
      <4> HIDE DEF p
      <4> QED BY <1>1, <1>2, <4>4, <4>5 DEF NewerPass
    <3> QED BY <3>1, <3>2
  <2>6. \A d \in T, y \in T : Pass(y) = p /\ NewerPass(p, Pass(d)) => Earlier(d, y)
    <3> TAKE d \in T, y \in T
    <3> HAVE Pass(y) = p /\ NewerPass(p, Pass(d))
    <3>1. y \in OfPass(p)' /\ d \in log'
      BY <1>7, <2>2
    <3> QED BY <3>1 DEF CameWhole
  <2>7. ASSUME NEW x \in OfPass(p)' PROVE Has(D, x)
    <3>1. x \in T /\ Pass(x) = p /\ \A d \in T : IsEvent(d)
      BY <1>8, <2>2, <2>3
    <3> HIDE DEF T, p, D
    <3>2. Has(Unreplaced(T), x)
      BY <2>4, <2>5, <2>6, <3>1, NewestHeld
    <3> QED BY <2>1, <3>2 DEF Same, Has
  <2> QED BY <2>7 DEF Content
<1>11. acc.mode \in {"all", "latest"}
  BY DEF ControlInv, AccOk, KeepsFront, Modes
<1> QED BY <1>9, <1>10, <1>11

LEMMA FeedFiled ==
  ASSUME ControlInv, ImageInvariant, CursorInv, EndedInv, FileInv, IsFiniteSet(log'),
         NEW frames, NEW w, Whole(frames, w)
  PROVE  FileInv'
<1>1. /\ acc'.pass = w.pass /\ acc'.closed = w.closed /\ acc'.filed = acc.filed
      /\ (KeepsFront(acc') <=> KeepsFront(acc)) /\ (Tracks(acc') <=> Tracks(acc))
  BY WholeIs
<1>2. saveErrors' = saveErrors /\ active /\ rounds \in Nat /\ movie' = Written(ToSet(w.done))
  BY DEF Whole
<1> SUFFICES ASSUME saveErrors = 0, acc.filed, NEW e \in Since', CameWhole(Pass(e))',
                    acc'.closed \/ ~Leads(Pass(e))'
             PROVE  InFile(Pass(e), movie, acc)'
  BY <1>1, <1>2 DEF FileInv
<1>3. Tracks(acc) /\ Completes(w, acc, frames)
  BY DEF Tracks, Whole
<1>4. PICK d \in log' : NewerPass(Pass(d), Pass(e))
  BY <1>1, <1>3 DEF Leads, Completes
<1>5. FiledBelow(OfPass(Pass(e))', w) => InFile(Pass(e), movie, acc)'
  BY <1>1 DEF FiledBelow, InFile
<1>6. IsEvent(e) /\ e.s <= rounds
  <2>1. \A x \in Events(rounds, at + 1, frames) : IsEvent(x) /\ x.s = rounds
    BY EventsAre DEF Whole
  <2>2. Since' = Since \cup Events(rounds, at + 1, frames)
    BY DEF Whole
  <2> QED BY <1>2, <2>1, <2>2, LogIs
<1>7. CASE ~Leads(Pass(e))
  <2>1. PICK x \in log : NewerPass(Pass(x), Pass(e))
    BY <1>7 DEF Leads
  <2> QED BY <1>5, <2>1, FeedStill
<1>8. CASE Leads(Pass(e)) /\ e.s < rounds
  BY <1>5, <1>8, FeedAfter
<1>9. CASE Leads(Pass(e)) /\ e.s = rounds
  <2> DEFINE q == Nth(acc, e.i)
  <2>1. q \in Nat /\ q < w.pass /\ Passed(acc, frames, q) /\ ((\E y \in Since : Pass(y) = Pass(e)) => q = acc.pass)
    BY <1>3, <1>4, <1>9, FeedPassed
  <2>2. acc # NoAcc
    BY <1>2 DEF ControlInv
  <2> HIDE DEF q
  <2>3. PICK c \in ToSet(w.done) : c.pass = q /\ c.frames = Content(acc, frames, q)
    BY <1>3, <2>1 DEF Completes
  <2>4. c \in movie'
    BY <1>2, <2>3, WrittenHas
  <2>5. CASE KeepsFront(acc)
    <3>1. Same(Content(acc, frames, q), OfPass(Pass(e))')
      BY <1>6, <1>9, <2>1, <2>5, FrontHolds DEF q
    <3>2. FiledBelow(OfPass(Pass(e))', w)
      BY <2>1, <2>3, <2>4, <3>1 DEF FiledBelow, Same
    <3> QED BY <1>5, <3>2
  <2>6. CASE ~KeepsFront(acc)
    <3>1. \A y \in OfPass(Pass(e))' : Has(Content(acc, frames, q), y)
      BY <1>6, <1>9, <2>2, <2>6, OthersHold DEF q
    <3>2. FiledBelow(OfPass(Pass(e))', w)
      BY <2>1, <2>3, <2>4, <2>6, <3>1 DEF FiledBelow
    <3> QED BY <1>5, <3>2
  <2> QED BY <2>5, <2>6
<1> QED BY <1>2, <1>6, <1>7, <1>8, <1>9 DEF IsEvent

LEMMA ScanOverFeed ==
  ASSUME OnePerPosition
  PROVE  ControlInv /\ ImageInvariant /\ ScanInvariant /\ Feed => ScanInvariant'
<1> SUFFICES ASSUME ControlInv, ImageInvariant, ScanInvariant, Feed, main' # "stop" PROVE ScanInvariant'
  BY DEF ScanInvariant, Running
<1> DEFINE ids    == series.batches[at + 1]
           frames == FramesOf(acc, rounds, ids)
           w      == Process(acc, series.kind, frames, TRUE)
<1>1. main = "run"
  BY DEF Feed
<1>2. ReceivedInv /\ BeganInv /\ CursorInv /\ EndedInv /\ FileInv /\ began \subseteq log
  BY <1>1 DEF ScanInvariant, Running, ImageInvariant
<1>3. /\ Whole(frames, w) /\ ~OutsideScan(ids) /\ {f.i : f \in frames} = ids
      /\ sink' = [seen |-> sink.seen \cup Marked(ids), frames |-> sink.frames + Cardinality(ids)]
  BY <1>2, FeedWhole
<1>4. ids \in SUBSET Nat /\ IsFiniteSet(ids)
  BY BatchIs DEF Feed
<1> HIDE DEF ids, frames, w
<1>5. ReceivedInv'
  BY <1>2, <1>3, <1>4, FeedReceived
<1>6. IsFiniteSet(log')
  BY <1>5 DEF ReceivedInv
<1>7. BeganInv' /\ CursorInv' /\ FinalInv' /\ FrontKept' /\ EndedInv'
  BY <1>2, <1>3, FeedBegan, FeedCursor, FeedEnded
<1>8. FileInv'
  BY <1>2, <1>3, <1>6, FeedFiled
<1> QED BY <1>5, <1>7, <1>8 DEF ScanInvariant

LEMMA ScanOverPutFrame ==
  ASSUME ScanInvariant, NEW t \in Writers, PutFrame(t) PROVE ScanInvariant'
<1>1. UNCHANGED <<acc, log, began, rounds, sink, movie, saveErrors, file, report>>
  BY DEF PutFrame, history, counters
<1>2. CASE t = "http"
  <2>1. UNCHANGED <<main, active>> /\ lock' = Released("http")
    BY <1>2 DEF PutFrame
  <2>2. main = "final" => active /\ lock = "main"
    BY DEF ScanInvariant, Running, FinalInv
  <2> QED BY <1>1, <2>1, <2>2, ScanStays DEF Running, Feeding, Released
<1>3. CASE t # "http"
  <2>1. t = "main"
    BY <1>3, ParallaxAssumption
  <2>2. /\ main \in {"preview", "tuning", "final", "last"}
        /\ main' = (IF main = "last" THEN "closed" ELSE "run")
        /\ IF main \in {"final", "last"} THEN active' = FALSE ELSE active' = active
    BY <2>1 DEF PutFrame, Publishing
  <2> QED BY <1>1, <2>2, ScanStays DEF Running, Feeding
<1> QED BY <1>2, <1>3

LEMMA ScanPreserved ==
  ASSUME OnePerPosition
  PROVE  ControlInv /\ ImageInvariant /\ ScanInvariant /\ [Next]_vars => ScanInvariant'
<1> SUFFICES ASSUME ControlInv, ImageInvariant, ScanInvariant, [Next]_vars PROVE ScanInvariant'
  OBVIOUS
<1>1. main = "final" => active /\ lock = "main"
  BY DEF ScanInvariant, Running, FinalInv
<1>2. CASE UNCHANGED vars
  BY <1>1, <1>2, ScanStays DEF vars, series_, saved_, history, counters, Running, Feeding
<1>3. CASE Start
  BY <1>3, ScanOverStart
<1>4. CASE Feed
  BY <1>4, ScanOverFeed
<1>5. CASE Finish
  BY <1>5, ScanOverFinish
<1>6. CASE Interrupt
  BY <1>6 DEF Interrupt, ScanInvariant, Running
<1>7. CASE Exhausted
  BY <1>7 DEF Exhausted, Fail, ScanInvariant, Running
<1>8. CASE CloseReads
  BY <1>8 DEF CloseReads, ScanInvariant, Running
<1>9. CASE CloseSaves
  BY <1>9 DEF CloseSaves, ScanInvariant, Running
<1>10. CASE Update
  BY <1>10, ScanOverUpdate
<1>11. CASE Enqueue
  <2>1. UNCHANGED <<acc, log, began, rounds, sink, movie, saveErrors, file, report, main, active, lock>>
    BY <1>11 DEF Enqueue, series_, saved_, history
  <2> QED BY <1>1, <2>1, ScanStays DEF Running, Feeding
<1>12. CASE ApplyPending
  BY <1>12, ScanOverApplyPending
<1>13. ASSUME NEW t \in Writers, TakeFrame(t) PROVE ScanInvariant'
  <2>1. /\ UNCHANGED <<acc, log, began, rounds, sink, movie, saveErrors, file, report, main, active>>
        /\ lock' = IF lock = "none" THEN t ELSE lock
    BY <1>13 DEF TakeFrame, series_, saved_, history, counters
  <2> QED BY <1>1, <2>1, ScanStays DEF Running, Feeding
<1>14. ASSUME NEW t \in Writers, PutFrame(t) PROVE ScanInvariant'
  BY <1>14, ScanOverPutFrame
<1>15. CASE View
  <2>1. UNCHANGED <<acc, log, began, rounds, sink, movie, saveErrors, file, report, main, active, lock>>
    BY <1>15 DEF View, series_, saved_, history, counters
  <2> QED BY <1>1, <2>1, ScanStays DEF Running, Feeding
<1> QED
  BY <1>2, <1>3, <1>4, <1>5, <1>6, <1>7, <1>8, <1>9, <1>10, <1>11, <1>12, <1>13, <1>14, <1>15 DEF Next

\* ScanSaved of MCParallax's run: when a series is saved, a scan that came as a whole is in the file,
\* the report beside it is true, and every pass that came as a whole has its file in the movie
\* (runtime.py:92, engine.py:510, 627, 650, sink.py:130).
THEOREM ScanIsSaved == OnePerPosition /\ LateByOnePass => (Spec => []ScanSaved)
<1> SUFFICES ASSUME OnePerPosition, LateByOnePass PROVE Spec => []ScanSaved
  OBVIOUS
<1>1. Init => ScanInvariant
  BY ScanBegins
<1>2. ControlInv /\ ImageInvariant /\ ScanInvariant /\ [Next]_vars => ScanInvariant'
  BY ScanPreserved
<1>3. Spec => []ControlInv
  BY ControlInvariance
<1>4. Spec => []ImageInvariant
  BY ImageInvariance
<1>5. ControlInv /\ ImageInvariant /\ ScanInvariant => ScanSaved
  BY ScanIs
<1> QED BY <1>1, <1>2, <1>3, <1>4, <1>5, PTL DEF Spec

-----------------------------------------------------------------------------
(* The pictures of the page are in place for every snapshot size and every  *)
(* request.  What the arguments need of \div is in the first lemmas: whole  *)
(* blocks of a length are at most it, divide without a rest, and count      *)
(* what the length counts.                                                  *)

\* A quotient, from below and from above.
LEMMA DivBounds ==
  ASSUME NEW a \in Int, NEW f \in Int, f > 0
  PROVE  /\ a \div f \in Int
         /\ (a \div f) * f <= a
         /\ a < (a \div f) * f + f
<1>1. a = f * (a \div f) + (a % f) /\ 0 <= a % f /\ a % f < f /\ a \div f \in Int /\ a % f \in Int
  BY SMT
<1>2. QED
  BY <1>1, SMT

\* Whole blocks divide without a rest.
LEMMA DivUnique ==
  ASSUME NEW q \in Int, NEW f \in Int, f > 0
  PROVE  (q * f) \div f = q /\ (q * f) % f = 0
BY SMT

\* What fits k times is divided at least k times.
LEMMA DivAtLeast ==
  ASSUME NEW a \in Int, NEW f \in Int, f > 0, NEW k \in Int, k * f <= a
  PROVE  k <= a \div f
<1>1. a < (a \div f) * f + f /\ a \div f \in Int BY DivBounds
<1>2. SUFFICES ASSUME a \div f < k PROVE FALSE BY <1>1, SMT
<1>3. (a \div f) + 1 <= k BY <1>1, <1>2, SMT
<1>4. ((a \div f) + 1) * f <= k * f BY <1>1, <1>3, SMT
<1>5. QED
  BY <1>1, <1>4, SMT

\* The whole blocks of a length.
LEMMA BlocksBounds ==
  ASSUME NEW a \in Int, NEW f \in Int, f > 0
  PROVE  /\ Blocks(a, f) \in Int /\ Blocks(a, f) <= a /\ a < Blocks(a, f) + f
         /\ a >= 0 => Blocks(a, f) >= 0
         /\ Blocks(a, f) % f = 0 /\ Blocks(a, f) \div f = a \div f
<1>1. a \div f \in Int /\ (a \div f) * f <= a /\ a < (a \div f) * f + f
  BY DivBounds
<1>2. (a \div f) * f \in Int
  BY <1>1, SMT
<1>3. ((a \div f) * f) \div f = a \div f /\ ((a \div f) * f) % f = 0
  BY <1>1, DivUnique
<1>4. a >= 0 => (a \div f) * f >= 0
  <2>1. SUFFICES ASSUME a >= 0 PROVE (a \div f) * f >= 0
    OBVIOUS
  <2>2. 0 <= a \div f
    BY <2>1, DivAtLeast
  <2>3. QED
    BY <1>1, <2>2, SMT
<1>5. QED
  BY <1>1, <1>2, <1>3, <1>4 DEF Blocks

\* Blocks before, of and behind a region are whole blocks together.
LEMMA BlocksSum ==
  ASSUME NEW a \in Int, NEW b \in Int, NEW c \in Int, NEW f \in Int, f > 0
  PROVE  (Blocks(a, f) + Blocks(b, f) + Blocks(c, f)) % f = 0
<1> DEFINE q == a \div f + b \div f + c \div f
<1>1. a \div f \in Int /\ b \div f \in Int /\ c \div f \in Int
  BY DivBounds
<1>2. Blocks(a, f) + Blocks(b, f) + Blocks(c, f) = q * f
  BY <1>1, SMT DEF Blocks
<1>3. QED
  BY <1>1, <1>2, DivUnique

-----------------------------------------------------------------------------
\* For every snapshot, region, factor and margin, what view reads lies in the snapshot, is whole
\* blocks, and its block "first" begins where the region does (server.py:187-203).
THEOREM PictureInPlace ==
  ASSUME NEW size \in Int, size > 0, NEW left \in Int, NEW len \in Int,
         NEW f \in Int, f > 0, NEW reach \in Nat
  PROVE  AxisExact(left, len, size, f, reach)
<1> DEFINE a == Begin(left, size)
           e == Extent(left, len, size, 1)
           n == Blocks(e, f)
           m == reach * f
           lo == Greater(0, a - m)
           hi == Lesser(size, a + n + m)
           before == Blocks(a - lo, f)
           behind == Blocks(hi - a - n, f)
<1>1. a \in Int /\ 0 <= a /\ a < size
  BY SMT DEF Begin, Greater, Lesser
<1>2. e \in Int /\ 1 <= e /\ a + e <= size
  BY <1>1, SMT DEF Extent, Greater, Lesser
<1>3. n \in Int /\ 0 <= n /\ n <= e /\ n % f = 0
  <2> HIDE DEF a, e
  <2>1. e >= 0
    BY <1>2, SMT
  <2>2. Blocks(e, f) \in Int /\ Blocks(e, f) <= e /\ 0 <= Blocks(e, f) /\ Blocks(e, f) % f = 0
    BY <1>2, <2>1, BlocksBounds
  <2>3. QED
    BY <2>2 DEF n
<1>4. m \in Int /\ 0 <= m
  BY SMT
<1> HIDE DEF a, e, n, m
<1>5. lo \in Int /\ 0 <= lo /\ lo <= a
  BY <1>1, <1>4, SMT DEF Greater
<1>6. hi \in Int /\ a + n <= hi /\ hi <= size
  BY <1>1, <1>2, <1>3, <1>4, SMT DEF Lesser
<1> HIDE DEF lo, hi
<1>7. before \in Int /\ 0 <= before /\ before <= a - lo /\ before \div f = (a - lo) \div f
      /\ before = ((a - lo) \div f) * f /\ (a - lo) \div f \in Int
  BY <1>1, <1>5, BlocksBounds, DivBounds DEF Blocks
<1>8. behind \in Int /\ 0 <= behind /\ behind <= hi - a - n
  BY <1>1, <1>3, <1>6, BlocksBounds
<1>9. (before + n + behind) % f = 0
  BY <1>1, <1>2, <1>3, <1>5, <1>6, BlocksSum DEF n
<1> HIDE DEF before, behind
<1>10. ViewAxis(left, len, size, f, reach) =
         [at |-> a, len |-> n, from |-> a - before, to |-> a + n + behind,
          first |-> (a - (a - before)) \div f]
  BY DEF ViewAxis, Widened, a, e, n, m, lo, hi, before, behind
<1>11. a - (a - before) = before /\ (a + n + behind) - (a - before) = before + n + behind
  BY <1>1, <1>3, <1>7, <1>8, SMT
<1>12. (a - before) + (before \div f) * f = a
  BY <1>1, <1>7, SMT
<1>13. QED
  BY <1>1, <1>3, <1>5, <1>6, <1>7, <1>8, <1>9, <1>10, <1>11, <1>12, SMT DEF AxisExact

\* For every region and screen, the factor of view leaves at least the blocks that were asked for
\* where the region has as many pixels (server.py:189).
THEOREM EnoughBlocks ==
  ASSUME NEW h \in Int, NEW w \in Int, NEW oh \in Int, NEW ow \in Int
  PROVE  FactorServes(h, w, oh, ow)
<1> DEFINE f == Factor(h, w, oh, ow)
           dh == Greater(oh, 1)
           dw == Greater(ow, 1)
<1>1. dh \in Int /\ dh >= 1 /\ dh >= oh /\ dw \in Int /\ dw >= 1 /\ dw >= ow
      /\ (oh >= 1 => dh = oh) /\ (ow >= 1 => dw = ow)
  BY SMT DEF Greater
<1> HIDE DEF dh, dw
<1>2. h \div dh \in Int /\ (h \div dh) * dh <= h /\ w \div dw \in Int /\ (w \div dw) * dw <= w
  BY <1>1, DivBounds
<1>3. f = Greater(1, Lesser(h \div dh, w \div dw))
  BY DEF f, dh, dw, Factor
<1>4. f \in Int /\ f >= 1 /\ (f = 1 \/ (f <= h \div dh /\ f <= w \div dw))
  BY <1>2, <1>3, SMT DEF Greater, Lesser
<1> HIDE DEF f
<1>5. f = 1 \/ (f * dh <= h /\ f * dw <= w)
  <2>1. CASE f <= h \div dh /\ f <= w \div dw
    <3>1. f * dh <= (h \div dh) * dh /\ f * dw <= (w \div dw) * dw
      BY <1>1, <1>2, <1>4, <2>1, SMT
    <3>2. f * dh \in Int /\ f * dw \in Int /\ (h \div dh) * dh \in Int /\ (w \div dw) * dw \in Int
      BY <1>1, <1>2, <1>4, SMT
    <3>3. QED
      BY <1>2, <3>1, <3>2, SMT
  <2>2. QED
    BY <1>4, <2>1
<1>6. f <= Greater(h, 1) /\ f <= Greater(w, 1)
  <2>1. CASE f = 1
    BY <2>1, SMT DEF Greater
  <2>2. CASE f * dh <= h /\ f * dw <= w
    <3>1. f <= f * dh /\ f <= f * dw /\ f * dh \in Int /\ f * dw \in Int
      BY <1>1, <1>4, SMT
    <3>2. QED
      BY <1>4, <2>2, <3>1, SMT DEF Greater
  <2>3. QED
    BY <1>5, <2>1, <2>2
<1>7. ASSUME NEW len \in Int, NEW o \in Int, o >= 1, len >= o, f = 1 \/ f * o <= len
      PROVE  o <= len \div f
  <2>1. o * f <= len
    BY <1>4, <1>7, SMT
  <2>2. QED
    BY <1>4, <1>7, <2>1, DivAtLeast
<1>8. (oh >= 1 /\ h >= oh) => h \div f >= oh
  <2>1. SUFFICES ASSUME oh >= 1, h >= oh PROVE h \div f >= oh
    OBVIOUS
  <2>2. oh <= h \div f
    BY <1>1, <1>5, <1>7, <2>1
  <2>3. QED
    BY <2>2, <1>4, DivBounds, SMT
<1>9. (ow >= 1 /\ w >= ow) => w \div f >= ow
  <2>1. SUFFICES ASSUME ow >= 1, w >= ow PROVE w \div f >= ow
    OBVIOUS
  <2>2. ow <= w \div f
    BY <1>1, <1>5, <1>7, <2>1
  <2>3. QED
    BY <2>2, <1>4, DivBounds, SMT
<1>10. QED
  BY <1>4, <1>6, <1>8, <1>9 DEF FactorServes, f

\* For every region, even side that fits it and finished rows, a spectrum that is not flat is of
\* finished rows of the region only: all of those in view, or as many as the square has
\* (server.py:231-239).
THEOREM SpectrumInPlace ==
  ASSUME NEW y0 \in Int, NEW h \in Int, NEW k \in Int, k >= 1, 2 * k <= h,
         NEW first \in Int, NEW last \in Int
  PROVE  SquareExact(y0, h, 2 * k, <<first, last>>)
<1> DEFINE n == 2 * k
           ra == Greater(first, y0)
           rb == Lesser(last, y0 + h)
           cy == Placed(y0, h, n, ra, rb)
           from == Greater(ra, cy)
           to == Lesser(rb, cy + n)
<1>1. ra \in Int /\ ra >= y0 /\ ra >= first /\ rb \in Int /\ rb <= last /\ rb <= y0 + h
  BY SMT DEF Greater, Lesser
<1> HIDE DEF ra, rb
<1>2. Square(y0, h, n, <<first, last>>) = [top |-> cy, from |-> from, to |-> to]
  BY DEF Square, ra, rb
<1>3. CASE rb - ra >= n
  <2>1. cy = ra + (rb - ra - n) \div 2
    BY <1>3 DEF Placed
  <2>2. cy \in Int /\ ra <= cy /\ cy + n <= rb
    BY <1>1, <1>3, <2>1, SMT
  <2> HIDE DEF cy
  <2>3. from = cy /\ to = cy + n
    BY <1>1, <2>2, SMT DEF Greater, Lesser
  <2>4. QED
    BY <1>1, <1>2, <2>2, <2>3, SMT DEF SquareExact
<1>4. CASE rb - ra < n
  <2> DEFINE c == (ra + rb) \div 2 - n \div 2
  <2>1. cy = Lesser(Greater(y0, c), y0 + h - n)
    BY <1>1, <1>4, SMT DEF Placed
  <2>2. c \in Int /\ (ra < rb => c <= ra /\ rb <= c + n)
    BY <1>1, <1>4, SMT
  <2> HIDE DEF c, cy
  <2>3. cy \in Int /\ y0 <= cy /\ cy + n <= y0 + h /\ (ra < rb => cy <= ra /\ rb <= cy + n)
    BY <1>1, <2>1, <2>2, SMT DEF Greater, Lesser
  <2>4. ra < rb => from = ra /\ to = rb
    BY <1>1, <2>3, SMT DEF Greater, Lesser
  <2>5. ~(ra < rb) => to <= from /\ to \in Int /\ from \in Int
    BY <1>1, <2>3, SMT DEF Greater, Lesser
  <2> HIDE DEF from, to
  <2>6. ~Flat([top |-> cy, from |-> from, to |-> to]) => ra < rb
    BY <2>5, SMT DEF Flat, LeastRows
  <2>7. QED
    BY <1>1, <1>2, <2>3, <2>4, <2>6, SMT DEF SquareExact, ra, rb
<1>5. QED
  BY <1>1, <1>3, <1>4, SMT

\* The side in whole bins is even and at most what was wanted, when at least two pixels come out.
LEMMA SideBounds ==
  ASSUME NEW k \in Int, k >= 1, NEW out \in Int, out >= 2
  PROVE  \E j \in Int : j >= 1 /\ Side(2 * k, out) = 2 * j /\ 2 * j <= 2 * k
<1> DEFINE n == 2 * k
           d == (-n) \div out
           b == Bin(n, out)
           q == n \div (2 * b)
<1>1. d \in Int /\ d * out <= -n /\ -n < d * out + out /\ d * out \in Int
  <2>1. -n \in Int OBVIOUS
  <2> HIDE DEF n
  <2>2. d \in Int /\ d * out <= -n /\ -n < d * out + out
    BY <2>1, DivBounds, SMT
  <2>3. QED
    BY <2>2, SMT
<1>2. -d <= k
  <2>1. SUFFICES ASSUME k + 1 <= -d PROVE FALSE
    BY <1>1, SMT
  <2> HIDE DEF d
  <2>2. (k + 1) * out <= (-d) * out
    BY <1>1, <2>1, SMT
  <2>3. (k + 1) * out = k * out + out /\ (-d) * out = -(d * out) /\ k * out >= 2 * k
    BY <1>1, SMT
  <2>4. k * out \in Int
    BY SMT
  <2>5. QED
    BY <1>1, <2>2, <2>3, <2>4, SMT
<1>3. b \in Int /\ 1 <= b /\ b <= k
  <2>1. b = Greater(1, -d)
    BY SMT DEF Bin, Greater
  <2>2. QED
    BY <1>1, <1>2, <2>1, SMT DEF Greater
<1> HIDE DEF b, d
<1>4. q \in Int /\ q * (2 * b) <= n /\ 1 <= q
  <2>1. 2 * b \in Int /\ 2 * b > 0 /\ 1 * (2 * b) <= n /\ n \in Int
    BY <1>3, SMT
  <2> HIDE DEF n
  <2>2. q \in Int /\ q * (2 * b) <= n
    BY <2>1, DivBounds
  <2>3. 1 <= q
    BY <2>1, DivAtLeast
  <2>4. QED
    BY <2>2, <2>3
<1> HIDE DEF q
<1>5. Side(n, out) = Greater(2 * b, q * (2 * b))
  BY DEF Side, Blocks, b, q
<1>6. q * b \in Int /\ b <= q * b /\ q * (2 * b) = 2 * (q * b)
  BY <1>3, <1>4, SMT
<1>7. Side(n, out) = 2 * (q * b)
  BY <1>3, <1>5, <1>6, SMT DEF Greater
<1>8. QED
  BY <1>3, <1>4, <1>6, <1>7, SMT

\* For every snapshot and request of at least two pixels a side (or of the default), the square of
\* a spectrum that need not be flat lies in the snapshot and in the region (server.py:223-230).
THEOREM SpectrumInside ==
  ASSUME NEW H \in Int, H > 0, NEW W \in Int, W > 0,
         NEW q \in [y0 : Int, x0 : Int, h : Int, w : Int, n : Int, out : Int],
         q.out = 0 \/ q.out >= 2
  PROVE  FftInside(q, H, W)
<1> DEFINE y0 == Begin(q.y0, H)
           x0 == Begin(q.x0, W)
           h == Extent(q.y0, OrElse(q.h, H), H, 2)
           w == Extent(q.x0, OrElse(q.w, W), W, 2)
           out == OrElse(q.out, 1024)
           want == OrElse(q.n, 2048)
           least == Lesser(Lesser(want, MostPixels), Lesser(h, w))
           k == Greater(1, least \div 2)
           n == FftSide(q, H, W)
<1>1. y0 \in Int /\ 0 <= y0 /\ y0 < H /\ x0 \in Int /\ 0 <= x0 /\ x0 < W
  BY SMT DEF Begin, Greater, Lesser
<1>2. h \in Int /\ h >= 2 /\ (h > 2 => y0 + h <= H) /\ w \in Int /\ w >= 2 /\ (w > 2 => x0 + w <= W)
  BY <1>1, SMT DEF Extent, OrElse, Greater, Lesser
<1>3. out \in Int /\ out >= 2 /\ want \in Int
  BY SMT DEF OrElse
<1> HIDE DEF y0, x0, h, w, out, want
<1>4. least \in Int /\ least <= h /\ least <= w
  BY <1>2, <1>3, SMT DEF Lesser, MostPixels
<1> HIDE DEF least
<1>5. k \in Int /\ k >= 1 /\ 2 * k <= h /\ 2 * k <= w /\ Wanted(want, h, w) = 2 * k
  BY <1>2, <1>4, SMT DEF Wanted, Blocks, Greater, least
<1> HIDE DEF k
<1>6. PICK j \in Int : j >= 1 /\ Side(2 * k, out) = 2 * j /\ 2 * j <= 2 * k
  BY <1>3, <1>5, SideBounds
<1>7. n = 2 * j
  BY <1>5, <1>6 DEF FftSide, h, w, out, want
<1>8. FftLeft(q, H, W) = x0 + (w - n) \div 2
  BY DEF FftLeft, x0, w, n
<1> HIDE DEF n
<1>9. n >= LeastRows => n % 2 = 0 /\ n <= h /\ n <= w /\ y0 + n <= H
        /\ x0 <= FftLeft(q, H, W) /\ FftLeft(q, H, W) + n <= W
  BY <1>1, <1>2, <1>5, <1>6, <1>7, <1>8, SMT DEF LeastRows
<1>10. QED
  BY <1>9 DEF FftInside, n, h, w, y0, x0
=============================================================================
