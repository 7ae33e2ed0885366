----------------------------- MODULE RowsProofs -----------------------------
(***************************************************************************)
(* The rows the page is told are complete have all their images, for every  *)
(* scan, series, change and failure, when the images came in order.  The    *)
(* engine tells rows by the lowest number of the image and the cursor       *)
(* alone: the arguments go from these two numbers back to the images that   *)
(* were fed, one by one down to the lowest.                                 *)
(***************************************************************************)
EXTENDS ParallaxProofs

-----------------------------------------------------------------------------
(* Numbers of a scan: each has a pass and a position in it.                  *)

\* The number x is in pass q when it is not before it and not behind it.
LEMMA PassBounds ==
  ASSUME NEW x \in Nat, NEW q \in Nat
  PROVE  /\ q * Positions \in Nat /\ x \div Positions \in Nat /\ x % Positions \in 0 .. (Positions - 1)
         /\ x = (x \div Positions) * Positions + (x % Positions)
         /\ x \div Positions = q <=> q * Positions <= x /\ x < q * Positions + Positions
         /\ x \div Positions < q <=> x < q * Positions
<1> DEFINE P == Positions
           n == x \div P
           r == x % P
<1>1. P \in Nat /\ P > 0
  BY PositionsPositive
<1>2. n \in Nat /\ r \in 0 .. (P - 1) /\ x = P * n + r
  BY <1>1, Quotient
<1> HIDE DEF P, n, r
<1>3. \A a, b \in Nat : a < b => a * P + P <= b * P
  <2> TAKE a, b \in Nat
  <2> SUFFICES ASSUME a < b PROVE a * P + P <= b * P
    OBVIOUS
  <2>1. a + 1 <= b /\ (a + 1) * P = a * P + P
    BY <1>1
  <2>2. (a + 1) * P <= b * P
    BY <1>1, <2>1
  <2> QED BY <2>1, <2>2
<1>4. n * P \in Nat /\ q * P \in Nat /\ x = n * P + r
  <2>1. P * n = n * P
    BY <1>1, <1>2
  <2> QED BY <1>1, <1>2, <2>1
<1>5. (n < q => n * P + P <= q * P) /\ (q < n => q * P + P <= n * P)
  BY <1>2, <1>3
<1> DEFINE u == n * P
           v == q * P
<1>6. u \in Nat /\ v \in Nat /\ x = u + r /\ (n < q => u + P <= v) /\ (q < n => v + P <= u) /\ (n = q => u = v)
  BY <1>4, <1>5
<1> HIDE DEF u, v
<1>7. (n = q <=> v <= x /\ x < v + P) /\ (n < q <=> x < v)
  BY <1>1, <1>2, <1>6
<1>8. /\ v \in Nat /\ n \in Nat /\ r \in 0 .. (P - 1) /\ x = u + r
      /\ n = q <=> v <= x /\ x < v + P
      /\ n < q <=> x < v
  BY <1>2, <1>6, <1>7
<1> QED BY <1>8 DEF P, n, r, u, v

\* The number behind x is in the pass of x, or the first of the next pass.
LEMMA NextNumber ==
  ASSUME NEW x \in Nat
  PROVE  /\ x % Positions = Positions - 1 <=> (x + 1) % Positions = 0
         /\ IF x % Positions = Positions - 1
            THEN (x + 1) \div Positions = x \div Positions + 1
            ELSE (x + 1) \div Positions = x \div Positions
<1> DEFINE P == Positions
           n == x \div P
           m == (x + 1) \div P
           u == n * P
           v == m * P
           r == x % P
           s == (x + 1) % P
<1>1. P \in Nat /\ P > 0 /\ x + 1 \in Nat
  BY PositionsPositive
<1>2. n \in Nat /\ u \in Nat /\ r \in 0 .. (P - 1) /\ x = u + r
  BY PassBounds
<1>3. m \in Nat /\ v \in Nat /\ s \in 0 .. (P - 1) /\ x + 1 = v + s
  BY <1>1, PassBounds
<1>4. m = n <=> u <= x + 1 /\ x + 1 < u + P
  BY <1>1, <1>2, PassBounds
<1>5. (n + 1) * P = u + P /\ (m = n + 1 <=> u + P <= x + 1 /\ x + 1 < u + P + P)
  <2>1. n + 1 \in Nat /\ (n + 1) * P = u + P
    BY <1>1, <1>2
  <2> QED BY <1>1, <2>1, PassBounds
<1>6. (m = n => v = u) /\ (m = n + 1 => v = u + P)
  BY <1>5
<1> HIDE DEF u, v, n, m, P, r, s
<1>7. (r = P - 1 <=> s = 0) /\ IF r = P - 1 THEN m = n + 1 ELSE m = n
  BY <1>1, <1>2, <1>3, <1>4, <1>5, <1>6
<1> QED BY <1>7 DEF r, s, P, n, m

\* Numbers of the same pass and position are the same.
LEMMA SameNumber ==
  ASSUME NEW x \in Nat, NEW y \in Nat,
         x \div Positions = y \div Positions, x % Positions = y % Positions
  PROVE  x = y
<1> DEFINE u == (x \div Positions) * Positions
           r == x % Positions
<1>1. u \in Nat /\ r \in Int /\ x = u + r /\ y = u + r
  <2>1. \A n \in Nat : /\ (n \div Positions) * Positions \in Nat /\ n % Positions \in 0 .. (Positions - 1)
                       /\ n = (n \div Positions) * Positions + (n % Positions)
    BY PassBounds
  <2>2. r \in Int
    BY <2>1, PositionsPositive
  <2> QED BY <2>1, <2>2
<1> HIDE DEF u, r
<1> QED BY <1>1

-----------------------------------------------------------------------------
(* Where the lowest number of an image comes from.                           *)

\* The start of an image that has no number yet.
LEMMA NoIdIs == NoId \in Nat
  BY DEF NoId

\* A step from a to b that takes frames F: the lowest number is that of one of them, or stays.
Lowers(a, b, F) ==
  /\ Carried(a, b) /\ b.start \in Nat /\ a.pass <= b.pass
  /\ \/ KeepsFront(a) /\ b.start = NoId
     \/ b.start = a.start /\ (KeepsFront(a) => a.image \subseteq b.image)
     \/ \E f \in F : b.start = f.a /\ PassOf(f) <= b.pass /\ (KeepsFront(a) => f \in b.image)

\* One such step after the other is one.
LEMMA LowersTwice ==
  ASSUME NEW a, NEW b, NEW c, NEW F, NEW G, a.pass \in Int, Lowers(a, b, F), Lowers(b, c, G), \A f \in F : IsFrame(f)
  PROVE  Lowers(a, c, F \cup G)
<1>1. Carried(a, c) /\ (KeepsFront(a) <=> KeepsFront(b)) /\ c.start \in Nat
  BY DEF Lowers, Carried, KeepsFront
<1>2. a.pass <= b.pass /\ b.pass <= c.pass /\ b.pass \in Int /\ c.pass \in Int
  BY DEF Lowers, Carried, IsAcc
<1>3. \A f \in F : PassOf(f) \in Nat
  BY PassIsNat
<1>4. CASE c.start = b.start /\ (KeepsFront(b) => b.image \subseteq c.image)
  BY <1>1, <1>2, <1>3, <1>4 DEF Lowers
<1>5. CASE ~ (c.start = b.start /\ (KeepsFront(b) => b.image \subseteq c.image))
  BY <1>1, <1>2, <1>5 DEF Lowers
<1> QED BY <1>4, <1>5

\* _begin takes the lowest of the numbers, or leaves the one it has.
LEMMA BegunIs ==
  ASSUME NEW a, IsAcc(a), a.start \in Nat, NEW F, IsFiniteSet(F), \A f \in F : IsFrame(f)
  PROVE  LET b == Begun(a, F)
         IN b.start \in Nat /\ (b.start = a.start \/ \E f \in F : b.start = f.a)
<1> DEFINE S == {f.a : f \in F}
           T == {a.start} \cup S
<1>1. IsFiniteSet(S)
  <2> DEFINE h == [f \in F |-> f.a]
  <2>1. h \in Surjection(F, S)
    BY DEF Surjection
  <2> QED BY <2>1, FS_Surjection
<1>2. S \subseteq Nat
  BY DEF IsFrame
<1>3. IsFiniteSet(T) /\ T \in SUBSET Int /\ T # {}
  <2> HIDE DEF S
  <2>1. IsFiniteSet(S \cup {a.start})
    BY <1>1, FS_AddElement
  <2>2. S \cup {a.start} = T /\ a.start \in T
    OBVIOUS
  <2>3. T \subseteq Nat
    BY <1>2, Zenon
  <2> HIDE DEF T
  <2> QED BY <2>1, <2>2, <2>3
<1> HIDE DEF T
<1>4. Min(T) \in T
  BY <1>3, Least
<1>5. Begun(a, F).start = Min(T)
  BY DEF Begun, IsAcc, T
<1> QED BY <1>2, <1>4, <1>5 DEF T

\* Frames that are laid on the image.
LEMMA DepositLowers ==
  ASSUME NEW a, IsAcc(a), a.start \in Nat, NEW F, IsFiniteSet(F), \A f \in F : IsFrame(f) /\ PassOf(f) <= a.pass
  PROVE  Lowers(a, Deposit(a, F), F)
<1> DEFINE b == Deposit(a, F)
<1>1. b.image = Held(a, F) \cup F /\ b.pass = a.pass /\ Carried(a, b)
  BY DepositIs, DepositCarries
<1>2. b.start = Begun(a, F).start
  BY DEF Deposit, Begun, IsAcc
<1>3. KeepsFront(a) => Held(a, F) = a.image
  BY DEF Held, KeepsFront
<1>4. b.start \in Nat /\ (b.start = a.start \/ \E f \in F : b.start = f.a)
  BY <1>2, BegunIs
<1> HIDE DEF b
<1>5. Lowers(a, b, F)
  BY <1>1, <1>3, <1>4 DEF Lowers, IsAcc
<1> QED BY <1>5 DEF b

\* A pass that is closed takes no frame.
LEMMA CloseLowers ==
  ASSUME NEW a, IsAcc(a), a.start \in Nat PROVE Lowers(a, ClosePass(a), {}) /\ ClosePass(a).pass = a.pass
<1> DEFINE b == ClosePass(a)
           now == [a EXCEPT !.front = {[pass |-> a.pass, frames |-> a.image]}, !.image = {}, !.start = NoId]
<1>1. Carried(a, b) /\ b.pass = a.pass
  BY ClosePassIs, CloseOther
<1>2. CASE KeepsFront(a)
  <2>1. \E x : b = [now EXCEPT !.closed = TRUE, !.done = x]
    BY <1>2 DEF ClosePass
  <2>2. now.start = NoId /\ "start" \in DOMAIN now
    BY DEF IsAcc
  <2> HIDE DEF now
  <2>3. b.start = NoId
    BY <2>1, <2>2
  <2> HIDE DEF b
  <2>4. Lowers(a, b, {})
    BY <1>1, <1>2, <2>3, NoIdIs DEF Lowers, IsAcc
  <2> QED BY <1>1, <2>4 DEF b
<1>3. CASE ~KeepsFront(a)
  <2>1. \E x : b = [a EXCEPT !.closed = TRUE, !.done = x]
    BY <1>3 DEF ClosePass
  <2>2. b.start = a.start
    BY <2>1 DEF IsAcc
  <2> HIDE DEF b
  <2>3. Lowers(a, b, {})
    BY <1>1, <1>3, <2>2 DEF Lowers, IsAcc
  <2> QED BY <1>1, <2>3 DEF b
<1> QED BY <1>2, <1>3

\* Nor does a pass that is opened.
LEMMA OpenLowers ==
  ASSUME NEW a, IsAcc(a), a.start \in Nat, NEW k \in Nat
  PROVE  Lowers(a, OpenPass(a, k), {}) /\ OpenPass(a, k).pass >= k
<1> DEFINE b == OpenPass(a, k)
           o == IF Closes(a, k) THEN ClosePass(a) ELSE a
<1>1. CASE k <= a.pass
  <2>1. b = a
    BY <1>1 DEF OpenPass
  <2> QED BY <1>1, <2>1 DEF Lowers, Carried, IsAcc
<1>2. CASE ~ (k <= a.pass)
  <2>1. b = [o EXCEPT !.pass = k, !.closed = FALSE]
    BY <1>2 DEF OpenPass
  <2>2. Lowers(a, o, {}) /\ o.pass = a.pass
    BY CloseLowers DEF Lowers, Carried, IsAcc
  <2> HIDE DEF o
  <2>3. b.image = o.image /\ b.start = o.start /\ b.pass = k /\ Carried(a, b)
    BY <2>1, <2>2, OpenPassCarries DEF IsAcc, Lowers, Carried
  <2> HIDE DEF b
  <2>4. Lowers(a, b, {}) /\ b.pass >= k
    BY <1>2, <2>2, <2>3 DEF Lowers, IsAcc
  <2> QED BY <2>4 DEF b
<1> QED BY <1>1, <1>2

\* Frames of one pass, whether they are in time or late.
LEMMA AcceptLowers ==
  ASSUME NEW a, IsAcc(a), a.start \in Nat, NEW k \in Nat, NEW F, IsFiniteSet(F), \A f \in F : IsFrame(f) /\ PassOf(f) = k
  PROVE  Lowers(a, AcceptPass(a, k, F), F)
<1> DEFINE o == OpenPass(a, k)
           b == AcceptPass(a, k, F)
<1>1. Lowers(a, o, {}) /\ o.pass >= k /\ IsAcc(o) /\ o.start \in Nat /\ a.pass \in Int /\ o.pass \in Int
  BY OpenLowers DEF Lowers, Carried, IsAcc
<1>2. b = Late(o, F) \/ b = Deposit(o, F)
  BY DEF AcceptPass
<1> HIDE DEF o, b
<1>3. Lowers(o, Deposit(o, F), F)
  BY <1>1, DepositLowers
<1>4. Lowers(o, Late(o, F), F)
  <2>1. CASE o.mode = "swap"
    <3>1. \E x : Late(o, F) = [o EXCEPT !.front = x]
      BY <2>1 DEF Late
    <3>2. LET d == Late(o, F) IN d.image = o.image /\ d.start = o.start /\ d.pass = o.pass
      BY <1>1, <3>1 DEF IsAcc
    <3> QED BY <1>1, <3>2, LateCarries DEF Lowers
  <2>2. CASE o.mode = "reset"
    BY <1>1, <2>2 DEF Late, Lowers, Carried
  <2>3. CASE o.mode \notin {"swap", "reset"}
    BY <1>3, <2>3 DEF Late
  <2> QED BY <2>1, <2>2, <2>3
<1>5. Lowers(o, b, F) /\ {} \cup F = F
  BY <1>2, <1>3, <1>4
<1>6. Lowers(a, b, {} \cup F)
  BY <1>1, <1>5, LowersTwice
<1> QED BY <1>5, <1>6 DEF b

\* A batch, up to pass k of it: one whose file could not be written has more frames.
Low(b, m, frames, disk) ==
  Lowers(m, b, frames) /\ (disk \/ b.done = <<>> \/ \E f \in frames : PassOf(f) > b.pass)

\* One pass more of a batch.
LEMMA LowNext ==
  ASSUME NEW m, NEW frames, IsFiniteSet(frames), \A f \in frames : IsFrame(f), m.pass \in Int,
         NEW disk, NEW k \in Nat, NEW a, Low(a, m, frames, disk)
  PROVE  Low(TakePass(a, k, frames, disk), m, frames, disk)
<1> DEFINE b == TakePass(a, k, frames, disk)
           F == InPass(frames, k)
<1>1. Lowers(m, a, frames) /\ IsAcc(a) /\ a.start \in Nat
  BY DEF Low, Lowers, Carried
<1>2. CASE F = {} \/ (~disk /\ a.done # <<>>)
  BY <1>2 DEF TakePass
<1>3. ASSUME NEW G \in SUBSET frames, Lowers(a, b, G) PROVE Lowers(m, b, frames)
  <2>1. Lowers(m, b, frames \cup G) /\ frames \cup G = frames
    BY <1>1, <1>3, LowersTwice
  <2> QED BY <2>1
<1>4. CASE F # {} /\ (disk \/ a.done = <<>>) /\ ~disk /\ Closes(a, k)
  <2>1. b = ClosePass(a)
    BY <1>4 DEF TakePass
  <2>2. Lowers(a, b, {}) /\ b.pass = a.pass
    BY <1>1, <2>1, CloseLowers
  <2>3. \E f \in frames : PassOf(f) > b.pass
    BY <1>4, <2>2 DEF InPass, Closes
  <2> QED BY <1>3, <2>2, <2>3 DEF Low
<1>5. CASE F # {} /\ (disk \/ a.done = <<>>) /\ ~(~disk /\ Closes(a, k))
  <2>1. b = AcceptPass(a, k, F)
    BY <1>5 DEF TakePass
  <2>2. F \in SUBSET frames /\ IsFiniteSet(F) /\ \A f \in F : IsFrame(f) /\ PassOf(f) = k
    <3>1. F \subseteq frames
      BY DEF InPass
    <3> QED BY <3>1, FS_Subset DEF InPass
  <2>3. Lowers(a, b, F)
    BY <1>1, <2>1, <2>2, AcceptLowers
  <2>4. disk \/ b.done = <<>>
    BY <1>1, <1>5, <2>1, AcceptPassDone
  <2> QED BY <1>3, <2>2, <2>3, <2>4 DEF Low
<1> QED BY <1>2, <1>4, <1>5

\* The passes of a batch, up to its last or to a file that could not be written.
LEMMA BatchLow ==
  ASSUME NEW m, IsAcc(m), m.start \in Nat, m.done = <<>>, NEW frames, IsFiniteSet(frames), \A f \in frames : IsFrame(f),
         NEW disk, NEW lo \in Nat, NEW hi \in Nat, lo <= hi
  PROVE  Low(TakePasses(m, lo, hi, frames, disk), m, frames, disk)
<1>1. PICK g : Behind(g, m, lo, hi, frames, disk) /\ TakePasses(m, lo, hi, frames, disk) = g[hi]
  BY PassByPass
<1> DEFINE S == {k \in (lo - 1) .. hi : Low(g[k], m, frames, disk)}
<1>2. lo - 1 \in S
  BY <1>1 DEF Behind, Low, Lowers, Carried, IsAcc
<1>3. ASSUME NEW k \in lo .. hi, k - 1 \in S PROVE k \in S
  <2>1. g[k] = TakePass(g[k - 1], k, frames, disk)
    BY <1>1 DEF Behind
  <2>2. k \in Nat /\ k \in (lo - 1) .. hi /\ m.pass \in Int
    BY DEF IsAcc
  <2>3. Low(g[k - 1], m, frames, disk)
    BY <1>3
  <2>4. Low(g[k], m, frames, disk)
    BY <2>1, <2>2, <2>3, LowNext
  <2> QED BY <2>2, <2>4
<1> HIDE DEF S
<1>4. \A k \in lo .. hi : k - 1 \in S => k \in S
  BY <1>3
<1>5. lo \in Int /\ hi \in Int /\ lo - 1 <= hi /\ hi \in (lo - 1) .. hi
  OBVIOUS
<1>6. \A k \in (lo - 1) .. hi : k \in S
  BY <1>2, <1>4, <1>5, Climb
<1>7. hi \in S
  BY <1>5, <1>6
<1> QED BY <1>1, <1>7 DEF S

\* What a call does, whether it comes to its end or stops at a file.
LEMMA ProcessLow ==
  ASSUME NEW a, IsAcc(a), a.start \in Nat, a.done = <<>>, NEW kind, NEW disk,
         NEW frames, frames # {}, IsFiniteSet(frames), \A f \in frames : IsFrame(f), disk \/ Tracks(a)
  PROVE  LET w == Process(a, kind, frames, disk)
         IN /\ w.start \in Nat
            /\ KeepsFront(a) /\ (a.start = NoId \/ \E f \in a.image : f.a = a.start)
                 => w.start = NoId \/ \E f \in w.image : f.a = w.start
            /\ ~KeepsFront(a) => w.start = a.start \/ \E f \in frames : w.start = f.a /\ (disk \/ PassOf(f) <= w.pass)
            /\ ~disk /\ w.done # <<>> => a.pass <= w.pass /\ \E f \in frames : PassOf(f) > w.pass
<1> DEFINE m == MovedFor(a, kind, frames)
           w == Process(a, kind, frames, disk)
<1>1. /\ IsAcc(m) /\ m.mode = a.mode /\ m.pass = a.pass /\ m.done = a.done /\ m.image = a.image
  BY MovedForIs
<1>2. m.start = a.start
  <2> DEFINE v == Moved(a, frames)
  <2>1. v.start = a.start /\ IsAcc(v)
    BY MovedIs DEF Moved, IsAcc, Fed
  <2>2. \E x : m = [v EXCEPT !.kind = x]
    BY DEF MovedFor
  <2> HIDE DEF v, m
  <2> QED BY <2>1, <2>2 DEF IsAcc
<1>3. w = IF Tracks(a) THEN TakePasses(m, FirstPass(frames), FinalPass(frames), frames, disk) ELSE Deposit(m, frames)
  BY ProcessIs
<1> HIDE DEF m
<1>4. CASE Tracks(a)
  <2>1. Low(w, m, frames, disk)
    BY <1>1, <1>2, <1>3, <1>4, PassRange, BatchLow
  <2> HIDE DEF w
  <2>2. KeepsFront(m) <=> KeepsFront(a)
    BY <1>1 DEF KeepsFront
  <2>3. w.start \in Nat /\ (~disk /\ w.done # <<>> => a.pass <= w.pass /\ \E f \in frames : PassOf(f) > w.pass)
    BY <1>1, <2>1 DEF Low, Lowers
  <2>4. /\ KeepsFront(a) /\ (a.start = NoId \/ \E f \in a.image : f.a = a.start)
             => w.start = NoId \/ \E f \in w.image : f.a = w.start
        /\ ~KeepsFront(a) => w.start = a.start \/ \E f \in frames : w.start = f.a /\ PassOf(f) <= w.pass
    BY <1>1, <1>2, <2>1, <2>2 DEF Low, Lowers
  <2> QED BY <2>3, <2>4 DEF w
<1>5. CASE ~Tracks(a)
  <2>1. w.start = Begun(m, frames).start
    BY <1>1, <1>3, <1>5 DEF Deposit, Begun, IsAcc
  <2> QED BY <1>1, <1>2, <1>5, <2>1, BegunIs DEF Tracks
<1> QED BY <1>4, <1>5

-----------------------------------------------------------------------------
(* Images that come in order.                                                *)

\* The image before e, and what Orderly says of the images since, of all that were fed.
Prior(e, since) == LastOf({d \in since : Earlier(d, e)})
Chained(since, fed) ==
  /\ \A e \in since :
       \/ {d \in since : Earlier(d, e)} = {}
       \/ Prior(e, since).s = e.s /\ Prior(e, since).i = e.i - 1
       \/ Prior(e, since).s # e.s /\ e.i = 0 /\ (Prior(e, since).i + 1) % Positions = 0
  /\ \A e \in since, d \in fed : Earlier(d, e) => ~NewerPass(Pass(d), Pass(e))

\* The first image is at the start of a pass.
AtStart(since) == \A e \in since : e.i % Positions = 0 \/ \E d \in since : Earlier(d, e)

\* Images that may have been fed.
Fedable(S) == IsFiniteSet(S) /\ \A e \in S : IsEvent(e)

\* An image that has one before it has a last one before it.
LEMMA PriorIs ==
  ASSUME NEW S, Fedable(S), NEW e \in S, NEW d \in S, Earlier(d, e)
  PROVE  LET p == Prior(e, S)
         IN p \in S /\ Earlier(p, e) /\ ~Earlier(p, d) /\ {x \in S : Earlier(x, e)} # {}
<1> DEFINE T == {x \in S : Earlier(x, e)}
<1>1. T \subseteq S /\ d \in T
  OBVIOUS
<1>2. IsFiniteSet(T) /\ \A x \in T : IsEvent(x)
  BY <1>1, FS_Subset DEF Fedable
<1> HIDE DEF T
<1>3. LastOf(T) \in T /\ ~Earlier(LastOf(T), d)
  BY <1>1, <1>2, LastIs
<1> QED BY <1>1, <1>3 DEF T, Prior

\* From one image down to another of the series.
LEMMA Descent ==
  ASSUME NEW S, Fedable(S), NEW fed, Chained(S, fed), NEW d \in S, NEW e \in S, d.s = e.s, d.i <= e.i, ~Earlier(e, d)
  PROVE  \A i \in d.i .. e.i : \E x \in S : x.s = e.s /\ x.i = i
<1> DEFINE n == e.i - d.i
           T == {j \in 0 .. n : \E x \in S : x.s = e.s /\ x.i = e.i - j /\ ~Earlier(x, d)}
<1>1. n \in Nat /\ e.i \in Nat /\ d.i \in Nat
  BY DEF Fedable, IsEvent
<1>2. 0 \in T
  BY <1>1
<1>3. ASSUME NEW j \in 1 .. n, j - 1 \in T PROVE j \in T
  <2>1. PICK x \in S : x.s = e.s /\ x.i = e.i - (j - 1) /\ ~Earlier(x, d)
    BY <1>3
  <2>2. x.i > d.i
    BY <1>1, <2>1
  <2>3. Earlier(d, x)
    BY <2>1, <2>2 DEF Earlier, Fedable, IsEvent
  <2>4. /\ Prior(x, S) \in S /\ Earlier(Prior(x, S), x) /\ ~Earlier(Prior(x, S), d)
        /\ {y \in S : Earlier(y, x)} # {}
    BY <2>3, PriorIs
  <2>5. Prior(x, S).s = x.s
    BY <2>1, <2>4 DEF Earlier, Fedable, IsEvent
  <2>6. Prior(x, S).i = x.i - 1
    BY <2>4, <2>5 DEF Chained
  <2>7. x.i - 1 = e.i - j /\ j \in 0 .. n
    BY <1>1, <2>1
  <2> QED BY <2>1, <2>4, <2>5, <2>6, <2>7
<1> HIDE DEF T
<1>4. \A j \in 1 .. n : j - 1 \in T => j \in T
  BY <1>3
<1>5. 1 - 1 = 0 /\ 1 - 1 <= n /\ n \in Int
  BY <1>1
<1>6. \A j \in (1 - 1) .. n : j \in T
  <2> HIDE DEF n
  <2> QED BY <1>2, <1>4, <1>5, Climb
<1>7. ASSUME NEW i \in d.i .. e.i PROVE \E x \in S : x.s = e.s /\ x.i = i
  <2>1. e.i - i \in (1 - 1) .. n /\ e.i - (e.i - i) = i
    BY <1>1
  <2>2. e.i - i \in T
    BY <1>6, <2>1
  <2> QED BY <2>1, <2>2 DEF T
<1> QED BY <1>7

\* Numbers of one pass.
LEMMA WithinPass ==
  ASSUME NEW x \in Nat, NEW j \in 0 .. (x % Positions)
  PROVE  x - j \in Nat /\ (x - j) \div Positions = x \div Positions /\ (x - j) % Positions = (x % Positions) - j
<1> DEFINE n == x \div Positions
           u == n * Positions
           r == x % Positions
           P == Positions
<1>1. n \in Nat /\ u \in Nat /\ r \in 0 .. (P - 1) /\ x = u + r /\ P \in Nat
  BY PassBounds, PositionsPositive
<1>2. j \in 0 .. r
  OBVIOUS
<1> HIDE DEF u, r, P
<1>3. x - j \in Nat /\ u <= x - j /\ x - j < u + P
  BY <1>1, <1>2
<1>4. (x - j) \div Positions = n
  BY <1>1, <1>3, PassBounds DEF u, P
<1> DEFINE v == ((x - j) \div Positions) * Positions
           s == (x - j) % Positions
<1>5. v = u /\ x - j = v + s /\ s \in 0 .. (P - 1)
  BY <1>3, <1>4, PassBounds DEF u, P
<1> HIDE DEF v, s
<1>6. s = r - j
  BY <1>1, <1>2, <1>3, <1>5
<1> QED BY <1>3, <1>4, <1>6 DEF r, s

\* From an image down to the start of its pass, when the images began at a start.
LEMMA ToPassStart ==
  ASSUME NEW S, Fedable(S), NEW fed, Chained(S, fed), AtStart(S), NEW e \in S, NEW q \in 0 .. (e.i % Positions)
  PROVE  \E x \in S : Pass(x) = Pass(e) /\ x.s = e.s /\ x.i % Positions = q /\ x.i = e.i - ((e.i % Positions) - q)
<1> DEFINE n == e.i % Positions
           T == {j \in 0 .. n : \E x \in S : x.s = e.s /\ x.i = e.i - j}
<1>1. e.i \in Nat /\ n \in Nat
  BY PassBounds DEF Fedable, IsEvent
<1>2. 0 \in T
  BY <1>1
<1>3. ASSUME NEW j \in 1 .. n, j - 1 \in T PROVE j \in T
  <2>1. PICK x \in S : x.s = e.s /\ x.i = e.i - (j - 1)
    BY <1>3
  <2>2. j - 1 \in 0 .. (e.i % Positions) /\ n - (j - 1) # 0
    BY <1>1
  <2>3. x.i % Positions # 0
    BY <1>1, <2>1, <2>2, WithinPass
  <2>4. PICK d \in S : Earlier(d, x)
    BY <2>3 DEF AtStart
  <2>5. Prior(x, S) \in S /\ {y \in S : Earlier(y, x)} # {}
    BY <2>4, PriorIs
  <2>6. 0 % Positions = 0
    BY PositionsPositive
  <2>7. Prior(x, S).s = x.s /\ Prior(x, S).i = x.i - 1
    BY <2>3, <2>5, <2>6 DEF Chained
  <2>8. x.i - 1 = e.i - j /\ j \in 0 .. n
    BY <1>1, <2>1
  <2> QED BY <2>1, <2>5, <2>7, <2>8
<1> HIDE DEF T
<1>4. \A j \in 1 .. n : j - 1 \in T => j \in T
  BY <1>3
<1>5. 1 - 1 = 0 /\ 1 - 1 <= n /\ n \in Int
  BY <1>1
<1>6. \A j \in (1 - 1) .. n : j \in T
  <2> HIDE DEF n
  <2> QED BY <1>2, <1>4, <1>5, Climb
<1>7. n - q \in (1 - 1) .. n /\ n - (n - q) = q
  BY <1>1
<1>8. PICK x \in S : x.s = e.s /\ x.i = e.i - (n - q)
  BY <1>6, <1>7 DEF T
<1>9. x.i \div Positions = e.i \div Positions /\ x.i % Positions = q
  BY <1>1, <1>7, <1>8, WithinPass
<1> QED BY <1>8, <1>9 DEF Pass

\* The last number of a pass.
LEMMA PassEnd ==
  ASSUME NEW x \in Nat, NEW y \in Nat,
         y \div Positions > x \div Positions \/ (y \div Positions >= x \div Positions /\ y % Positions = Positions - 1)
  PROVE  \E t \in x .. y : t \div Positions = x \div Positions /\ t % Positions = Positions - 1
<1> DEFINE P == Positions
           n == x \div P
           m == y \div P
           u == n * P
           v == m * P
           t == x + (P - 1 - (x % P))
<1>1. P \in Nat /\ P > 0 /\ n \in Nat /\ m \in Nat /\ u \in Nat /\ v \in Nat
  BY PassBounds, PositionsPositive
<1>2. x % P \in 0 .. (P - 1) /\ x = u + (x % P) /\ y % P \in 0 .. (P - 1) /\ y = v + (y % P)
  BY PassBounds
<1>3. n < m => u + P <= v
  <2> SUFFICES ASSUME n < m PROVE u + P <= v
    OBVIOUS
  <2>1. y >= (n + 1) * P
    <3>1. n + 1 \in Nat /\ ~ (m < n + 1)
      BY <1>1
    <3> QED BY <3>1, PassBounds
  <2>2. (n + 1) * P = u + P
    BY <1>1
  <2>3. m >= n + 1 /\ (n + 1) * P <= m * P
    BY <1>1
  <2> QED BY <2>2, <2>3
<1>4. t \in Nat /\ t = u + (P - 1) /\ x <= t
  <2> HIDE DEF u, P
  <2> QED BY <1>1, <1>2
<1>5. t <= y
  <2>1. n = m => u = v
    OBVIOUS
  <2>2. m > n \/ (m >= n /\ y % P = P - 1)
    OBVIOUS
  <2> HIDE DEF t, u, v, n, m, P
  <2> QED BY <1>1, <1>2, <1>3, <1>4, <2>1, <2>2
<1>6. t \div P = n
  <2>1. u <= t /\ t < u + P
    BY <1>1, <1>4
  <2> HIDE DEF t
  <2> QED BY <1>1, <1>4, <2>1, PassBounds
<1>7. t % P = P - 1
  <2>1. t = (t \div P) * P + (t % P) /\ t % P \in 0 .. (P - 1)
    <3> HIDE DEF t
    <3> QED BY <1>4, PassBounds
  <2> DEFINE w == (t \div P) * P
             z == t % P
  <2>2. w = u /\ t = w + z /\ z \in Int
    BY <1>6, <2>1, PositionsPositive
  <2> HIDE DEF t, u, w, z
  <2>3. z = P - 1
    BY <1>1, <1>4, <2>2
  <2> QED BY <2>3 DEF z
<1> HIDE DEF t
<1> QED BY <1>4, <1>5, <1>6, <1>7

\* The last image of a pass that something newer came behind.
LEMMA PassEnds ==
  ASSUME NEW S, Fedable(S), NEW fed, S \subseteq fed, Chained(S, fed),
         NEW d \in S, NEW e \in S, NewerPass(Pass(e), Pass(d))
  PROVE  \E l \in S : Pass(l) = Pass(d) /\ l.i % Positions = Positions - 1
<1>1. /\ IsEvent(d) /\ IsEvent(e) /\ Pass(d).s = d.s /\ Pass(d).k = d.i \div Positions
      /\ Pass(e).s = e.s /\ Pass(e).k = e.i \div Positions
  BY PassOfEvent DEF Fedable
<1>2. ASSUME NEW l \in S, l.s = d.s, ~Earlier(l, d),
             \/ l.i \div Positions > d.i \div Positions
             \/ l.i \div Positions >= d.i \div Positions /\ l.i % Positions = Positions - 1
      PROVE  \E x \in S : Pass(x) = Pass(d) /\ x.i % Positions = Positions - 1
  <2>1. IsEvent(l)
    BY DEF Fedable
  <2>2. PICK t \in d.i .. l.i : t \div Positions = d.i \div Positions /\ t % Positions = Positions - 1
    BY <1>1, <1>2, <2>1, PassEnd DEF IsEvent
  <2>3. d.i <= l.i
    BY <1>1, <2>1, <2>2 DEF IsEvent
  <2>4. PICK x \in S : x.s = l.s /\ x.i = t
    BY <1>2, <2>2, <2>3, Descent
  <2> QED BY <1>2, <2>2, <2>4 DEF Pass
<1>3. ~Earlier(e, d)
  BY DEF Chained
<1>4. CASE e.s = d.s
  BY <1>1, <1>2, <1>3, <1>4 DEF NewerPass, IsEvent
<1>5. CASE e.s # d.s
  <2>1. e.s > d.s
    BY <1>1, <1>5 DEF NewerPass, IsEvent
  <2>2. ASSUME NEW T \in SUBSET S, T # {}, NEW h \in [T -> Nat] PROVE \E x \in T : \A y \in T : h[x] <= h[y]
    <3> DEFINE V == {h[x] : x \in T}
    <3>1. IsFiniteSet(T) /\ h \in Surjection(T, V)
      BY FS_Subset DEF Fedable, Surjection
    <3>2. IsFiniteSet(V)
      <4> HIDE DEF V
      <4> QED BY <3>1, FS_Surjection
    <3>3. V \in SUBSET Int /\ V # {}
      BY <2>2
    <3>4. Min(V) \in V /\ \A x \in V : Min(V) <= x
      <4> HIDE DEF V
      <4> QED BY <3>2, <3>3, Least
    <3>5. \A x \in T : h[x] \in V
      OBVIOUS
    <3>6. PICK x \in T : h[x] = Min(V)
      BY <3>4
    <3> HIDE DEF V
    <3> QED BY <3>4, <3>5, <3>6
  <2> DEFINE T == {x \in S : x.s > d.s}
             hs == [x \in T |-> x.s]
  <2>3. \A x \in S : x.s \in Nat /\ x.b \in Nat /\ x.i \in Nat
    BY DEF Fedable, IsEvent
  <2>4. PICK y \in T : \A x \in T : y.s <= x.s
    <3>1. T # {} /\ T \in SUBSET S /\ hs \in [T -> Nat]
      BY <2>1, <2>3
    <3>2. PICK y \in T : \A x \in T : hs[y] <= hs[x]
      <4> HIDE DEF T, hs
      <4> QED BY <2>2, <3>1
    <3> QED BY <3>2
  <2> DEFINE U == {x \in S : x.s = y.s}
             hi == [x \in U |-> x.i]
  <2>5. PICK z \in U : \A x \in U : z.i <= x.i
    <3>1. U # {} /\ U \in SUBSET S /\ hi \in [U -> Nat]
      BY <2>3
    <3>2. PICK z \in U : \A x \in U : hi[z] <= hi[x]
      <4> HIDE DEF U, hi
      <4> QED BY <2>2, <3>1
    <3> QED BY <3>2
  <2>6. z \in S /\ z.s = y.s /\ z.s > d.s
    OBVIOUS
  <2>7. \A x \in S : x.s > d.s => z.s <= x.s
    BY <2>4
  <2>8. \A x \in S : x.s = z.s => z.i <= x.i
    BY <2>5
  <2> HIDE DEF T, U
  <2> DEFINE l == Prior(z, S)
  <2>9. l \in S /\ Earlier(l, z) /\ ~Earlier(l, d) /\ {x \in S : Earlier(x, z)} # {}
    <3>1. Earlier(d, z)
      BY <2>6 DEF Earlier
    <3> QED BY <2>6, <3>1, PriorIs
  <2>10. l.s # z.s /\ (l.i + 1) % Positions = 0
    <3>1. ~ (l.s = z.s /\ l.i = z.i - 1)
      <4> SUFFICES ASSUME l.s = z.s, l.i = z.i - 1 PROVE FALSE
        OBVIOUS
      <4> HIDE DEF l
      <4>1. z.i <= l.i
        BY <2>8, <2>9
      <4> QED BY <2>3, <2>6, <2>9, <4>1
    <3> QED BY <2>6, <2>9, <3>1 DEF Chained
  <2> HIDE DEF l
  <2>11. l.s = d.s
    <3>1. l.s <= z.s /\ d.s <= l.s
      BY <2>3, <2>6, <2>9 DEF Earlier
    <3>2. l.s > d.s => z.s <= l.s
      BY <2>7, <2>9
    <3> QED BY <2>3, <2>6, <2>9, <2>10, <3>1, <3>2
  <2>12. l.i % Positions = Positions - 1
    BY <2>3, <2>9, <2>10, NextNumber
  <2>13. l.i \div Positions >= d.i \div Positions
    <3>1. Pass(l).s = l.s /\ Pass(l).k = l.i \div Positions /\ Pass(l).k \in Nat /\ Pass(d).k \in Nat
      BY <2>9, PassOfEvent DEF Fedable
    <3>2. CASE Earlier(d, l)
      <4>1. ~NewerPass(Pass(d), Pass(l))
        BY <2>9, <3>2 DEF Chained
      <4> QED BY <1>1, <2>11, <3>1, <4>1 DEF NewerPass
    <3>3. CASE ~Earlier(d, l)
      <4>1. l.i = d.i
        BY <2>3, <2>9, <3>3 DEF Earlier
      <4> QED BY <1>1, <3>1, <4>1
    <3> QED BY <3>2, <3>3
  <2> QED BY <1>2, <2>9, <2>11, <2>12, <2>13
<1> QED BY <1>4, <1>5

\* A pass that its last image came of, or something newer behind it, came as a whole.
LEMMA WholePass ==
  ASSUME NEW S, Fedable(S), NEW fed, S \subseteq fed, Chained(S, fed), AtStart(S), NEW d \in S,
         (\E l \in S : Pass(l) = Pass(d) /\ l.i % Positions = Positions - 1) \/ \E e \in S : NewerPass(Pass(e), Pass(d)),
         NEW q \in 0 .. (Positions - 1)
  PROVE  \E x \in S : Pass(x) = Pass(d) /\ x.i % Positions = q
<1>1. PICK l \in S : Pass(l) = Pass(d) /\ l.i % Positions = Positions - 1
  BY PassEnds
<1>2. PICK x \in S : Pass(x) = Pass(l) /\ x.i % Positions = q
  BY <1>1, ToPassStart
<1> QED BY <1>1, <1>2

-----------------------------------------------------------------------------
(* What the rows that are said to be complete say of the image.              *)

\* What is left of a number.
LEMMA RestIs ==
  ASSUME NEW x \in Nat, NEW m \in Int, NEW p \in 0 .. (Positions - 1), x = m * Positions + p
  PROVE  x % Positions = p /\ x \div Positions = m
<1> DEFINE P == Positions
           n == x \div P
           u == n * P
           v == m * P
           s == x % P
<1>1. P \in Nat /\ P > 0 /\ n \in Nat /\ u \in Nat /\ s \in 0 .. (P - 1) /\ x = u + s
  BY PassBounds, PositionsPositive
<1>2. v \in Int /\ x = v + p /\ p \in 0 .. (P - 1)
  BY <1>1
<1>3. (n < m => u + P <= v) /\ (m < n => v + P <= u)
  <2>1. \A a, b \in Int : a < b => a * P + P <= b * P
    <3> TAKE a, b \in Int
    <3> SUFFICES ASSUME a < b PROVE a * P + P <= b * P
      OBVIOUS
    <3>1. a + 1 <= b /\ (a + 1) * P = a * P + P
      BY <1>1
    <3> HIDE DEF P
    <3>2. (a + 1) * P <= b * P
      BY <1>1, <3>1
    <3> QED BY <3>1, <3>2
  <2> QED BY <1>1, <2>1
<1>4. n = m => u = v
  OBVIOUS
<1> HIDE DEF u, v, s, n, P
<1>5. s = p /\ n = m
  BY <1>1, <1>2, <1>3, <1>4
<1> QED BY <1>5 DEF s, n, P

\* The positions of a row of the scan.
LEMMA RowPositions ==
  ASSUME NEW k \in 0 .. (Rows - 1), NEW p \in (k * Width) .. (k * Width + Width - 1)
  PROVE  p \in 0 .. (Positions - 1) /\ k * Width \in Nat
<1>1. Rows \in Nat /\ Width \in Nat
  BY ParallaxAssumption
<1>2. k * Width \in Nat /\ (k + 1) * Width = k * Width + Width /\ (k + 1) * Width <= Rows * Width
  BY <1>1
<1> QED BY <1>1, <1>2 DEF Positions

\* A span of numbers that is a scan, or reaches over a row of the scan, has the positions of the row.
LEMMA SpanHas ==
  ASSUME NEW c \in Nat, NEW l \in Nat, c <= l, NEW k \in 0 .. (Rows - 1),
         NEW p \in (k * Width) .. (k * Width + Width - 1),
         l - c + 1 >= Positions \/ ((k * Width - c) % Positions) + Width <= l - c + 1
  PROVE  \E x \in c .. l : x % Positions = p
<1> DEFINE P == Positions
<1>1. P \in Nat /\ P > 0 /\ p \in 0 .. (P - 1) /\ k * Width \in Nat /\ Width \in Nat
  BY PositionsPositive, RowPositions, ParallaxAssumption
<1>2. ASSUME NEW z \in Int, NEW j \in Nat, z + j = p, ((z - c) % P) + j <= l - c
      PROVE  \E x \in c .. l : x % P = p
  <2> DEFINE r == (z - c) % P
             q == (z - c) \div P
             x == c + r + j
  <2>1. r \in 0 .. (P - 1) /\ q \in Int /\ z - c = P * q + r
    <3> DEFINE y == z - c
    <3>1. y \in Int /\ P \in Int /\ P > 0
      BY <1>1
    <3> HIDE DEF y, P
    <3> QED BY <3>1, SMT DEF y
  <2>2. -q \in Int /\ (-q) * P = -(P * q)
    BY <1>1, <2>1
  <2>3. x \in Nat /\ x <= l /\ c <= x /\ x = (-q) * P + p
    <3> DEFINE u == P * q
               v == (-q) * P
    <3>1. z - c = u + r /\ v = -u /\ u \in Int
      BY <1>1, <2>1, <2>2
    <3> HIDE DEF u, v, q
    <3>2. r + j <= l - c
      BY <1>2
    <3> HIDE DEF r, P
    <3> QED BY <1>1, <1>2, <2>1, <3>1, <3>2 DEF v
  <2> HIDE DEF x, q, r
  <2>4. x % P = p
    BY <1>1, <2>2, <2>3, RestIs
  <2> QED BY <2>3, <2>4
<1>3. CASE l - c + 1 >= P
  <2>1. (p - c) % P \in 0 .. (P - 1)
    BY <1>1
  <2>2. ((p - c) % P) + 0 <= l - c /\ p \in Int /\ p + 0 = p
    BY <1>1, <1>3, <2>1
  <2> QED BY <1>2, <2>2
<1>4. CASE ((k * Width - c) % P) + Width <= l - c + 1
  <2> DEFINE z == k * Width
             j == p - z
  <2>1. z \in Int /\ j \in Nat /\ z + j = p /\ j <= Width - 1
    BY <1>1
  <2>2. (z - c) % P \in Int
    BY <1>1, <2>1
  <2> DEFINE r == (z - c) % P
  <2>3. r \in Int /\ r + Width <= l - c + 1
    BY <1>4, <2>2
  <2> HIDE DEF r, z, j
  <2>4. r + j <= l - c
    BY <1>1, <2>1, <2>3
  <2> QED BY <1>2, <2>1, <2>4 DEF r
<1> QED BY <1>3, <1>4

\* Of some runs of rows one is the longest, and the first of those.
LEMMA BestRun ==
  ASSUME NEW n \in Nat, NEW R \in SUBSET ((0 .. n) \X (1 .. n)), R # {}
  PROVE  \E r \in R : \A q \in R : r[2] - r[1] > q[2] - q[1] \/ (r[2] - r[1] = q[2] - q[1] /\ r[1] <= q[1])
<1>1. \A r \in R : r[1] \in 0 .. n /\ r[2] \in 1 .. n
  OBVIOUS
<1> DEFINE L == {r[2] - r[1] : r \in R}
<1>2. L \subseteq (-n) .. n /\ L # {}
  BY <1>1
<1>3. IsFiniteSet((-n) .. n) /\ (-n) .. n \subseteq Int
  BY FS_Interval
<1> HIDE DEF L
<1>4. Max(L) \in L /\ \A x \in L : x <= Max(L)
  BY <1>2, <1>3, FS_Subset, Greatest
<1> DEFINE T == {r[1] : r \in {q \in R : q[2] - q[1] = Max(L)}}
<1>5. T \subseteq 0 .. n /\ T # {}
  BY <1>1, <1>4 DEF L
<1>6. IsFiniteSet(0 .. n) /\ 0 .. n \subseteq Int
  BY FS_Interval
<1>7. \A q \in R : q[2] - q[1] = Max(L) => q[1] \in T
  OBVIOUS
<1>8. \A x \in T : \E r \in R : r[2] - r[1] = Max(L) /\ r[1] = x
  OBVIOUS
<1> HIDE DEF T
<1>9. Min(T) \in T /\ \A x \in T : Min(T) <= x
  BY <1>5, <1>6, FS_Subset, Least
<1>10. PICK r \in R : r[2] - r[1] = Max(L) /\ r[1] = Min(T)
  BY <1>8, <1>9
<1>11. ASSUME NEW q \in R
       PROVE  r[2] - r[1] > q[2] - q[1] \/ (r[2] - r[1] = q[2] - q[1] /\ r[1] <= q[1])
  <2>1. q[2] - q[1] \in L /\ q[2] - q[1] \in Int
    BY <1>1 DEF L
  <2>2. q[2] - q[1] <= Max(L)
    BY <1>4, <2>1
  <2>3. r[2] - r[1] \in Int
    BY <1>1
  <2> QED BY <1>7, <1>9, <1>10, <2>1, <2>2, <2>3
<1> QED BY <1>11

\* A row said to be complete, when the image is: the cursor has come over the positions of each of
\* its sources since the image was begun.
LEMMA RowsCovered ==
  ASSUME NEW a, IsAcc(a), a.start \in Nat, ~(a.front # {} /\ (a.mode = "swap" \/ a.image = {})),
         NEW y \in ClaimedRows(a), NEW k \in Sources(a.geo, y),
         NEW p \in (k * Width) .. (k * Width + Width - 1)
  PROVE  y \in OutRows /\ a.last \in Nat /\ a.start <= a.last /\ \E x \in a.start .. a.last : x % Positions = p
<1> DEFINE done == {z \in OutRows : Sources(a.geo, z) \subseteq CoveredRows(a)}
           runs == {r \in OutRows \X (1 .. Rows * Up) : r[1] < r[2] /\ r[1] .. (r[2] - 1) \subseteq done}
           best == CHOOSE r \in runs : \A q \in runs :
                     r[2] - r[1] > q[2] - q[1] \/ (r[2] - r[1] = q[2] - q[1] /\ r[1] <= q[1])
           none == {<<0, 0>>}
           full == a.last - a.start + 1 >= Positions
<1>1. CompleteRows(a) = IF a.last < 0 \/ a.start > a.last THEN none
                        ELSE IF full \/ done = OutRows THEN {}
                        ELSE IF runs = {} THEN none ELSE {best}
  BY DEF CompleteRows
<1>2. UNION {x[1] .. (x[2] - 1) : x \in none} = {}
  BY SMT
<1>3. CompleteRows(a) # none
  BY <1>2 DEF ClaimedRows
<1>4. a.last \in Nat /\ a.start <= a.last
  BY <1>1, <1>3 DEF IsAcc
<1>5. full \/ y \in done
  <2>1. CASE full \/ done = OutRows
    <3>1. CompleteRows(a) = {}
      BY <1>1, <1>3, <2>1
    <3> QED BY <2>1, <3>1 DEF ClaimedRows
  <2>2. CASE ~ (full \/ done = OutRows)
    <3>1. runs # {} /\ CompleteRows(a) = {best}
      BY <1>1, <1>3, <2>2
    <3>2. best \in runs
      <4>1. Rows * Up \in Nat /\ OutRows \subseteq 0 .. (Rows * Up)
        BY ParallaxAssumption DEF OutRows
      <4> DEFINE n == Rows * Up
      <4>2. runs \subseteq (0 .. n) \X (1 .. n)
        BY <4>1
      <4> HIDE DEF runs, n
      <4>3. \E r \in runs : \A q \in runs : r[2] - r[1] > q[2] - q[1] \/ (r[2] - r[1] = q[2] - q[1] /\ r[1] <= q[1])
        BY <3>1, <4>1, <4>2, BestRun DEF n
      <4> QED BY <4>3, Zenon
    <3>3. y \in best[1] .. (best[2] - 1)
      <4> HIDE DEF best
      <4> QED BY <3>1 DEF ClaimedRows
    <3>4. best[1] .. (best[2] - 1) \subseteq done
      <4> HIDE DEF best, done
      <4> QED BY <3>2
    <3> QED BY <3>3, <3>4
  <2> QED BY <2>1, <2>2
<1>6. y \in OutRows
  <2>1. CASE CompleteRows(a) = {}
    BY <2>1 DEF ClaimedRows
  <2>2. CASE CompleteRows(a) # {}
    <3>1. ~full
      BY <1>1, <1>3, <2>2
    <3> QED BY <1>5, <3>1
  <2> QED BY <2>1, <2>2
<1>7. k \in 0 .. (Rows - 1)
  BY DEF Sources
<1>8. full \/ ((k * Width - a.start) % Positions) + Width <= a.last - a.start + 1
  BY <1>5 DEF CoveredRows
<1>9. \E x \in a.start .. a.last : x % Positions = p
  BY <1>4, <1>7, <1>8, SpanHas
<1> QED BY <1>4, <1>6, <1>9

-----------------------------------------------------------------------------
(* Rows, by what is known of the image and of the lowest number in it.       *)

\* The image has the frame its lowest number is of.
OnStart(a) == a.start = NoId \/ \E f \in a.image : f.a = a.start

\* A pass is closed behind its last image, or by something behind it.
Ended(a) == a.closed => a.last \div Positions # a.pass \/ a.last % Positions = Positions - 1

\* Number top is that of image l, which came last, if the next is of series r; the cursor may have
\* been moved on in the pass.
Reached(a, r, l, top) ==
  /\ top <= a.last /\ a.last \div Positions = top \div Positions /\ top % Positions = l.i % Positions
  /\ l.s = r => top = l.i + a.offset
  /\ l.s # r => l.s < r /\ a.offset = (top \div Positions + 1) * Positions

\* "all" and "latest": from the lowest number on, every position was fed.
SpanInv(a, r, since, fed) ==
  since # {} /\ Chained(since, fed) /\ a.last < NoId =>
    \E top \in 0 .. a.last :
      /\ Reached(a, r, LastOf(since), top)
      /\ \A x \in a.start .. top : \E e \in since : e.i % Positions = x % Positions

\* The cursor is on an image of the series, or before them.
CountInv == acc.last < acc.offset \/ \E d \in Mine : acc.last = d.i + acc.offset

\* The session has been stopped, on purpose or by an error.
Stopped == main \in {"stop", "resave", "last", "closed"}

\* "all" and "latest", but for a batch that could not be stored, or not all of it.
OthersInv ==
  ~KeepsFront(acc) =>
    \/ Stopped /\ Unstorable(acc, series.kind)
    \/ /\ Since = {} => acc.start = NoId
       /\ \/ Stopped /\ \A f \in acc.image : f.a < acc.last
          \/ (\A f \in acc.image : f.a <= acc.last) /\ SpanInv(acc, rounds, Since, log)

\* The inductive invariant.
RowsInvariant ==
  /\ IsFiniteSet(log) /\ acc.start \in Nat
  /\ KeepsFront(acc) => OnStart(acc) /\ Ended(acc)
  /\ Running => CountInv
  /\ OthersInv

\* Orderly, in the words of the lemmas above.
LEMMA OrderlyIs ==
  ASSUME ControlInv, ImageInvariant, IsFiniteSet(log), Orderly
  PROVE  /\ Fedable(Since) /\ Since \subseteq log /\ Chained(Since, log) /\ acc.last < NoId
         /\ Since # {} => /\ LastOf(Since) \in Since
                         /\ \E f \in acc.image \cup Completed(acc) :
                              /\ f.a = acc.last /\ f.s = LastOf(Since).s /\ f.i = LastOf(Since).i
<1>1. Since \subseteq log /\ Fedable(Since)
  BY LogIs, FS_Subset DEF Fedable
<1>2. Chained(Since, log)
  BY DEF Orderly, Chained, Prior
<1>3. ASSUME Since # {}
      PROVE  /\ LastOf(Since) \in Since
             /\ \E f \in acc.image \cup Completed(acc) :
                  f.a = acc.last /\ f.s = LastOf(Since).s /\ f.i = LastOf(Since).i
  <2>1. PICK f \in acc.image \cup Completed(acc) : f.a = acc.last /\ Ids({f}) = Ids({LastOf(Since)})
    BY <1>3 DEF Orderly
  <2>2. [s |-> f.s, i |-> f.i] = [s |-> LastOf(Since).s, i |-> LastOf(Since).i]
    BY <2>1 DEF Ids
  <2>3. f.s = LastOf(Since).s /\ f.i = LastOf(Since).i
    BY <2>2
  <2> QED BY <1>1, <1>3, <2>1, <2>3, LastIs DEF Fedable
<1> QED BY <1>1, <1>2, <1>3 DEF Orderly

\* "all" and "latest": a position that was fed is in the image.
LEMMA HeldHas ==
  ASSUME NEW a, a.mode \in {"all", "latest"}, NEW since, Fedable(since), HeldInv(a, since), NEW e \in since
  PROVE  \E f \in a.image : Pos(f) = e.i % Positions
<1>1. ~KeepsFront(a)
  BY DEF KeepsFront
<1>2. CASE a.mode = "all"
  BY <1>1, <1>2 DEF HeldInv, Same, Has
<1>3. CASE a.mode = "latest"
  <2> DEFINE T == {d \in since : d.i % Positions = e.i % Positions}
             l == LastOf(T)
  <2>1. T \subseteq since /\ e \in T
    OBVIOUS
  <2>2. IsFiniteSet(T) /\ \A d \in T : IsEvent(d)
    BY <2>1, FS_Subset DEF Fedable
  <2>3. l \in T /\ \A d \in T : ~Earlier(l, d)
    <3> HIDE DEF T
    <3> QED BY <2>1, <2>2, LastIs
  <2> HIDE DEF l
  <2>4. l \in Unreplaced(since)
    BY <2>3 DEF Unreplaced
  <2>5. Has(a.image, l)
    BY <1>1, <1>3, <2>4 DEF HeldInv, Same
  <2> QED BY <1>1, <2>3, <2>5 DEF HeldInv, Has
<1> QED BY <1>2, <1>3

\* "all" and "latest": the rows of a page are in the image.
LEMMA RowsOfOthers ==
  ASSUME ControlInv, ImageInvariant, RowsInvariant, ~KeepsFront(acc), acc # NoAcc, Orderly,
         NEW y \in ClaimedRows(acc), NEW k \in Sources(acc.geo, y),
         NEW p \in (k * Width) .. (k * Width + Width - 1)
  PROVE  \E f \in Shown(acc, y) : Pos(f) = p
<1>1. IsAcc(acc) /\ acc.mode \in {"all", "latest"} /\ acc.start \in Nat /\ IsFiniteSet(log)
  BY DEF ControlInv, AccOk, Modes, KeepsFront, RowsInvariant, OthersInv
<1>2. HeldInv(acc, Since) /\ acc.front = {}
  BY DEF ImageInvariant, HeldInv
<1>3. Shown(acc, y) = acc.image /\ Completed(acc) = acc.image
  BY <1>2 DEF Shown, Completed
<1>4. acc.last \in Nat /\ acc.start <= acc.last /\ \E x \in acc.start .. acc.last : x % Positions = p
  BY <1>1, <1>2, RowsCovered
<1>5. ~Unstorable(acc, series.kind)
  BY DEF Orderly
<1>6. Since # {}
  BY <1>4, <1>5, OrderlyIs, NoIdIs, <1>1 DEF RowsInvariant, OthersInv
<1>7. PICK f \in acc.image : f.a = acc.last /\ f.i = LastOf(Since).i
  BY <1>1, <1>3, <1>6, OrderlyIs
<1>8. SpanInv(acc, rounds, Since, log)
  BY <1>1, <1>4, <1>5, <1>7 DEF RowsInvariant, OthersInv
<1>9. PICK top \in 0 .. acc.last :
        /\ acc.last \div Positions = top \div Positions /\ top % Positions = LastOf(Since).i % Positions
        /\ \A x \in acc.start .. top : \E e \in Since : e.i % Positions = x % Positions
  BY <1>1, <1>6, <1>8, OrderlyIs DEF SpanInv, Reached
<1>10. acc.last % Positions = f.i % Positions
  BY <1>2, <1>7 DEF HeldInv, Pos
<1>11. top = acc.last
  BY <1>4, <1>7, <1>9, <1>10, SameNumber
<1>12. PICK e \in Since : e.i % Positions = p
  BY <1>4, <1>9, <1>11
<1> QED BY <1>1, <1>2, <1>3, <1>12, HeldHas, OrderlyIs

\* "reset" and "swap": what is known when images came in order and from the start of a pass.
InOrder(a, base, r, since, fed, ahead) ==
  /\ IsAcc(a) /\ KeepsFront(a) /\ base \in Bases /\ PassInv(a, base, r, since, fed, ahead)
  /\ OnStart(a) /\ Ended(a)
  /\ Fedable(since) /\ since \subseteq fed /\ Chained(since, fed) /\ AtStart(since) /\ a.last < NoId
  /\ \A c \in a.front : c.frames # {}
  /\ since # {} => /\ LastOf(since) \in since
                  /\ \E f \in a.image \cup Completed(a) :
                       f.a = a.last /\ f.s = LastOf(since).s /\ f.i = LastOf(since).i

\* Frames of one pass are of one series.
LEMMA OneSeries ==
  ASSUME NEW a, NEW base \in Bases, NEW r, NEW since, FedInv(a, base, r, since),
         NEW d \in since, NEW e \in since, Num(base, d) = Num(base, e)
  PROVE  d.s = e.s /\ d.i \div Positions = e.i \div Positions /\ Pass(d) = Pass(e)
<1>1. /\ d.s \in Nat /\ e.s \in Nat /\ d.i \in Nat /\ e.i \in Nat /\ Num(base, d) \in Nat /\ Num(base, e) \in Nat
      /\ d.i \div Positions \in Nat /\ e.i \div Positions \in Nat
  BY NumIsNat, PassBounds DEF FedInv
<1>2. d.s = e.s
  BY <1>1 DEF FedInv
<1>3. base[e.s] \in Nat
  BY <1>1 DEF Bases
<1>4. d.i \div Positions = e.i \div Positions
  BY <1>1, <1>2, <1>3 DEF Num
<1> QED BY <1>2, <1>4 DEF Pass

\* The image has the last frame when the cursor is in the running pass.
LEMMA LastInImage ==
  ASSUME NEW a, NEW base, NEW r, NEW since, NEW fed, NEW ahead, InOrder(a, base, r, since, fed, ahead),
         a.image # {}, a.last \in Nat, a.pass <= a.last \div Positions
  PROVE  /\ ~a.closed /\ LastOf(since) \in since /\ Num(base, LastOf(since)) = a.pass
         /\ a.last \div Positions = a.pass /\ a.last % Positions = LastOf(since).i % Positions
         /\ \A e \in since : Num(base, e) = a.pass => \E g \in a.image : Pos(g) = e.i % Positions
<1>1. ~a.closed /\ ImageInv(a, base, since) /\ FrontInv(a, base, since, fed) /\ a.pass \in Int
  BY DEF InOrder, PassInv, ImageInv, IsAcc
<1>2. PICK f1 \in a.image : Has(since, f1)
  BY <1>1 DEF ImageInv, OnlyOf
<1>3. since # {}
  BY <1>2 DEF Has
<1>4. PICK f \in a.image \cup Completed(a) : f.a = a.last /\ f.s = LastOf(since).s /\ f.i = LastOf(since).i
  BY <1>3 DEF InOrder
<1>5. f \in a.image
  <2> SUFFICES ASSUME f \notin a.image PROVE FALSE
    OBVIOUS
  <2>1. PICK c \in a.front : f \in c.frames
    BY <1>4 DEF Completed
  <2>2. c.pass \in 0 .. a.pass /\ c.pass # a.pass /\ PassOf(f) = c.pass
    BY <1>1, <2>1 DEF FrontInv, OnlyOf, Seated
  <2> QED BY <1>1, <1>4, <2>2 DEF PassOf
<1>6. Num(base, f) = a.pass /\ PassOf(f) = a.pass /\ Pos(f) = f.i % Positions
  BY <1>1, <1>5 DEF ImageInv, OnlyOf, Seated
<1>7. ASSUME NEW e \in since, Num(base, e) = a.pass PROVE \E g \in a.image : Pos(g) = e.i % Positions
  <2>1. PICK g \in a.image : g.i = e.i
    BY <1>1, <1>7 DEF ImageInv, Has
  <2> QED BY <1>1, <2>1 DEF ImageInv, OnlyOf, Seated
<1>8. LastOf(since) \in since
  BY <1>3 DEF InOrder
<1> QED BY <1>1, <1>4, <1>6, <1>7, <1>8 DEF Num, PassOf, Pos

\* A row of the running image that the cursor has come over.
LEMMA CoveredInImage ==
  ASSUME NEW a, NEW base, NEW r, NEW since, NEW fed, NEW ahead, InOrder(a, base, r, since, fed, ahead),
         a.last \in Nat, a.start \in Nat, NEW x \in a.start .. a.last
  PROVE  \E g \in a.image : Pos(g) = x % Positions
<1> DEFINE l == LastOf(since)
           p == x % Positions
<1>1. a.start # NoId
  BY NoIdIs DEF InOrder
<1>2. PICK f0 \in a.image : f0.a = a.start
  BY <1>1 DEF InOrder, OnStart
<1>3. /\ Num(base, f0) = a.pass /\ Has(since, f0) /\ a.start \div Positions = a.pass
      /\ a.start % Positions = f0.i % Positions /\ a.start <= a.last
  BY <1>2 DEF InOrder, PassInv, ImageInv, OnlyOf, Seated, PassOf, Pos
<1>4. a.pass <= a.last \div Positions
  BY <1>3, DivMonotone
<1>5. /\ l \in since /\ Num(base, l) = a.pass
      /\ a.last \div Positions = a.pass /\ a.last % Positions = l.i % Positions
      /\ \A e \in since : Num(base, e) = a.pass => \E g \in a.image : Pos(g) = e.i % Positions
  BY <1>2, <1>4, LastInImage
<1>6. PICK e0 \in since : e0.s = f0.s /\ e0.i = f0.i
  BY <1>3 DEF Has
<1>7. Num(base, e0) = a.pass
  BY <1>3, <1>6 DEF Num
<1>8. e0.s = l.s /\ e0.i \div Positions = l.i \div Positions
  <2> HIDE DEF l
  <2> QED BY <1>5, <1>7, OneSeries DEF InOrder, PassInv
<1>9. x \in Nat /\ x \div Positions = a.pass
  <2>1. x \in Nat /\ a.start <= x /\ x <= a.last
    OBVIOUS
  <2>2. a.start \div Positions <= x \div Positions /\ x \div Positions <= a.last \div Positions
    BY <2>1, DivMonotone
  <2>3. x \div Positions \in Nat /\ a.pass \in Int
    BY <2>1, PassBounds DEF InOrder, IsAcc
  <2> QED BY <1>3, <1>5, <2>1, <2>2, <2>3
<1> DEFINE P == Positions
           n == a.pass * P
           m == l.i \div P
           i == m * P + p
<1>10. /\ l.i \in Nat /\ e0.i \in Nat /\ m \in Nat /\ m * P \in Nat /\ p \in 0 .. (P - 1) /\ P \in Nat
       /\ e0.i = m * P + (e0.i % P) /\ l.i = m * P + (l.i % P)
       /\ e0.i % P \in 0 .. (P - 1) /\ l.i % P \in 0 .. (P - 1)
  <2>1. l.i \in Nat /\ e0.i \in Nat
    BY <1>5, <1>6 DEF InOrder, Fedable, IsEvent
  <2> QED BY <1>8, <1>9, <2>1, PassBounds, PositionsPositive
<1>11. e0.i % P <= p /\ p <= l.i % P
  <2>1. /\ a.start = n + (a.start % P) /\ x = n + p /\ a.last = n + (a.last % P) /\ n \in Int
        /\ a.start % P \in 0 .. (P - 1) /\ a.last % P \in 0 .. (P - 1)
    BY <1>3, <1>5, <1>9, PassBounds DEF InOrder, IsAcc
  <2> DEFINE s0 == a.start % P
             s1 == a.last % P
  <2>2. s0 = e0.i % P /\ s1 = l.i % P
    BY <1>3, <1>5, <1>6
  <2>3. /\ a.start = n + s0 /\ x = n + p /\ a.last = n + s1 /\ n \in Int /\ P \in Nat
        /\ s0 \in 0 .. (P - 1) /\ s1 \in 0 .. (P - 1) /\ p \in 0 .. (P - 1) /\ a.start <= x /\ x <= a.last
    BY <1>10, <2>1
  <2> HIDE DEF n, p, P, l, s0, s1
  <2>4. s0 <= p /\ p <= s1
    BY <2>3
  <2> QED BY <2>2, <2>4
<1>12. i \in Nat /\ e0.i <= i /\ i <= l.i /\ i % P = p /\ i \div P = m
  <2> DEFINE w == m * P
  <2>1. i \in Nat /\ e0.i <= i /\ i <= l.i
    <3> DEFINE q0 == e0.i % P
               q1 == l.i % P
               i1 == l.i
               i0 == e0.i
    <3>1. i = w + p /\ w \in Nat /\ i0 = w + q0 /\ i1 = w + q1 /\ q0 <= p /\ p <= q1
      BY <1>10, <1>11
    <3>2. P \in Nat /\ q0 \in 0 .. (P - 1) /\ q1 \in 0 .. (P - 1) /\ p \in 0 .. (P - 1)
      BY <1>10
    <3> HIDE DEF w, p, P, i, q0, q1, i0, i1
    <3>3. i \in Nat /\ i0 <= i /\ i <= i1
      BY <3>1, <3>2
    <3> QED BY <3>3 DEF i0, i1
  <2>2. i % P = p /\ i \div P = m
    <3>1. i \in Nat /\ m \in Int /\ p \in 0 .. (Positions - 1) /\ i = m * Positions + p
      BY <1>10, <2>1
    <3> HIDE DEF i, m, p
    <3> QED BY <3>1, RestIs
  <2> QED BY <2>1, <2>2
<1>13. PICK e \in since : e.s = l.s /\ e.i = i
  <2>1. ~Earlier(l, e0)
    <3>1. IsFiniteSet(since) /\ (\A d \in since : IsEvent(d)) /\ since # {}
      BY <1>5 DEF InOrder, Fedable
    <3> QED BY <1>6, <3>1, LastIs
  <2> HIDE DEF i, l
  <2>2. e0.i <= l.i /\ i \in e0.i .. l.i
    <3>1. l.i \in Nat /\ e0.i \in Nat /\ i \in Nat /\ e0.i <= i /\ i <= l.i
      BY <1>10, <1>12
    <3> QED BY <3>1
  <2> QED BY <1>5, <1>6, <1>8, <2>1, <2>2, Descent DEF InOrder
<1>14. Num(base, e) = a.pass /\ e.i % Positions = p
  BY <1>5, <1>12, <1>13 DEF Num
<1> QED BY <1>5, <1>14

\* A row that "swap" takes from the running pass: the cursor is behind each of its sources.
LEMMA RowDone ==
  ASSUME NEW a, IsAcc(a), NEW y, FromCurrent(a, y), NEW k \in Sources(a.geo, y),
         NEW p \in (k * Width) .. (k * Width + Width - 1)
  PROVE  a.last \in Nat /\ a.last \div Positions = a.pass /\ p \in 0 .. (a.last % Positions)
<1> DEFINE S == Sources(a.geo, y) \cup {-1}
           t == a.last % Positions
           d == (t + 1) \div Width
<1>1. k \in 0 .. (Rows - 1) /\ Rows \in Nat /\ Width \in Nat /\ Width > 0
  BY ParallaxAssumption DEF Sources
<1>2. k <= Max(S) /\ Max(S) \in Int
  <2>1. IsFiniteSet(0 .. (Rows - 1)) /\ Sources(a.geo, y) \subseteq 0 .. (Rows - 1)
    <3>1. 0 \in Int /\ Rows - 1 \in Int
      BY <1>1
    <3>2. IsFiniteSet(0 .. (Rows - 1))
      BY <3>1, FS_Interval
    <3>3. Sources(a.geo, y) \subseteq 0 .. (Rows - 1)
      BY DEF Sources
    <3> QED BY <3>2, <3>3
  <2>2. IsFiniteSet(Sources(a.geo, y) \cup {-1})
    <3> DEFINE Q == Sources(a.geo, y)
    <3>1. IsFiniteSet(Q)
      BY <2>1, FS_Subset
    <3> HIDE DEF Q
    <3> QED BY <3>1, FS_AddElement DEF Q
  <2>3. S \in SUBSET Int /\ k \in S
    BY <1>1, <2>1
  <2> HIDE DEF S
  <2> QED BY <2>2, <2>3, Greatest DEF S
<1>3. Max(S) < RowsDone(a)
  BY DEF FromCurrent, RowSource
<1>4. a.last \in Nat /\ a.last \div Positions = a.pass /\ RowsDone(a) = d
  <2>1. RowsDone(a) # 0
    BY <1>1, <1>2, <1>3
  <2> QED BY <2>1 DEF RowsDone, IsAcc
<1>5. t \in Nat
  BY <1>4, PassBounds
<1>6. d \in Nat /\ d * Width <= t + 1
  <2>1. t + 1 \in Nat
    BY <1>5
  <2> DEFINE n == t + 1
  <2>2. n \in Nat
    BY <2>1
  <2> HIDE DEF t, n
  <2>3. n \div Width \in Nat /\ n % Width \in 0 .. (Width - 1) /\ n = Width * (n \div Width) + (n % Width)
    BY <1>1, <2>2, Quotient
  <2> DEFINE q == n \div Width
             z == n % Width
             v == Width * q
             w == q * Width
  <2>4. v = w /\ v \in Nat /\ z \in Nat /\ n = v + z
    BY <1>1, <2>3
  <2> HIDE DEF q, z, v, w
  <2>5. w <= n
    BY <2>4
  <2> QED BY <2>3, <2>5 DEF q, w, n
<1> HIDE DEF d, S, t
<1>7. k + 1 <= d
  BY <1>1, <1>2, <1>3, <1>4, <1>6
<1>8. (k + 1) * Width <= d * Width /\ (k + 1) * Width = k * Width + Width /\ k * Width \in Nat
  BY <1>1, <1>6, <1>7
<1>9. p \in 0 .. t
  <2> DEFINE u == k * Width
             v == d * Width
  <2>1. u + Width <= v /\ v <= t + 1 /\ p \in u .. (u + Width - 1) /\ u \in Nat /\ v \in Nat
    BY <1>1, <1>6, <1>8
  <2> HIDE DEF u, v
  <2> QED BY <1>1, <1>5, <2>1
<1> QED BY <1>4, <1>9 DEF t

\* The completed pass has every position.
LEMMA CompletedHas ==
  ASSUME NEW a, NEW base, NEW r, NEW since, NEW fed, NEW ahead, InOrder(a, base, r, since, fed, ahead),
         a.front # {}, NEW p \in 0 .. (Positions - 1)
  PROVE  \E g \in Completed(a) : Pos(g) = p
<1>1. IsAcc(a) /\ FrontInv(a, base, since, fed) /\ FedInv(a, base, r, since) /\ ImageInv(a, base, since)
  BY DEF InOrder, PassInv
<1>2. ASSUME NEW c \in a.front, NEW d \in since, Num(base, d) = c.pass,
             (\E l \in since : Pass(l) = Pass(d) /\ l.i % Positions = Positions - 1)
               \/ \E e \in since : NewerPass(Pass(e), Pass(d))
      PROVE  \E g \in Completed(a) : Pos(g) = p
  <2>1. PICK x \in since : Pass(x) = Pass(d) /\ x.i % Positions = p
    BY <1>2, WholePass DEF InOrder
  <2>2. Num(base, x) = c.pass
    BY <1>2, <2>1 DEF Num, Pass
  <2>3. ~Overtaken(x, fed)
    BY DEF Overtaken, InOrder, Chained
  <2>4. PICK g \in c.frames : g.i = x.i
    BY <1>1, <2>2, <2>3 DEF FrontInv, Has
  <2>5. Pos(g) = g.i % Positions
    BY <1>1, <2>4 DEF FrontInv, OnlyOf, Seated
  <2>6. g \in Completed(a)
    BY DEF Completed
  <2> QED BY <2>1, <2>4, <2>5, <2>6
<1>3. PICK c0 \in a.front : c0.frames # {}
  BY DEF InOrder
<1>4. PICK f0 \in c0.frames : TRUE
  BY <1>3
<1>5. c0.pass \in 0 .. a.pass /\ (c0.pass = a.pass <=> a.closed) /\ Num(base, f0) = c0.pass /\ Has(since, f0)
  BY <1>1, <1>4 DEF FrontInv, OnlyOf
<1>6. PICK d0 \in since : d0.s = f0.s /\ d0.i = f0.i
  BY <1>5 DEF Has
<1>7. Num(base, d0) = c0.pass
  BY <1>5, <1>6 DEF Num
<1>8. CASE a.image # {}
  <2>1. PICK f1 \in a.image : TRUE
    BY <1>8
  <2>2. ~a.closed /\ Num(base, f1) = a.pass /\ Has(since, f1)
    BY <1>1, <2>1 DEF ImageInv, OnlyOf
  <2>3. PICK d1 \in since : d1.s = f1.s /\ d1.i = f1.i
    BY <2>2 DEF Has
  <2>4. Num(base, d1) = a.pass /\ Num(base, d0) < Num(base, d1)
    BY <1>1, <1>5, <1>7, <2>2, <2>3 DEF Num, IsAcc
  <2>5. NewerPass(Pass(d1), Pass(d0))
    <3>1. d0.s \in Nat /\ d1.s \in Nat /\ d0.i \in Nat /\ d1.i \in Nat /\ base \in Bases
      BY <1>1 DEF FedInv, InOrder
    <3>2. d0.i \div Positions \in Nat /\ d1.i \div Positions \in Nat /\ base[d0.s] \in Nat
      BY <3>1, PassBounds DEF Bases
    <3>3. Num(base, d0) \in Nat /\ Num(base, d1) \in Nat
      BY <3>1, NumIsNat
    <3>4. d1.s >= d0.s
      BY <1>1, <2>4, <3>1, <3>3 DEF FedInv
    <3>5. d1.s = d0.s => d1.i \div Positions > d0.i \div Positions
      BY <2>4, <3>2 DEF Num
    <3> QED BY <3>1, <3>4, <3>5 DEF NewerPass, Pass
  <2> QED BY <1>2, <1>7, <2>5
<1>9. CASE a.image = {}
  <2>1. since # {}
    BY <1>6
  <2>2. PICK f \in Completed(a) : f.a = a.last /\ f.s = LastOf(since).s /\ f.i = LastOf(since).i
    BY <1>9, <2>1 DEF InOrder
  <2>3. PICK c \in a.front : f \in c.frames
    BY <2>2 DEF Completed
  <2>4. /\ c.pass \in 0 .. a.pass /\ (c.pass = a.pass <=> a.closed) /\ Num(base, f) = c.pass
        /\ PassOf(f) = c.pass /\ Pos(f) = f.i % Positions
    BY <1>1, <2>3 DEF FrontInv, OnlyOf, Seated
  <2>5. a.pass <= a.last \div Positions /\ a.last \div Positions = c.pass
    BY <2>2, <2>4 DEF InOrder, PassInv, IsAcc, PassOf
  <2>6. a.closed /\ a.last % Positions = Positions - 1
    BY <1>1, <2>4, <2>5 DEF InOrder, Ended, IsAcc
  <2>7. LastOf(since) \in since /\ Num(base, LastOf(since)) = c.pass /\ LastOf(since).i % Positions = Positions - 1
    BY <2>1, <2>2, <2>4, <2>6 DEF InOrder, Num, Pos
  <2> QED BY <1>2, <2>7
<1> QED BY <1>8, <1>9

\* "reset" and "swap": the rows of a page are in what is shown of them.
LEMMA RowsOfPasses ==
  ASSUME NEW a, NEW base, NEW r, NEW since, NEW fed, NEW ahead, InOrder(a, base, r, since, fed, ahead),
         a.start \in Nat, NEW y \in ClaimedRows(a), NEW k \in Sources(a.geo, y),
         NEW p \in (k * Width) .. (k * Width + Width - 1)
  PROVE  \E f \in Shown(a, y) : Pos(f) = p
<1>1. IsAcc(a) /\ a.mode \in {"reset", "swap"}
  BY DEF InOrder, KeepsFront
<1>2. p \in 0 .. (Positions - 1)
  BY RowPositions DEF Sources
<1>3. CASE ~(a.front # {} /\ (a.mode = "swap" \/ a.image = {}))
  <2>1. a.last \in Nat /\ \E x \in a.start .. a.last : x % Positions = p
    BY <1>1, <1>3, RowsCovered
  <2>2. \E g \in a.image : Pos(g) = p
    BY <2>1, CoveredInImage
  <2>3. Shown(a, y) = a.image
    BY <1>1, <1>3 DEF Shown
  <2> QED BY <2>2, <2>3
<1>4. CASE a.front # {} /\ a.image # {} /\ a.mode = "swap" /\ FromCurrent(a, y)
  <2>1. a.last \in Nat /\ a.last \div Positions = a.pass /\ p \in 0 .. (a.last % Positions)
    BY <1>1, <1>4, RowDone
  <2>2. a.pass \in Int
    BY <1>1 DEF IsAcc
  <2>3. /\ LastOf(since) \in since /\ Num(base, LastOf(since)) = a.pass
        /\ a.last % Positions = LastOf(since).i % Positions
        /\ \A e \in since : Num(base, e) = a.pass => \E g \in a.image : Pos(g) = e.i % Positions
    BY <1>4, <2>1, <2>2, LastInImage
  <2>4. PICK x \in since : Pass(x) = Pass(LastOf(since)) /\ x.i % Positions = p
    BY <2>1, <2>3, ToPassStart DEF InOrder
  <2>5. Num(base, x) = a.pass
    BY <2>3, <2>4 DEF Num, Pass
  <2>6. Shown(a, y) = a.image
    BY <1>4 DEF Shown
  <2> QED BY <2>3, <2>4, <2>5, <2>6
<1>5. CASE a.front # {} /\ (a.image = {} \/ (a.mode = "swap" /\ ~FromCurrent(a, y)))
  <2>1. Shown(a, y) = Completed(a)
    BY <1>5 DEF Shown
  <2> QED BY <1>2, <1>5, <2>1, CompletedHas
<1> QED BY <1>1, <1>3, <1>4, <1>5

\* RowsShownComplete follows from the invariant.
LEMMA RowsAre == ControlInv /\ ImageInvariant /\ RowsInvariant => RowsShownComplete
<1> SUFFICES ASSUME ControlInv, ImageInvariant, RowsInvariant, acc # NoAcc, Orderly, AtPassStart,
                    NEW y \in ClaimedRows(acc), NEW k \in Sources(acc.geo, y),
                    NEW p \in (k * Width) .. (k * Width + Width - 1)
             PROVE  \E f \in Shown(acc, y) : Pos(f) = p
  BY DEF RowsShownComplete
<1>1. CASE ~KeepsFront(acc)
  BY <1>1, RowsOfOthers
<1>2. CASE KeepsFront(acc)
  <2>1. PICK base \in Bases : PassInv(acc, base, rounds, Since, log, Ahead)
    BY <1>2 DEF ImageInvariant, PassesInv
  <2>2. IsAcc(acc) /\ IsFiniteSet(log) /\ acc.start \in Nat /\ OnStart(acc) /\ Ended(acc)
    BY <1>2 DEF ControlInv, AccOk, RowsInvariant
  <2>3. AtStart(Since) /\ \A c \in acc.front : c.frames # {}
    BY <1>2 DEF AtPassStart, AtStart
  <2>4. InOrder(acc, base, rounds, Since, log, Ahead)
    BY <1>2, <2>1, <2>2, <2>3, OrderlyIs DEF InOrder
  <2> QED BY <2>2, <2>4, RowsOfPasses
<1> QED BY <1>1, <1>2

-----------------------------------------------------------------------------
(* A batch, when the images of "all" and "latest" come in order.             *)

\* What is known of the events E of batch n of series r, behind those of since.
NextEvents(E, r, n, since, fed) ==
  /\ E # {} /\ r \in Nat /\ n \in Nat /\ since \subseteq fed /\ Fedable(fed) /\ Fedable(E)
  /\ \A d \in fed : d.s <= r /\ (d.s = r => d.b < n)
  /\ \A e \in E : e.s = r /\ e.b = n

\* A batch is behind all that was fed, and its last image is the last of all.
LEMMA BatchBehind ==
  ASSUME NEW E, NEW r, NEW n, NEW since, NEW fed, NextEvents(E, r, n, since, fed)
  PROVE  /\ \A d \in fed, e \in E : Earlier(d, e) /\ ~Earlier(e, d)
         /\ Fedable(since) /\ Fedable(since \cup E)
         /\ LastOf(since \cup E) \in E /\ \A d \in since \cup E : ~Earlier(LastOf(since \cup E), d)
<1>1. /\ \A d \in fed : IsEvent(d) /\ d.s <= r /\ (d.s = r => d.b < n)
      /\ \A e \in E : IsEvent(e) /\ e.s = r /\ e.b = n
      /\ r \in Nat /\ n \in Nat /\ since \subseteq fed /\ E # {}
  BY DEF NextEvents, Fedable
<1>2. ASSUME NEW d \in fed, NEW e \in E PROVE Earlier(d, e) /\ ~Earlier(e, d)
  BY <1>1 DEF Earlier, IsEvent
<1>3. IsFiniteSet(since) /\ IsFiniteSet(E) /\ IsFiniteSet(since \cup E)
  BY FS_Subset, FS_Union DEF NextEvents, Fedable
<1>4. Fedable(since) /\ Fedable(since \cup E)
  BY <1>1, <1>3 DEF Fedable
<1> DEFINE l == LastOf(since \cup E)
<1>5. l \in since \cup E /\ \A d \in since \cup E : ~Earlier(l, d)
  <2>1. since \cup E # {} /\ IsFiniteSet(since \cup E) /\ \A e \in since \cup E : IsEvent(e)
    BY <1>1, <1>4 DEF Fedable
  <2> QED BY <2>1, LastIs
<1> HIDE DEF l
<1>6. l \in E
  BY <1>1, <1>2, <1>5
<1> QED BY <1>2, <1>4, <1>5, <1>6 DEF l

\* What was in order behind a batch was so before it.
LEMMA ChainedBefore ==
  ASSUME NEW E, NEW r, NEW n, NEW since, NEW fed, NextEvents(E, r, n, since, fed),
         Chained(since \cup E, fed \cup E)
  PROVE  Chained(since, fed)
<1>1. ASSUME NEW e \in since PROVE {d \in since \cup E : Earlier(d, e)} = {d \in since : Earlier(d, e)}
  <2>1. e \in fed
    BY DEF NextEvents
  <2>2. \A d \in E : ~Earlier(d, e)
    BY <2>1, BatchBehind
  <2> QED BY <2>2
<1>2. \A e \in since : Prior(e, since \cup E) = Prior(e, since)
  BY <1>1 DEF Prior
<1>3. ASSUME NEW e \in since
      PROVE  \/ {d \in since : Earlier(d, e)} = {}
             \/ Prior(e, since).s = e.s /\ Prior(e, since).i = e.i - 1
             \/ Prior(e, since).s # e.s /\ e.i = 0 /\ (Prior(e, since).i + 1) % Positions = 0
  BY <1>1, <1>2 DEF Chained
<1>4. \A e \in since, d \in fed : Earlier(d, e) => ~NewerPass(Pass(d), Pass(e))
  BY DEF Chained
<1> QED BY <1>3, <1>4 DEF Chained

\* The first images of a series come behind a whole pass of the one before.
LEMMA FirstOfSeries ==
  ASSUME NEW E, NEW r, NEW n, NEW since, NEW fed, NextEvents(E, r, n, since, fed),
         Chained(since \cup E, fed \cup E), since # {}, LastOf(since).s < r
  PROVE  LastOf(since).i % Positions = Positions - 1 /\ \E z \in E : z.i = 0
<1> DEFINE S == since \cup E
           l == LastOf(since)
<1>1. /\ \A e \in E : IsEvent(e) /\ e.s = r /\ e.b = n
      /\ E # {} /\ IsFiniteSet(E) /\ r \in Nat /\ n \in Nat /\ since \subseteq fed
  BY DEF NextEvents, Fedable
<1>2. l \in since /\ IsEvent(l) /\ \A d \in since : IsEvent(d) /\ ~Earlier(l, d)
  <2>1. IsFiniteSet(since) /\ \A d \in since : IsEvent(d)
    BY BatchBehind DEF Fedable
  <2> QED BY <2>1, LastIs
<1>3. PICK z \in E : \A e \in E : z.i <= e.i
  <2> DEFINE V == {e.i : e \in E}
             h == [e \in E |-> e.i]
  <2>1. h \in Surjection(E, V)
    BY DEF Surjection
  <2>2. IsFiniteSet(V)
    <3> HIDE DEF V, h
    <3> QED BY <1>1, <2>1, FS_Surjection
  <2>3. V \in SUBSET Int /\ V # {} /\ (\A e \in E : e.i \in V) /\ \A x \in V : \E e \in E : x = e.i
    BY <1>1 DEF IsEvent
  <2> HIDE DEF V, h
  <2>4. Min(V) \in V /\ \A x \in V : Min(V) <= x
    BY <2>2, <2>3, Least
  <2> QED BY <2>3, <2>4
<1> DEFINE p == Prior(z, S)
<1>4. p \in S /\ Earlier(p, z) /\ ~Earlier(p, l) /\ {x \in S : Earlier(x, z)} # {}
  <2>1. Fedable(S) /\ Earlier(l, z) /\ z \in S /\ l \in S
    BY <1>1, <1>2, <1>3, BatchBehind
  <2> HIDE DEF S, l
  <2> QED BY <2>1, PriorIs
<1>5. p \in since
  <2>1. p \notin E
    BY <1>1, <1>3, <1>4 DEF Earlier, IsEvent
  <2> QED BY <1>4, <2>1
<1> HIDE DEF p
<1>6. p.s = l.s /\ p.i = l.i
  BY <1>2, <1>4, <1>5 DEF Earlier, IsEvent
<1>7. z.i = 0 /\ (p.i + 1) % Positions = 0
  <2>1. p.s # z.s
    BY <1>1, <1>2, <1>3, <1>6 DEF IsEvent
  <2> QED BY <1>3, <1>4, <2>1 DEF Chained, p
<1>8. l.i % Positions = Positions - 1
  BY <1>2, <1>6, <1>7, NextNumber DEF IsEvent
<1> QED BY <1>3, <1>7, <1>8

\* "all" and "latest": a batch that is in order goes on where the images before it ended.
LEMMA SpanGrows ==
  ASSUME NEW E, NEW r, NEW n, NEW since, NEW fed, NextEvents(E, r, n, since, fed),
         NEW a, IsAcc(a), a.offset % Positions = 0, a.start \in Nat, since = {} => a.start = NoId,
         SpanInv(a, r, since, fed),
         a.last < a.offset \/ \E d \in fed : d.s = r /\ a.last = d.i + a.offset,
         NEW w, w.offset = a.offset, w.last \in Nat, a.last <= w.last, \A e \in E : e.i + a.offset <= w.last,
         w.last = a.last \/ \E e \in E : w.last = e.i + a.offset,
         w.start = a.start \/ \E e \in E : w.start = e.i + a.offset
  PROVE  SpanInv(w, r, since \cup E, fed \cup E)
<1> DEFINE S == since \cup E
           F == fed \cup E
           l == LastOf(S)
           o == a.offset
           t == l.i + o
           P == Positions
<1> SUFFICES ASSUME Chained(S, F), w.last < NoId
             PROVE  /\ t \in 0 .. w.last /\ Reached(w, r, l, t)
                    /\ \A x \in w.start .. t : \E e \in S : e.i % P = x % P
  <2> HIDE DEF S, F, l, t, P
  <2> QED BY DEF SpanInv, S, F, l, P
<1>1. /\ \A d \in fed : IsEvent(d) /\ d.s <= r
      /\ \A e \in E : IsEvent(e) /\ e.s = r /\ e.b = n
      /\ since \subseteq fed
  BY DEF NextEvents, Fedable
<1>2. l \in E /\ (\A d \in S : ~Earlier(l, d)) /\ Fedable(S) /\ \A d \in fed, e \in E : Earlier(d, e)
  BY BatchBehind
<1> HIDE DEF l
<1>3. l.i \in Nat /\ l.s = r /\ l.b = n /\ o \in Nat /\ t \in Nat
  BY <1>1, <1>2 DEF IsEvent, IsAcc
<1>4. \A e \in E : e.i \in Nat /\ e.i <= l.i /\ e.i + o <= t
  BY <1>1, <1>2, <1>3 DEF Earlier, IsEvent
<1>5. /\ t \div P = l.i \div P + o \div P /\ t % P = l.i % P
      /\ \A i \in Nat : (i + o) % P = i % P /\ (i + o) \div P = i \div P + o \div P
                       /\ i \div P \in Nat /\ o \div P \in Nat
  BY <1>3, Shifted
<1>6. t <= w.last
  BY <1>2
<1>7. w.last \div P = t \div P
  <2>1. CASE \E e \in E : w.last = e.i + o
    BY <1>3, <1>4, <1>6, <2>1
  <2>2. CASE w.last = a.last
    <3>1. ~ (a.last < o)
      BY <1>3, <1>6, <2>2 DEF IsAcc
    <3>2. PICK d \in fed : d.s = r /\ a.last = d.i + o
      BY <3>1
    <3>3. ~NewerPass(Pass(d), Pass(l))
      BY <1>2 DEF Chained
    <3>4. d.i \in Nat /\ d.i \div P \in Nat /\ l.i \div P \in Nat
      BY <1>1, <1>3, <1>5 DEF IsEvent
    <3>5. d.i \div P <= l.i \div P
      BY <1>3, <3>2, <3>3, <3>4 DEF NewerPass, Pass
    <3>6. t \div P <= w.last \div P
      BY <1>3, <1>6, DivMonotone
    <3>7. w.last \div P = d.i \div P + o \div P /\ t \div P = l.i \div P + o \div P /\ o \div P \in Nat
      BY <1>3, <1>5, <2>2, <3>2, <3>4
    <3> DEFINE u == w.last \div P
               v == t \div P
               x == d.i \div P
               y == l.i \div P
               z == o \div P
    <3>8. u = x + z /\ v = y + z /\ x <= y /\ v <= u /\ x \in Nat /\ y \in Nat /\ z \in Nat
      BY <3>4, <3>5, <3>6, <3>7
    <3> HIDE DEF u, v, x, y, z
    <3>9. u = v
      BY <3>8
    <3> QED BY <3>9 DEF u, v
  <2> QED BY <2>1, <2>2
<1>8. Reached(w, r, l, t)
  BY <1>3, <1>5, <1>6, <1>7 DEF Reached
<1>9. ASSUME NEW e \in S, e.s = r, NEW x \in (e.i + o) .. t PROVE \E y \in S : y.i % P = x % P
  <2>1. e.i \in Nat
    BY <1>2 DEF Fedable, IsEvent
  <2>2. e.i <= l.i /\ x - o \in e.i .. l.i /\ x - o \in Nat /\ (x - o) + o = x
    BY <1>3, <2>1
  <2> HIDE DEF S, F
  <2>3. ~Earlier(l, e) /\ l \in S
    BY <1>2 DEF S
  <2>4. PICK y \in S : y.s = l.s /\ y.i = x - o
    BY <1>2, <1>3, <1>9, <2>2, <2>3, Descent
  <2>5. x % P = (x - o) % P
    BY <1>5, <2>2
  <2> QED BY <2>4, <2>5
<1>10. CASE \E e \in E : w.start = e.i + o
  <2>1. PICK e \in E : w.start = e.i + o
    BY <1>10
  <2>2. e \in S /\ e.s = r
    BY <1>1
  <2>3. \A x \in w.start .. t : \E y \in S : y.i % P = x % P
    <3> HIDE DEF S, P, t
    <3> QED BY <1>9, <2>1, <2>2
  <2> QED BY <1>3, <1>6, <1>8, <2>3
<1>11. CASE w.start = a.start /\ since = {}
  <2>1. \A x \in w.start .. t : FALSE
    BY <1>3, <1>6, <1>11, NoIdIs
  <2> QED BY <1>3, <1>6, <1>8, <2>1
<1>12. CASE w.start = a.start /\ since # {}
  <2> DEFINE l0 == LastOf(since)
  <2>1. Chained(since, fed) /\ a.last < NoId
    BY ChainedBefore, NoIdIs DEF IsAcc
  <2>2. l0 \in since
    <3>1. IsFiniteSet(since) /\ \A d \in since : IsEvent(d)
      BY BatchBehind DEF Fedable
    <3> QED BY <1>12, <3>1, LastIs
  <2>3. PICK top \in 0 .. a.last : Reached(a, r, l0, top) /\ \A x \in a.start .. top : \E e \in since : e.i % P = x % P
    BY <1>12, <2>1 DEF SpanInv
  <2> HIDE DEF l0
  <2>4. top \in Nat
    OBVIOUS
  <2>5. \E e \in S : e.s = r /\ e.i + o <= top + 1
    <3>1. CASE l0.s = r
      <4>1. top = l0.i + o /\ l0 \in S /\ l0.i \in Nat
        BY <1>1, <2>2, <2>3, <3>1 DEF Reached, IsEvent
      <4> QED BY <1>3, <3>1, <4>1
    <3>2. CASE l0.s # r
      <4>1. l0.s < r /\ o = (top \div P + 1) * P /\ top % P = l0.i % P
        BY <2>3, <3>2 DEF Reached
      <4>2. l0.i % P = P - 1 /\ \E z \in E : z.i = 0
        BY <1>12, <4>1, FirstOfSeries DEF l0
      <4>3. (top + 1) % P = 0 /\ (top + 1) \div P = top \div P + 1
        BY <2>4, <4>1, <4>2, NextNumber
      <4>4. top + 1 = ((top + 1) \div P) * P + ((top + 1) % P)
        BY <2>4, PassBounds
      <4>5. top + 1 = o
        BY <1>3, <4>1, <4>3, <4>4
      <4>6. PICK z \in E : z.i = 0
        BY <4>2
      <4>7. z \in S /\ z.s = r /\ z.i + o <= top + 1
        BY <1>1, <1>3, <4>5, <4>6
      <4> QED BY <4>7
    <3> QED BY <3>1, <3>2
  <2>6. PICK e \in S : e.s = r /\ e.i + o <= top + 1
    BY <2>5
  <2>7. e.i \in Nat
    BY <1>2 DEF Fedable, IsEvent
  <2>8. ASSUME NEW x \in w.start .. t PROVE \E y \in S : y.i % P = x % P
    <3>1. CASE x <= top
      BY <1>12, <2>3, <2>4, <3>1
    <3>2. CASE ~ (x <= top)
      <4>1. x \in (e.i + o) .. t
        BY <1>3, <1>12, <2>4, <2>6, <2>7, <3>2
      <4> HIDE DEF S, P, t
      <4> QED BY <1>9, <2>6, <4>1
    <3> QED BY <3>1, <3>2
  <2> QED BY <1>3, <1>6, <1>8, <2>8
<1> QED BY <1>10, <1>11, <1>12

-----------------------------------------------------------------------------
(* The rows' invariant holds of every run.                                   *)

\* A step that leaves the image and the images fed alone.
LEMMA RowsStay ==
  ASSUME RowsInvariant, UNCHANGED <<acc, log, began, rounds, series>>, Running' => Running, Stopped => Stopped'
  PROVE  RowsInvariant'
<1>1. Since' = Since /\ Mine' = Mine
  BY DEF Since, Mine
<1>2. OnStart(acc') /\ Ended(acc') <=> OnStart(acc) /\ Ended(acc)
  BY DEF OnStart, Ended
<1>3. (Running => CountInv)'
  BY <1>1 DEF RowsInvariant, CountInv
<1>4. OthersInv'
  BY <1>1 DEF RowsInvariant, OthersInv
<1> QED BY <1>2, <1>3, <1>4 DEF RowsInvariant

\* An image that begins now.
LEMMA RowsBegin ==
  ASSUME IsFiniteSet(log'), Since' = {}, acc'.image = {}, acc'.start = NoId, CountInv',
         KeepsFront(acc') => Ended(acc')
  PROVE  RowsInvariant'
<1>1. OnStart(acc') /\ acc'.start \in Nat
  BY NoIdIs DEF OnStart
<1>2. SpanInv(acc', rounds', Since', log')
  BY DEF SpanInv
<1>3. OthersInv'
  BY <1>2 DEF OthersInv
<1> QED BY <1>1, <1>3 DEF RowsInvariant

\* Nothing has been fed at first.
LEMMA RowsInit == Init => RowsInvariant
<1> SUFFICES ASSUME Init PROVE RowsInvariant
  OBVIOUS
<1>1. acc = NoAcc /\ log = {} /\ began = {}
  BY DEF Init, ControlInit
<1>2. /\ acc.mode = "none" /\ acc.image = {} /\ acc.last = -1 /\ acc.offset = 0 /\ acc.start = NoId
  BY <1>1 DEF NoAcc, Build
<1>3. ~KeepsFront(acc) /\ Since = {} /\ IsFiniteSet(log) /\ acc.start \in Nat
  BY <1>1, <1>2, NoIdIs, FS_EmptySet DEF KeepsFront, Since
<1>4. CountInv /\ SpanInv(acc, rounds, Since, log)
  BY <1>2, <1>3 DEF CountInv, SpanInv
<1>5. OthersInv
  BY <1>2, <1>3, <1>4 DEF OthersInv
<1> QED BY <1>3, <1>4, <1>5 DEF RowsInvariant

\* A movie's files are written beside the image.
LEMMA SettledRows ==
  ASSUME NEW a, IsAcc(a) PROVE Settled(a).start = a.start /\ Settled(a).kind = a.kind
BY DEF Settled, IsAcc

\* A series that goes on with the image moves its numbers behind the last pass.
LEMMA StartedRows ==
  ASSUME NEW a, IsAcc(a), a.wrap
  PROVE  LET b == StartSeries(a)
         IN /\ b.start = a.start /\ b.image = a.image /\ b.last = a.last /\ b.pass = a.pass /\ b.closed = a.closed
            /\ b.mode = a.mode /\ b.offset = NextOffset(a)
BY DEF StartSeries, IsAcc

\* A series begins: the image goes on, or is a new one.
LEMMA RowsOverStart == ControlInv /\ ImageInvariant /\ RowsInvariant /\ Start => RowsInvariant'
<1> SUFFICES ASSUME ControlInv, ImageInvariant, RowsInvariant, Start PROVE RowsInvariant'
  OBVIOUS
<1>1. PICK x \in Series :
        IF StartRefused(x) THEN Fail /\ UNCHANGED <<acc, series_, log, began>>
        ELSE /\ acc' = Started(x) /\ rounds' = rounds + 1
             /\ began' = (IF Persistent THEN began ELSE log)
             /\ UNCHANGED <<main, log>>
  BY DEF Start
<1>2. /\ main = "run" /\ rounds \in Nat /\ AccOk(acc) /\ IsAcc(acc) /\ acc.offset % Positions = 0
      /\ ArgsOk(args) /\ setup \in Setups
  BY DEF Start, ControlInv, AccOk
<1>3. ~Stopped /\ Running /\ IsFiniteSet(log) /\ acc.start \in Nat
  BY <1>2 DEF Stopped, Running, RowsInvariant
<1>4. CASE StartRefused(x)
  <2>1. main' = "stop" /\ UNCHANGED <<acc, log, began, rounds, series>>
    BY <1>1, <1>4 DEF Fail, series_
  <2> QED BY <1>3, <2>1, RowsStay DEF Running
<1>5. CASE ~StartRefused(x) /\ ~Persistent
  <2>1. acc' = Build(args.mode, args.tune, x.shape, setup.passes) /\ Since' = {} /\ log' = log
    BY <1>1, <1>5 DEF Started, Since
  <2>2. acc'.image = {} /\ acc'.start = NoId /\ ~acc'.closed /\ acc'.last = -1 /\ acc'.offset = 0
    BY <2>1 DEF Build
  <2>3. CountInv' /\ Ended(acc')
    BY <2>2 DEF CountInv, Ended
  <2> QED BY <1>3, <2>1, <2>2, <2>3, RowsBegin
<1>6. CASE ~StartRefused(x) /\ Persistent
  <2>1. acc.wrap
    BY <1>2, <1>6 DEF Persistent, ArgsOk, AccOk
  <2> DEFINE b == StartSeries(acc)
  <2>2. acc' = b /\ Since' = Since /\ log' = log /\ rounds' = rounds + 1
    BY <1>1, <1>6 DEF Started, Since
  <2>3. /\ b.start = acc.start /\ b.image = acc.image /\ b.last = acc.last /\ b.pass = acc.pass
        /\ b.closed = acc.closed /\ b.mode = acc.mode /\ b.offset = NextOffset(acc)
    BY <1>2, <2>1, StartedRows
  <2>4. b.last < b.offset
    <3>1. CASE acc.last >= 0
      BY <1>2, <2>1, <2>3, <3>1, StartSeriesIs DEF IsAcc
    <3>2. CASE ~ (acc.last >= 0)
      BY <1>2, <2>3, <3>2 DEF NextOffset, IsAcc
    <3> QED BY <3>1, <3>2
  <2> HIDE DEF b
  <2>5. CountInv'
    BY <2>2, <2>4 DEF CountInv
  <2>6. KeepsFront(acc') => OnStart(acc') /\ Ended(acc')
    BY <2>2, <2>3 DEF RowsInvariant, KeepsFront, OnStart, Ended
  <2>7. ASSUME ~KeepsFront(acc) PROVE SpanInv(b, rounds + 1, Since, log)
    <3>1. SpanInv(acc, rounds, Since, log)
      BY <1>3, <2>7 DEF RowsInvariant, OthersInv
    <3> SUFFICES ASSUME Since # {}, Chained(Since, log), acc.last < NoId
                 PROVE  \E top \in 0 .. b.last :
                          /\ Reached(b, rounds + 1, LastOf(Since), top)
                          /\ \A z \in b.start .. top : \E e \in Since : e.i % Positions = z % Positions
      BY <2>3 DEF SpanInv
    <3>2. PICK top \in 0 .. acc.last :
            /\ Reached(acc, rounds, LastOf(Since), top)
            /\ \A z \in acc.start .. top : \E e \in Since : e.i % Positions = z % Positions
      BY <3>1 DEF SpanInv
    <3>3. LastOf(Since).s \in Nat /\ LastOf(Since).s <= rounds
      <4>1. IsFiniteSet(Since) /\ Since \subseteq log /\ \A d \in Since : IsEvent(d) /\ d.s <= rounds
        BY <1>3, LogIs, FS_Subset
      <4>2. LastOf(Since) \in Since
        BY <4>1, LastIs
      <4> QED BY <4>1, <4>2 DEF IsEvent
    <3>4. b.offset = (top \div Positions + 1) * Positions
      BY <1>2, <2>3, <3>2 DEF Reached, NextOffset, IsAcc
    <3>5. Reached(b, rounds + 1, LastOf(Since), top)
      BY <1>2, <2>3, <3>2, <3>3, <3>4 DEF Reached
    <3> QED BY <2>3, <3>2, <3>5
  <2>8. OthersInv'
    <3> SUFFICES ASSUME ~KeepsFront(acc') PROVE OthersInv'
      BY DEF OthersInv
    <3>1. ~KeepsFront(acc)
      BY <2>2, <2>3 DEF KeepsFront
    <3>2. /\ Since = {} => acc.start = NoId
          /\ \A f \in acc.image : f.a <= acc.last
      BY <1>3, <3>1 DEF RowsInvariant, OthersInv
    <3> QED BY <2>2, <2>3, <2>7, <3>1, <3>2 DEF OthersInv
  <2>9. IsFiniteSet(log') /\ acc'.start \in Nat
    BY <1>3, <2>2, <2>3
  <2> QED BY <2>5, <2>6, <2>8, <2>9 DEF RowsInvariant
<1> QED BY <1>4, <1>5, <1>6

\* A new geometry keeps the image of "latest" and begins every other one.
LEMMA RetunedRows ==
  ASSUME NEW a, IsAcc(a), NEW geo
  PROVE  LET b == SetGeometry(a, geo)
         IN IF a.mode = "latest"
            THEN /\ b.start = a.start /\ b.kind = a.kind
                 /\ \A f \in b.image : \E g \in a.image : f.a = g.a
                 /\ b.image = {} => a.image = {}
            ELSE b.image = {} /\ b.start = NoId
<1> DEFINE b == SetGeometry(a, geo)
<1>1. CASE a.mode = "latest"
  <2> DEFINE X == {[f EXCEPT !.g = geo] : f \in a.image}
  <2>1. b = [a EXCEPT !.geo = geo, !.image = X]
    BY <1>1 DEF SetGeometry
  <2>2. \A f \in a.image : [f EXCEPT !.g = geo].a = f.a
    BY DEF IsAcc, IsFrame
  <2>3. (\A f \in X : \E g \in a.image : f.a = g.a) /\ (X = {} => a.image = {})
    BY <2>2
  <2> HIDE DEF X, b
  <2>4. b.start = a.start /\ b.kind = a.kind /\ b.image = X
    BY <2>1 DEF IsAcc
  <2> QED BY <1>1, <2>3, <2>4 DEF b
<1>2. CASE a.mode # "latest"
  BY <1>2 DEF SetGeometry, Restarted, IsAcc
<1> QED BY <1>1, <1>2

\* A change is applied: the image is as it was, a new one, or tuned.
LEMMA RowsOverApply ==
  ASSUME ControlInv, ImageInvariant, RowsInvariant, NEW c, acc' = Updated(c).acc,
         began' = (IF Restarts(Updated(c)) THEN log ELSE began),
         UNCHANGED <<log, rounds, series>>, Running' => Running, Stopped => Stopped'
  PROVE  RowsInvariant'
<1> DEFINE b == Updated(c).acc
<1>1. Becomes(acc, b)
  BY UpdatedBecomes DEF ControlInv
<1>2. acc' = b /\ began' = IF b # acc /\ (b.mode # "latest" \/ b.image = {}) THEN log ELSE began
  BY DEF Restarts
<1> HIDE DEF b
<1>3. IsAcc(acc) /\ IsFiniteSet(log) /\ IsFiniteSet(log') /\ acc.start \in Nat
  BY DEF ControlInv, AccOk, RowsInvariant
<1>4. CASE b = acc
  BY <1>2, <1>4, RowsStay
<1>5. CASE b # acc /\ Blank(b)
  <2>1. Since' = {}
    BY <1>2, <1>5 DEF Blank, Since
  <2>2. acc'.image = {} /\ acc'.start = NoId /\ ~acc'.closed /\ acc'.last = -1 /\ acc'.offset = 0
    BY <1>2, <1>5 DEF Blank
  <2>3. CountInv' /\ Ended(acc')
    BY <2>2 DEF CountInv, Ended
  <2> QED BY <1>3, <2>1, <2>2, <2>3, RowsBegin
<1>6. ASSUME b # acc, NEW t, b = SetGeometry(acc, t) PROVE RowsInvariant'
  <2>1. /\ IsAcc(b) /\ b.mode = acc.mode /\ b.offset = acc.offset /\ b.last = acc.last
        /\ b.pass = acc.pass /\ b.closed = acc.closed
    BY <1>3, <1>6, SetGeometryIs
  <2>2. Running' => CountInv'
    BY <1>2, <2>1 DEF RowsInvariant, CountInv, Mine
  <2>3. CASE acc.mode # "latest"
    <3>1. b.image = {} /\ b.start = NoId
      BY <1>3, <1>6, <2>3, RetunedRows
    <3>2. Since' = {}
      BY <1>2, <1>6, <3>1 DEF Since
    <3>3. KeepsFront(acc') => OnStart(acc') /\ Ended(acc')
      BY <1>2, <2>1, <3>1 DEF RowsInvariant, KeepsFront, OnStart, Ended
    <3>4. SpanInv(acc', rounds', Since', log')
      BY <3>2 DEF SpanInv
    <3>5. OthersInv'
      BY <1>2, <3>1, <3>4 DEF OthersInv
    <3> QED BY <1>2, <1>3, <2>2, <3>1, <3>3, <3>5, NoIdIs DEF RowsInvariant
  <2>4. CASE acc.mode = "latest"
    <3>1. /\ b.start = acc.start /\ b.kind = acc.kind /\ ~KeepsFront(acc) /\ ~KeepsFront(b)
          /\ \A f \in b.image : \E g \in acc.image : f.a = g.a
          /\ b.image = {} => acc.image = {}
      BY <1>3, <1>6, <2>1, <2>4, RetunedRows DEF KeepsFront
    <3>2. CASE Stopped /\ Unstorable(acc, series.kind)
      <4>1. Stopped' /\ Unstorable(acc', series'.kind)
        BY <1>2, <2>1, <3>1, <3>2 DEF Unstorable
      <4>2. OthersInv'
        BY <4>1 DEF OthersInv
      <4> QED BY <1>2, <1>3, <2>2, <3>1, <4>2 DEF RowsInvariant
    <3>3. CASE ~ (Stopped /\ Unstorable(acc, series.kind))
      <4>1. /\ Since = {} => acc.start = NoId
            /\ \/ Stopped /\ \A f \in acc.image : f.a < acc.last
               \/ (\A f \in acc.image : f.a <= acc.last) /\ SpanInv(acc, rounds, Since, log)
        BY <3>1, <3>3 DEF RowsInvariant, OthersInv
      <4>2. \/ Stopped' /\ \A f \in acc'.image : f.a < acc'.last
            \/ (\A f \in acc'.image : f.a <= acc'.last) /\ SpanInv(acc, rounds, Since, log)
        BY <1>2, <2>1, <3>1, <4>1
      <4>3. acc'.image = {} => acc'.start = NoId
        <5> SUFFICES ASSUME acc.image = {} PROVE acc.start = NoId
          BY <1>2, <3>1
        <5>1. HeldInv(acc, Since)
          BY DEF ImageInvariant
        <5>2. Fedable(Since)
          BY <1>3, LogIs, FS_Subset DEF Fedable
        <5>3. Since = {}
          BY <2>4, <5>1, <5>2, HeldHas
        <5> QED BY <4>1, <5>3
      <4>4. CASE acc'.image = {}
        <5>1. Since' = {}
          BY <1>2, <1>6, <4>4 DEF Since
        <5>2. SpanInv(acc', rounds', Since', log')
          BY <5>1 DEF SpanInv
        <5>3. OthersInv'
          BY <4>3, <4>4, <5>2 DEF OthersInv
        <5> QED BY <1>2, <1>3, <2>2, <3>1, <5>3 DEF RowsInvariant
      <4>5. CASE acc'.image # {}
        <5>1. Since' = Since
          BY <1>2, <2>1, <2>4, <4>5 DEF Since
        <5>2. SpanInv(acc, rounds, Since, log) => SpanInv(acc', rounds', Since', log')
          <6>1. \A l, top : Reached(acc, rounds, l, top) => Reached(b, rounds, l, top)
            BY <2>1 DEF Reached
          <6>2. SpanInv(acc, rounds, Since, log) => SpanInv(b, rounds, Since, log)
            BY <2>1, <3>1, <6>1 DEF SpanInv
          <6> QED BY <1>2, <5>1, <6>2
        <5>3. OthersInv'
          BY <1>2, <3>1, <4>1, <4>2, <5>1, <5>2 DEF OthersInv
        <5> QED BY <1>2, <1>3, <2>2, <3>1, <5>3 DEF RowsInvariant
      <4> QED BY <4>4, <4>5
    <3> QED BY <3>2, <3>3
  <2> QED BY <2>3, <2>4
<1> QED BY <1>1, <1>4, <1>5, <1>6 DEF Becomes

\* The end of a series closes a pass that came to its end.
LEMMA EndRows ==
  ASSUME NEW a, IsAcc(a), a.start \in Nat
  PROVE  LET b == EndSeries(a)
         IN /\ Carried(a, b) /\ b.start \in Nat
            /\ ~KeepsFront(a) => b.start = a.start /\ b.image = a.image
            /\ KeepsFront(a) /\ OnStart(a) /\ Ended(a) => OnStart(b) /\ Ended(b)
<1> DEFINE b == EndSeries(a)
           last == a.last \div Positions = a.pass /\ a.last % Positions = Positions - 1
<1>1. b = a \/ (b = ClosePass(a) /\ last)
  BY DEF EndSeries
<1>2. CASE b = a
  BY <1>2 DEF Carried
<1>3. CASE b = ClosePass(a) /\ last
  <2> DEFINE c == ClosePass(a)
  <2>1. Lowers(a, c, {}) /\ c.pass = a.pass
    BY CloseLowers
  <2>2. ~KeepsFront(a) => c.image = a.image
    BY CloseOther
  <2> HIDE DEF c
  <2>3. Carried(a, c) /\ c.start \in Nat /\ (~KeepsFront(a) => c.start = a.start)
    BY <2>1 DEF Lowers
  <2>4. KeepsFront(a) /\ OnStart(a) => OnStart(c)
    BY <2>1 DEF Lowers, OnStart
  <2>5. last => Ended(c)
    BY <2>1, <2>3 DEF Ended, Carried
  <2> QED BY <1>3, <2>2, <2>3, <2>4, <2>5 DEF c
<1> QED BY <1>1, <1>2, <1>3

\* A series ends.
LEMMA RowsOverFinish == ControlInv /\ RowsInvariant /\ Finish => RowsInvariant'
<1> SUFFICES ASSUME ControlInv, RowsInvariant, Finish PROVE RowsInvariant'
  OBVIOUS
<1> DEFINE b == EndSeries(acc)
<1>1. acc' = acc \/ acc' = Settled(b)
  BY DEF Finish, Fail
<1>2. UNCHANGED <<log, began, rounds, series>> /\ main = "run" /\ Running /\ ~Stopped
  BY DEF Finish, series_, history, Running, Stopped
<1>3. IsAcc(acc) /\ acc.start \in Nat
  BY DEF ControlInv, AccOk, RowsInvariant
<1>4. CASE acc' = acc
  BY <1>2, <1>4, RowsStay
<1>5. CASE acc' = Settled(b)
  <2>1. /\ Carried(acc, b) /\ b.start \in Nat
        /\ ~KeepsFront(acc) => b.start = acc.start /\ b.image = acc.image
        /\ KeepsFront(acc) /\ OnStart(acc) /\ Ended(acc) => OnStart(b) /\ Ended(b)
    BY <1>3, EndRows
  <2> HIDE DEF b
  <2>2. IsAcc(b) /\ b.last = acc.last /\ b.offset = acc.offset /\ b.mode = acc.mode
    BY <2>1 DEF Carried
  <2>3. /\ acc'.start = b.start /\ acc'.image = b.image /\ acc'.last = acc.last /\ acc'.offset = acc.offset
        /\ acc'.mode = acc.mode /\ acc'.pass = b.pass /\ acc'.closed = b.closed
    BY <1>5, <2>2, SettledIs, SettledRows
  <2>4. CountInv'
    BY <1>2, <2>3 DEF RowsInvariant, CountInv, Mine
  <2>5. KeepsFront(acc') => OnStart(acc') /\ Ended(acc')
    BY <2>1, <2>2, <2>3 DEF RowsInvariant, KeepsFront, OnStart, Ended
  <2>6. OthersInv'
    <3> SUFFICES ASSUME ~KeepsFront(acc) PROVE OthersInv'
      BY <2>3 DEF OthersInv, KeepsFront
    <3>1. /\ Since = {} => acc.start = NoId
          /\ (\A f \in acc.image : f.a <= acc.last) /\ SpanInv(acc, rounds, Since, log)
      BY <1>2 DEF RowsInvariant, OthersInv
    <3>2. Since' = Since /\ acc'.start = acc.start /\ acc'.image = acc.image
      BY <1>2, <2>1, <2>3 DEF Since
    <3>3. SpanInv(acc', rounds, Since, log)
      <4>1. \A l, top : Reached(acc, rounds, l, top) => Reached(acc', rounds, l, top)
        BY <2>3 DEF Reached
      <4> QED BY <2>3, <3>1, <3>2, <4>1 DEF SpanInv
    <3> QED BY <1>2, <2>3, <3>1, <3>2, <3>3 DEF OthersInv
  <2> QED BY <1>2, <2>1, <2>3, <2>4, <2>5, <2>6 DEF RowsInvariant
<1> QED BY <1>1, <1>4, <1>5

\* A batch that cannot be stored has moved the cursor, and may have begun the image.
LEMMA RefusedRows ==
  ASSUME NEW a, IsAcc(a), ~KeepsFront(a), a.start \in Nat,
         NEW frames, frames # {}, IsFiniteSet(frames), \A f \in frames : IsFrame(f)
  PROVE  Refused(a, frames).start \in Nat /\ Refused(a, frames).kind = a.kind
<1> DEFINE m == Moved(a, frames)
           lo == FirstPass(frames)
           o == OpenPass(m, lo)
           F == InPass(frames, lo)
<1>1. IsAcc(m) /\ m.start = a.start /\ m.kind = a.kind /\ ~KeepsFront(m)
  <2>1. IsAcc(m) /\ \E x : m = [a EXCEPT !.last = x]
    BY MovedIs DEF Fed
  <2> HIDE DEF m
  <2> QED BY <2>1 DEF IsAcc, KeepsFront
<1>2. lo \in Nat
  BY PassRange
<1> HIDE DEF m, lo
<1>3. IsAcc(o) /\ o.start \in Nat
  BY <1>1, <1>2, OpenLowers DEF Lowers, Carried
<1>4. o.kind = m.kind
  <2>1. \E x : ClosePass(m) = [m EXCEPT !.closed = TRUE, !.done = x]
    BY <1>1 DEF ClosePass
  <2>2. ClosePass(m).kind = m.kind /\ "kind" \in DOMAIN ClosePass(m)
    BY <1>1, <2>1 DEF IsAcc
  <2>3. o = m \/ o = [m EXCEPT !.pass = lo, !.closed = FALSE] \/ o = [ClosePass(m) EXCEPT !.pass = lo, !.closed = FALSE]
    BY DEF OpenPass
  <2> HIDE DEF o
  <2> QED BY <1>1, <2>2, <2>3 DEF IsAcc
<1>5. IsFiniteSet(F) /\ \A f \in F : IsFrame(f)
  <2>1. F \subseteq frames
    BY DEF InPass
  <2> QED BY <2>1, FS_Subset
<1> HIDE DEF o, F
<1>6. Begun(o, F).start \in Nat /\ Begun(o, F).kind = o.kind
  BY <1>3, <1>5, BegunIs DEF Begun, IsAcc
<1>7. Begun(m, frames).start \in Nat /\ Begun(m, frames).kind = m.kind
  BY <1>1, BegunIs DEF Begun, IsAcc
<1>8. Refused(a, frames) = Begun(o, F) \/ Refused(a, frames) = Begun(m, frames)
  BY DEF Refused, m, lo, o, F
<1> QED BY <1>1, <1>4, <1>6, <1>7, <1>8

\* The part of a batch that was deposited when a file could not be written.
LEMMA CutRows ==
  ASSUME OnePerPosition, ControlInv, ImageInvariant, ScanInvariant, RowsInvariant, Feed, Tracks(acc),
         NEW w, w = Process(acc, series.kind, FramesOf(acc, rounds, series.batches[at + 1]), FALSE), w.done # <<>>,
         acc' = Settled(w), main' = "stop",
         log' = log \cup Events(rounds, at + 1, Upto(FramesOf(acc, rounds, series.batches[at + 1]), w.pass))
  PROVE  RowsInvariant'
<1> DEFINE frames == FramesOf(acc, rounds, series.batches[at + 1])
           some == Upto(frames, w.pass)
           E == Events(rounds, at + 1, some)
           disk == FALSE
<1>1. /\ Running /\ ~Stopped /\ main = "run" /\ CursorInv /\ IsAcc(acc) /\ acc.done = <<>>
      /\ acc.start \in Nat /\ IsFiniteSet(log) /\ UNCHANGED <<rounds, began, series>>
  BY DEF Feed, ScanInvariant, Running, Stopped, ControlInv, AccOk, RowsInvariant, series_, history
<1>2. /\ at \in Nat /\ rounds \in Nat /\ frames # {} /\ IsFiniteSet(frames) /\ \A f \in frames : IsFrame(f)
      /\ Apart(acc, frames) /\ \A d \in log : d.s = rounds => d.b < at + 1
  BY <1>1, FeedingIs, FeedFrames
<1> HIDE DEF frames
<1>3. /\ Fed(acc, w) /\ w.last \in Nat /\ acc.last <= w.last /\ \A f \in frames : f.a <= w.last
  <2> DEFINE v == Process(acc, series.kind, frames, disk)
  <2> HIDE DEF disk
  <2>1. Fed(acc, v)
    BY <1>1, <1>2, ProcessFeeds
  <2>2. v.last \in Nat /\ acc.last <= v.last /\ \A f \in frames : f.a <= v.last
    BY <1>1, <1>2, ProcessMoves
  <2>3. v = w
    BY DEF disk, frames
  <2> HIDE DEF v
  <2> QED BY <2>1, <2>2, <2>3
<1>4. /\ w.start \in Nat
      /\ KeepsFront(acc) /\ OnStart(acc) => OnStart(w)
      /\ ~KeepsFront(acc) => w.start = acc.start \/ \E f \in frames : w.start = f.a /\ PassOf(f) <= w.pass
      /\ acc.pass <= w.pass /\ \E f \in frames : PassOf(f) > w.pass
  <2> DEFINE v == Process(acc, series.kind, frames, disk)
  <2>1. /\ v.start \in Nat
        /\ KeepsFront(acc) /\ (acc.start = NoId \/ \E f \in acc.image : f.a = acc.start)
             => v.start = NoId \/ \E f \in v.image : f.a = v.start
        /\ ~KeepsFront(acc) => v.start = acc.start \/ \E f \in frames : v.start = f.a /\ (disk \/ PassOf(f) <= v.pass)
        /\ ~disk /\ v.done # <<>> => acc.pass <= v.pass /\ \E f \in frames : PassOf(f) > v.pass
    <3> HIDE DEF disk
    <3> QED BY <1>1, <1>2, ProcessLow
  <2>2. v = w
    BY DEF frames
  <2> HIDE DEF v
  <2> QED BY <2>1, <2>2 DEF OnStart
<1>5. ~KeepsFront(acc) => w.image = Deposited(acc, some)
  <2> DEFINE v == Process(acc, series.kind, frames, disk)
  <2>1. v = w
    BY DEF frames
  <2> HIDE DEF v, some
  <2>2. ~KeepsFront(acc) => (~disk /\ v.done # <<>> => v.image = Deposited(acc, Upto(frames, v.pass)))
    <3> HIDE DEF disk
    <3> QED BY <1>1, <1>2, ProcessLays DEF v
  <2> QED BY <2>1, <2>2 DEF some
<1>6. /\ IsAcc(w) /\ w.pass \in Int /\ acc.pass \in Int /\ w.mode = acc.mode
      /\ acc'.start = w.start /\ acc'.image = w.image /\ acc'.last = w.last /\ acc'.mode = w.mode
      /\ acc'.pass = w.pass /\ acc'.closed = w.closed
  BY <1>1, <1>3, SettledIs, SettledRows DEF Fed, IsAcc
<1>7. w.last \div Positions > w.pass /\ w.last \div Positions \in Int
  <2>1. PICK f \in frames : PassOf(f) > w.pass
    BY <1>4
  <2>2. f.a \in Nat /\ f.a <= w.last /\ f.a \div Positions > w.pass
    BY <1>2, <1>3, <2>1 DEF IsFrame, PassOf
  <2>3. f.a \div Positions <= w.last \div Positions /\ f.a \div Positions \in Nat /\ w.last \div Positions \in Nat
    BY <1>3, <2>2, DivMonotone, PassBounds
  <2> DEFINE p == f.a \div Positions
             q == w.last \div Positions
             k == w.pass
  <2>4. p > k /\ p <= q /\ p \in Nat /\ q \in Nat /\ k \in Int
    BY <1>6, <2>2, <2>3
  <2> HIDE DEF p, q, k
  <2>5. q > k /\ q \in Int
    BY <2>4
  <2> QED BY <2>5 DEF q, k
<1>8. \A n \in Nat : n <= w.last /\ n \div Positions <= w.pass => n < w.last
  <2> TAKE n \in Nat
  <2> SUFFICES ASSUME n <= w.last, n \div Positions <= w.pass PROVE n < w.last
    OBVIOUS
  <2> DEFINE p == n \div Positions
             q == w.last \div Positions
             k == w.pass
             l == w.last
  <2>1. p \in Nat /\ q \in Int /\ k \in Int /\ p <= k /\ q > k
    BY <1>6, <1>7, PassBounds
  <2>2. n = l => p = q
    OBVIOUS
  <2>3. l \in Nat /\ n <= l
    BY <1>3
  <2> HIDE DEF p, q, k, l
  <2>4. n # l
    BY <2>1, <2>2
  <2>5. n < l
    BY <2>3, <2>4
  <2> QED BY <2>5 DEF l
<1>9. IsFiniteSet(log')
  <2>1. IsFiniteSet(some)
    BY <1>2, FS_Subset DEF Upto
  <2>2. IsFiniteSet(E)
    <3> DEFINE h == [f \in some |-> [s |-> rounds, b |-> at + 1, i |-> f.i]]
    <3>1. h \in Surjection(some, E)
      BY DEF Surjection, Events
    <3> HIDE DEF h, some, E
    <3> QED BY <2>1, <3>1, FS_Surjection
  <2> HIDE DEF E
  <2>3. IsFiniteSet(log \cup E)
    BY <1>1, <2>2, FS_Union
  <2> QED BY <2>3 DEF E, some, frames
<1>10. KeepsFront(acc') => OnStart(acc') /\ Ended(acc')
  <2>1. KeepsFront(acc') <=> KeepsFront(acc)
    BY <1>6 DEF KeepsFront
  <2>2. w.last \div Positions # w.pass
    <3> DEFINE q == w.last \div Positions
           k == w.pass
    <3>1. q > k /\ q \in Int /\ k \in Int
      BY <1>6, <1>7
    <3> HIDE DEF q, k
    <3>2. q # k
      BY <3>1
    <3> QED BY <3>2 DEF q, k
  <2>3. Ended(acc')
    BY <1>6, <2>2 DEF Ended
  <2> QED BY <1>1, <1>4, <1>6, <2>1, <2>3 DEF RowsInvariant, OnStart
<1>11. ASSUME ~KeepsFront(acc) PROVE \A f \in acc'.image : f.a < acc'.last
  <2>1. \A f \in acc.image : f.a \in Nat /\ f.a <= acc.last
    BY <1>1, <1>11 DEF RowsInvariant, OthersInv, IsAcc, IsFrame
  <2>2. ASSUME NEW f \in acc.image PROVE f.a < w.last
    <3>1. acc.last \in Nat /\ f.a \in Nat /\ f.a <= acc.last
      BY <1>1, <2>1 DEF IsAcc
    <3>2. acc.pass = acc.last \div Positions
      BY <1>1, <3>1 DEF CursorInv
    <3>3. acc.last < w.last
      <4>1. acc.last <= w.last /\ acc.last \div Positions <= w.pass
        BY <1>1, <1>3, <1>4, <3>2
      <4> QED BY <1>8, <3>1, <4>1
    <3> DEFINE l == w.last
               m == acc.last
               n == f.a
    <3>4. l \in Nat /\ m \in Nat /\ n \in Nat /\ n <= m /\ m < l
      BY <1>3, <3>1, <3>3
    <3> HIDE DEF l, m, n
    <3>5. n < l
      BY <3>4
    <3> QED BY <3>5 DEF l, n
  <2>3. ASSUME NEW f \in some PROVE f.a < w.last
    <3>1. f \in frames /\ f.a \in Nat /\ f.a \div Positions <= w.pass
      BY <1>2 DEF Upto, PassOf, IsFrame
    <3> QED BY <1>3, <1>8, <3>1
  <2>4. acc'.image \subseteq acc.image \cup some
    BY <1>5, <1>6, <1>11 DEF Deposited, Held
  <2> HIDE DEF some
  <2> QED BY <1>6, <2>2, <2>3, <2>4
<1>12. ASSUME ~KeepsFront(acc), Since' = {} PROVE acc'.start = NoId
  <2>1. \A e \in E : e \notin began
    <3>1. \A e \in E : e.s = rounds /\ e.b = at + 1
      <4> HIDE DEF some
      <4> QED BY DEF Events
    <3> HIDE DEF E
    <3>2. \A e \in E : e \notin log
      BY <1>2, <3>1
    <3> QED BY <3>2 DEF ImageInvariant
  <2>2. E = {} /\ Since = {}
    <3>1. log' = log \cup E
      BY DEF frames
    <3> HIDE DEF E
    <3> QED BY <1>1, <1>12, <2>1, <3>1 DEF Since
  <2>3. some = {}
    BY <2>2 DEF Events
  <2>4. w.start = acc.start
    BY <1>4, <1>12, <2>3 DEF Upto
  <2>5. acc.start = NoId
    BY <1>1, <1>12, <2>2 DEF RowsInvariant, OthersInv
  <2> QED BY <1>6, <2>4, <2>5
<1>13. Stopped' /\ ~Running' /\ (KeepsFront(acc') <=> KeepsFront(acc))
  BY <1>6 DEF Stopped, Running, KeepsFront
<1>14. OthersInv'
  BY <1>11, <1>12, <1>13 DEF OthersInv
<1> QED BY <1>4, <1>6, <1>9, <1>10, <1>13, <1>14 DEF RowsInvariant

\* A batch that is taken whole.
LEMMA WholeRows ==
  ASSUME OnePerPosition, ControlInv, ImageInvariant, ScanInvariant, RowsInvariant, Feed, main' # "stop"
  PROVE  RowsInvariant'
<1> DEFINE ids    == series.batches[at + 1]
           frames == FramesOf(acc, rounds, ids)
           w      == Process(acc, series.kind, frames, TRUE)
           E      == Events(rounds, at + 1, frames)
           disk   == TRUE
<1>1. /\ Running /\ ~Stopped /\ Running' /\ ~Stopped' /\ CursorInv /\ IsAcc(acc) /\ acc.done = <<>>
      /\ acc.start \in Nat /\ IsFiniteSet(log) /\ UNCHANGED <<rounds, began, series>>
  BY DEF Feed, Fail, ScanInvariant, Running, Stopped, ControlInv, AccOk, RowsInvariant, series_, history
<1>2. /\ at \in Nat /\ rounds \in Nat /\ frames # {} /\ IsFiniteSet(frames) /\ \A f \in frames : IsFrame(f)
      /\ Apart(acc, frames) /\ \A d \in log : d.s = rounds => d.b < at + 1
  BY <1>1, FeedingIs, FeedFrames
<1>3. Whole(frames, w)
  BY <1>1, FeedWhole
<1> HIDE DEF frames
<1>4. /\ w.start \in Nat
      /\ KeepsFront(acc) /\ OnStart(acc) => OnStart(w)
      /\ ~KeepsFront(acc) => w.start = acc.start \/ \E f \in frames : w.start = f.a
  <2> DEFINE v == Process(acc, series.kind, frames, disk)
  <2>1. /\ v.start \in Nat
        /\ KeepsFront(acc) /\ (acc.start = NoId \/ \E f \in acc.image : f.a = acc.start)
             => v.start = NoId \/ \E f \in v.image : f.a = v.start
        /\ ~KeepsFront(acc) => v.start = acc.start \/ \E f \in frames : v.start = f.a /\ (disk \/ PassOf(f) <= v.pass)
    <3> HIDE DEF disk
    <3>1. disk \/ Tracks(acc)
      BY DEF disk
    <3> QED BY <1>1, <1>2, <3>1, ProcessLow
  <2>2. v = w
    OBVIOUS
  <2> HIDE DEF v, w
  <2> QED BY <2>1, <2>2 DEF OnStart
<1>5. ~KeepsFront(acc) => w.image = Deposited(acc, frames)
  <2> DEFINE v == Process(acc, series.kind, frames, disk)
  <2>1. v = w /\ disk
    OBVIOUS
  <2> HIDE DEF disk, w
  <2>2. ASSUME ~KeepsFront(acc) PROVE v.image = Deposited(acc, frames)
    <3>1. disk \/ Tracks(acc)
      BY <2>1
    <3>2. /\ v.front = acc.front /\ Fed(acc, v)
          /\ disk => v.image = Deposited(acc, frames)
          /\ ~disk /\ v.done # <<>> => v.image = Deposited(acc, Upto(frames, v.pass))
      BY <1>1, <1>2, <2>2, <3>1, ProcessLays
    <3> HIDE DEF v
    <3> QED BY <2>1, <3>2
  <2> HIDE DEF v
  <2> QED BY <2>1, <2>2
<1> HIDE DEF w
<1>6. /\ IsAcc(w) /\ acc'.start = w.start /\ acc'.image = w.image /\ acc'.last = w.last /\ acc'.mode = acc.mode
      /\ acc'.pass = w.pass /\ acc'.closed = w.closed /\ acc'.offset = acc.offset /\ w.offset = acc.offset
      /\ (KeepsFront(acc') <=> KeepsFront(acc)) /\ (Tracks(acc') <=> Tracks(acc))
  BY <1>3, WholeIs, SettledRows DEF Whole, Fed
<1>7. /\ w.last \in Nat /\ acc.last <= w.last /\ \A f \in frames : f.a <= w.last /\ f.a = f.i + acc.offset
      /\ w.last = acc.last \/ \E f \in frames : w.last = f.a
      /\ Since' = Since \cup E /\ log' = log \cup E /\ acc.offset % Positions = 0
      /\ \A d \in log : IsEvent(d) /\ d.s <= rounds
      /\ Tracks(acc) => ~w.closed
  BY <1>3 DEF Whole, Completes
<1>8. /\ \A e \in E : IsEvent(e) /\ e.s = rounds /\ e.b = at + 1 /\ \E f \in frames : e.i = f.i
      /\ \A f \in frames : \E e \in E : e.i = f.i
  BY <1>2, EventsAre
<1>9. IsFiniteSet(E)
  <2> DEFINE h == [f \in frames |-> [s |-> rounds, b |-> at + 1, i |-> f.i]]
  <2>1. h \in Surjection(frames, E)
    BY DEF Surjection, Events
  <2> HIDE DEF h, E
  <2> QED BY <1>2, <2>1, FS_Surjection
<1> HIDE DEF E
<1>10. IsFiniteSet(log')
  BY <1>1, <1>7, <1>9, FS_Union
<1>11. /\ w.last = acc.last \/ \E e \in E : w.last = e.i + acc.offset
       /\ \A e \in E : e.i + acc.offset <= w.last
  BY <1>7, <1>8
<1>12. CountInv'
  <2>1. CountInv /\ Mine \subseteq Mine' /\ E \subseteq Mine'
    BY <1>1, <1>7, <1>8 DEF RowsInvariant, Mine
  <2> QED BY <1>6, <1>11, <2>1 DEF CountInv
<1>13. KeepsFront(acc') => OnStart(acc') /\ Ended(acc')
  <2>1. KeepsFront(acc) => Tracks(acc)
    BY DEF KeepsFront, Tracks
  <2> QED BY <1>4, <1>6, <1>7, <2>1 DEF RowsInvariant, OnStart, Ended
<1>14. ASSUME ~KeepsFront(acc) PROVE OthersInv'
  <2>1. /\ Since = {} => acc.start = NoId
        /\ (\A f \in acc.image : f.a <= acc.last) /\ SpanInv(acc, rounds, Since, log)
    BY <1>1, <1>14 DEF RowsInvariant, OthersInv
  <2>2. E # {}
    BY <1>2, <1>8
  <2>3. Since' # {}
    BY <1>7, <2>2
  <2>4. \A f \in acc'.image : f.a <= acc'.last
    <3>1. acc'.image \subseteq acc.image \cup frames
      BY <1>5, <1>6, <1>14 DEF Deposited, Held
    <3>2. ASSUME NEW f \in acc.image PROVE f.a <= w.last
      <4>1. f.a \in Nat /\ acc.last \in Int /\ f.a <= acc.last
        BY <1>1, <2>1 DEF IsAcc, IsFrame
      <4> QED BY <1>7, <4>1
    <3> QED BY <1>6, <1>7, <3>1, <3>2
  <2>5. NextEvents(E, rounds, at + 1, Since, log)
    <3>1. Since \subseteq log
      BY DEF Since
    <3> QED BY <1>1, <1>2, <1>7, <1>8, <1>9, <2>2, <3>1 DEF NextEvents, Fedable
  <2>6. acc.last < acc.offset \/ \E d \in log : d.s = rounds /\ acc.last = d.i + acc.offset
    BY <1>1 DEF RowsInvariant, CountInv, Mine
  <2>7. w.start = acc.start \/ \E e \in E : w.start = e.i + acc.offset
    BY <1>4, <1>7, <1>8, <1>14
  <2>8. SpanInv(w, rounds, Since \cup E, log \cup E)
    BY <1>1, <1>6, <1>7, <1>11, <2>1, <2>5, <2>6, <2>7, SpanGrows
  <2>9. SpanInv(acc', rounds', Since', log')
    <3>1. \A l, top : Reached(w, rounds, l, top) => Reached(acc', rounds, l, top)
      BY <1>6 DEF Reached
    <3>2. SpanInv(acc', rounds, Since \cup E, log \cup E)
      BY <1>6, <2>8, <3>1 DEF SpanInv
    <3> QED BY <1>1, <1>7, <3>2
  <2> QED BY <1>6, <2>3, <2>4, <2>9 DEF OthersInv
<1>15. OthersInv'
  BY <1>6, <1>14 DEF OthersInv
<1> QED BY <1>4, <1>6, <1>10, <1>12, <1>13, <1>15 DEF RowsInvariant

\* A batch: refused, cut at a file, or taken whole.
LEMMA RowsOverFeed ==
  ASSUME OnePerPosition
  PROVE  ControlInv /\ ImageInvariant /\ ScanInvariant /\ RowsInvariant /\ Feed => RowsInvariant'
<1> SUFFICES ASSUME ControlInv, ImageInvariant, ScanInvariant, RowsInvariant, Feed PROVE RowsInvariant'
  OBVIOUS
<1> DEFINE frames == FramesOf(acc, rounds, series.batches[at + 1])
           wrong  == Refused(acc, frames)
           cut    == Process(acc, series.kind, frames, FALSE)
<1>1. /\ Running /\ ~Stopped /\ IsAcc(acc) /\ acc.start \in Nat /\ UNCHANGED <<rounds, began, series>>
      /\ main' = "stop" => ~Running' /\ Stopped'
      /\ frames # {} /\ IsFiniteSet(frames) /\ \A f \in frames : IsFrame(f)
  BY FeedingIs DEF Feed, Running, Stopped, ControlInv, AccOk, RowsInvariant
<1>2. \/ acc' = acc /\ log' = log /\ main' = "stop"
      \/ Unstorable(acc, series.kind) /\ acc' = Settled(wrong) /\ log' = log /\ main' = "stop"
      \/ /\ Tracks(acc) /\ cut.done # <<>> /\ acc' = Settled(cut) /\ main' = "stop"
         /\ log' = Logged(Upto(frames, cut.pass))
      \/ main' # "stop"
  BY DEF Feed, Fail, Upto
<1>3. CASE acc' = acc /\ log' = log /\ main' = "stop"
  BY <1>1, <1>3, RowsStay
<1>4. CASE Unstorable(acc, series.kind) /\ acc' = Settled(wrong) /\ log' = log /\ main' = "stop"
  <2>1. acc.mode = "latest" /\ ~KeepsFront(acc)
    BY <1>4 DEF Unstorable, KeepsFront
  <2>2. IsAcc(wrong) /\ wrong.mode = acc.mode
    BY <1>1, RefusedFeeds DEF Fed
  <2>3. wrong.start \in Nat /\ wrong.kind = acc.kind
    BY <1>1, <2>1, RefusedRows
  <2> HIDE DEF wrong
  <2>4. acc'.start \in Nat /\ acc'.kind = acc.kind /\ acc'.mode = acc.mode
    BY <1>4, <2>2, <2>3, SettledIs, SettledRows
  <2>5. Unstorable(acc, series.kind)' /\ ~KeepsFront(acc')
    BY <1>1, <1>4, <2>1, <2>4 DEF Unstorable, KeepsFront
  <2> QED BY <1>1, <1>4, <2>4, <2>5 DEF RowsInvariant, OthersInv
<1>5. CASE /\ Tracks(acc) /\ cut.done # <<>> /\ acc' = Settled(cut) /\ main' = "stop"
           /\ log' = Logged(Upto(frames, cut.pass))
  <2>1. log' = log \cup Events(rounds, at + 1, Upto(frames, cut.pass))
    BY <1>5 DEF Logged, Events
  <2> QED BY <1>5, <2>1, CutRows
<1>6. CASE main' # "stop"
  BY <1>6, WholeRows
<1> QED BY <1>2, <1>3, <1>4, <1>5, <1>6

\* Every step.
LEMMA RowsPreserved ==
  ASSUME OnePerPosition
  PROVE  ControlInv /\ ImageInvariant /\ ScanInvariant /\ RowsInvariant /\ [Next]_vars => RowsInvariant'
<1> SUFFICES ASSUME ControlInv, ImageInvariant, ScanInvariant, RowsInvariant, [Next]_vars PROVE RowsInvariant'
  OBVIOUS
<1>1. CASE UNCHANGED vars
  BY <1>1, RowsStay DEF vars, series_, history, Running, Stopped
<1>2. CASE Start
  BY <1>2, RowsOverStart
<1>3. CASE Feed
  BY <1>3, RowsOverFeed
<1>4. CASE Finish
  BY <1>4, RowsOverFinish
<1>5. CASE Interrupt
  <2>1. UNCHANGED <<acc, log, began, rounds, series>> /\ ~Stopped /\ ~Running'
    BY <1>5 DEF Interrupt, series_, history, Running, Stopped
  <2> QED BY <2>1, RowsStay
<1>6. CASE Exhausted
  <2>1. UNCHANGED <<acc, log, began, rounds, series>> /\ ~Stopped /\ ~Running'
    BY <1>6 DEF Exhausted, Fail, series_, history, Running, Stopped
  <2> QED BY <2>1, RowsStay
<1>7. CASE CloseReads
  <2>1. UNCHANGED <<acc, log, began, rounds, series>> /\ Stopped' /\ ~Running'
    BY <1>7 DEF CloseReads, series_, Running, Stopped
  <2> QED BY <2>1, RowsStay
<1>8. CASE CloseSaves
  <2>1. UNCHANGED <<acc, log, began, rounds, series>> /\ Stopped' /\ ~Running'
    BY <1>8 DEF CloseSaves, series_, history, Running, Stopped
  <2> QED BY <2>1, RowsStay
<1>9. CASE Update
  <2>1. UNCHANGED <<log, rounds, series, main>>
    BY <1>9 DEF Update, series_
  <2>2. PICK c \in Changes :
          Apply(c, IF acc' = NoAcc THEN UNCHANGED <<http, lock>> ELSE http' = "publish" /\ lock' = "http",
                UNCHANGED <<http, lock>>, UNCHANGED <<http, lock>>)
    BY <1>9 DEF Update
  <2>3. acc' = Updated(c).acc /\ began' = IF Restarts(Updated(c)) THEN log ELSE began
    BY <2>2 DEF Apply
  <2> QED BY <2>1, <2>3, RowsOverApply DEF Running, Stopped
<1>10. CASE Enqueue
  BY <1>10, RowsStay DEF Enqueue, series_, history, Running, Stopped
<1>11. CASE ApplyPending
  <2> DEFINE c == Head(pending)
  <2>1. UNCHANGED <<log, rounds, series>> /\ main = "run"
    BY <1>11 DEF ApplyPending, series_
  <2>2. Apply(c, main' = "tuning" /\ lock' = "main", UNCHANGED <<main, lock>>, Fail /\ UNCHANGED lock)
    BY <1>11 DEF ApplyPending
  <2> HIDE DEF c
  <2>3. acc' = Updated(c).acc /\ began' = IF Restarts(Updated(c)) THEN log ELSE began
    BY <2>2 DEF Apply
  <2>4. Running /\ ~Stopped
    BY <2>1 DEF Running, Stopped
  <2> QED BY <2>1, <2>3, <2>4, RowsOverApply
<1>12. ASSUME NEW t \in Writers, TakeFrame(t) PROVE RowsInvariant'
  BY <1>12, RowsStay DEF TakeFrame, series_, history, Running, Stopped
<1>13. ASSUME NEW t \in Writers, PutFrame(t) PROVE RowsInvariant'
  <2>1. UNCHANGED <<acc, log, began, rounds, series>>
    BY <1>13 DEF PutFrame, history
  <2>2. CASE t = "http"
    <3>1. main' = main
      BY <1>13, <2>2 DEF PutFrame
    <3> QED BY <2>1, <3>1, RowsStay DEF Running, Stopped
  <2>3. CASE t # "http"
    <3>1. main \in {"preview", "tuning", "final", "last"} /\ main' = IF main = "last" THEN "closed" ELSE "run"
      BY <1>13, <2>3, ParallaxAssumption DEF PutFrame, Publishing
    <3>2. (Running' => Running) /\ (Stopped => Stopped')
      BY <3>1 DEF Running, Stopped
    <3> QED BY <2>1, <3>2, RowsStay
  <2> QED BY <2>2, <2>3
<1>14. CASE View
  BY <1>14, RowsStay DEF View, series_, history, Running, Stopped
<1> QED
  BY <1>1, <1>2, <1>3, <1>4, <1>5, <1>6, <1>7, <1>8, <1>9, <1>10, <1>11, <1>12, <1>13, <1>14 DEF Next

\* RowsShownComplete of MCParallax's run: when the images came in order, every row the page is told is
\* complete has all of its images in what is shown, in every mode, and behind every change of the
\* geometry, every pass that was closed and every batch that was cut (engine.py:698, 725).
THEOREM RowsAreComplete == OnePerPosition /\ LateByOnePass => (Spec => []RowsShownComplete)
<1> SUFFICES ASSUME OnePerPosition, LateByOnePass PROVE Spec => []RowsShownComplete
  OBVIOUS
<1>1. Init => ScanInvariant /\ RowsInvariant
  BY ScanBegins, RowsInit
<1>2. ControlInv /\ ImageInvariant /\ ScanInvariant /\ [Next]_vars => ScanInvariant'
  BY ScanPreserved
<1>3. ControlInv /\ ImageInvariant /\ ScanInvariant /\ RowsInvariant /\ [Next]_vars => RowsInvariant'
  BY RowsPreserved
<1>4. Spec => []ControlInv
  BY ControlInvariance
<1>5. Spec => []ImageInvariant
  BY ImageInvariance
<1>6. ControlInv /\ ImageInvariant /\ RowsInvariant => RowsShownComplete
  BY RowsAre
<1> QED BY <1>1, <1>2, <1>3, <1>4, <1>5, <1>6, PTL DEF Spec

=============================================================================
