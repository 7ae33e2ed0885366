-------------------------- MODULE AnsEncoderProofs --------------------------
(***************************************************************************)
(* A series the ANS encoder keeps is whole, whatever the streams its copies *)
(* run on, the size of a chunk, how its images are split into batches, and  *)
(* what became of the series before it.  The results of the virtual         *)
(* detector say what the images of their series say, and the two consumers  *)
(* agree on which series are whole.                                         *)
(***************************************************************************)
EXTENDS SeriesConsumers, FiniteSetTheorems, WellFoundedInduction, SequenceTheorems, TLAPS

-----------------------------------------------------------------------------
(* The inductive invariant.                                                 *)

CopyRecord == [series : Nat, into : Nat, slot : Nat, ids : Seq(Nat)]

\* The first n images of series s, each at its own place.
Part(s, n) == {<<k, <<s, k>>>> : k \in 0 .. (n - 1)}

Whole ==
  {d \in [series : Nat, total : Nat, received : Nat, got : SUBSET (Nat \X (Nat \X Nat))] :
     d.got = Part(d.series, d.total)}

Encoding == encoder # NoSeries

\* A START that has not been begun: the series before it is still to be ended.
Beginning == at = "begin" \/ (at = "end" /\ Batch.kind = "start")

\* The series begun so far.
Begun ==
  {feed[p].series : p \in {q \in 1 .. (IF Beginning THEN pos - 1 ELSE pos) : feed[q].kind = "start"}}

EncTypes ==
  /\ feed \in Feeds /\ pos \in 0 .. Len(feed)
  /\ at # "idle" => pos # 0 /\ cur \in Streams
  /\ queue \in [Streams -> Seq(CopyRecord)]
  /\ buffer \in Nat /\ first \in Nat /\ nextId \in Nat /\ staged \in 0 .. Chunk
  /\ datasets \in Seq(Whole)

\* What each step of an activation works on.
AtInv ==
  /\ at \in {"add", "copy", "full"} => Encoding /\ Batch.kind = "images"
  /\ at = "end" => Encoding
  /\ at = "begin" => ~Encoding /\ Batch.kind = "start"

\* The encoder has the images below `first`, each at its place.
SeriesInv ==
  Encoding =>
    /\ encoder = [series |-> encoder.series, total |-> encoder.total,
                  received |-> first, got |-> Part(encoder.series, first)]
    /\ encoder.series \in Begun

\* A copy that is still to be carried out belongs to a series that was begun...
QueueInv ==
  \A st \in Streams : \A k \in 1 .. Len(queue[st]) : queue[st][k].series \in Begun

\* ...and one of this series to this chunk, where it puts every image at its place.
Mine(c) ==
  /\ c \in copies /\ c.into = buffer /\ c.slot + Len(c.ids) <= staged
  /\ \A j \in 1 .. Len(c.ids) : c.ids[j] = first + c.slot + j - 1

CopyInv ==
  Encoding => \A st \in Streams : \A k \in 1 .. Len(queue[st]) :
                queue[st][k].series = encoder.series => Mine(queue[st][k])

\* Every slot in use holds its image, or a copy that is still to be carried out brings it.
Brings(c, i) == c.series = encoder.series /\ i - c.slot \in 1 .. Len(c.ids)

StageInv ==
  Encoding => \A i \in 1 .. staged :
    \/ staging[i] = <<encoder.series, first + i - 1>>
    \/ \E st \in Streams : \E k \in 1 .. Len(queue[st]) : Brings(queue[st][k], i)

\* The images still to be copied continue those that are staged.
TodoInv ==
  /\ at \in {"copy", "full"} =>
       /\ todo \in Seq(Nat) /\ \A j \in 1 .. Len(todo) : todo[j] = first + staged + j - 1
       /\ first + staged + Len(todo) = Last(Batch.ids) + 1
  /\ at \notin {"copy", "full"} /\ Encoding => nextId = first + staged

EncInv ==
  EncTypes /\ AtInv /\ SeriesInv /\ QueueInv /\ CopyInv /\ StageInv /\ TodoInv

\* Unless a copy of a dropped series has run into the chunk of a later one.
EncoderInv == stray \/ EncInv

-----------------------------------------------------------------------------
(* Sequences and the images of a batch.                                     *)

\* The head and the tail of a queue.
LEMMA Queue ==
  ASSUME NEW S, NEW s \in Seq(S), s # <<>>
  PROVE  /\ Len(s) \in Nat \ {0} /\ Head(s) = s[1] /\ Head(s) \in S
         /\ Tail(s) \in Seq(S) /\ Len(Tail(s)) = Len(s) - 1
         /\ \A i \in 1 .. Len(Tail(s)) : Tail(s)[i] = s[i + 1]
<1>1. Len(s) \in Nat \ {0}
  BY EmptySeq
<1>2. Head(s) = s[1]
  BY <1>1
<1> QED
  BY <1>1, <1>2, HeadTailProperties

LEMMA LesserOf ==
  ASSUME NEW a \in Int, NEW b \in Int
  PROVE  Min({a, b}) = IF a <= b THEN a ELSE b
BY DEF Min

\* Every non-empty set of natural numbers has a least element.
LEMMA LeastExists ==
  ASSUME NEW S \in SUBSET Nat, S # {}
  PROVE  \E m \in S : \A k \in S : m <= k
<1> DEFINE Below(k) == 0 .. k
           T == {Below(k) : k \in S}
           R == StrictSubsetOrdering(Nat)
<1>1. T \subseteq FiniteSubsetsOf(Nat)
  <2> SUFFICES ASSUME NEW k \in S PROVE Below(k) \in FiniteSubsetsOf(Nat)
    OBVIOUS
  <2>1. IsFiniteSet(Below(k))
    BY FS_Interval
  <2> QED
    BY <2>1 DEF FiniteSubsetsOf
<1>2. T # {}
  OBVIOUS
<1>3. IsWellFoundedOn(R, FiniteSubsetsOf(Nat))
  BY FS_StrictSubsetOrderingWellFounded
<1> HIDE DEF R
<1>4. PICK x \in T : \A y \in T : ~ (<<y, x>> \in R)
  BY <1>1, <1>2, <1>3, WFMin
<1>5. PICK m \in S : x = Below(m)
  OBVIOUS
<1>6. ASSUME NEW k \in S, k < m
      PROVE  FALSE
  <2>1. Below(k) \subseteq Below(m) /\ Below(k) # Below(m)
    <3>1. m \in Below(m) /\ m \notin Below(k)
      BY <1>6
    <3> QED BY <1>6, <3>1
  <2>2. <<Below(k), Below(m)>> \in R
    BY <2>1 DEF StrictSubsetOrdering, R
  <2> QED
    BY <1>4, <1>5, <2>2
<1> QED
  BY <1>6

\* Ascending ids are at least as far apart as they stand in the batch: the first pair that
\* is not would follow one that is.
LEMMA Apart ==
  ASSUME NEW n \in Nat, NEW is, \A j \in 1 .. n : is[j] \in Nat,
         \A j \in 1 .. n - 1 : is[j] < is[j + 1],
         NEW i \in 1 .. n, NEW k \in i .. n
  PROVE  is[k] - is[i] >= k - i
<1> DEFINE Close(m) == is[m] - is[i] < m - i
           Closer == {m \in i .. n : Close(m)}
<1>1. Closer = {}
  <2> SUFFICES ASSUME Closer # {} PROVE FALSE
    OBVIOUS
  <2>1. Closer \in SUBSET Nat
    OBVIOUS
  <2>2. PICK m \in Closer : \A l \in Closer : m <= l
    BY <2>1, LeastExists
  <2>3. m \in i .. n /\ Close(m)
    BY <2>2
  <2>4. m # i
    BY <2>3
  <2>5. m - 1 \in i .. n /\ m - 1 \in 1 .. n - 1 /\ (m - 1) + 1 = m
    BY <2>3, <2>4
  <2>6. ~Close(m - 1)
    BY <2>2, <2>5
  <2>7. is[m - 1] < is[(m - 1) + 1]
    BY <2>5
  <2>8. is[m - 1] \in Nat /\ is[m] \in Nat /\ is[i] \in Nat
    BY <2>3, <2>5
  <2> QED BY <2>3, <2>5, <2>6, <2>7, <2>8
<1>2. ~Close(k)
  BY <1>1
<1>3. is[k] \in Nat /\ is[i] \in Nat
  OBVIOUS
<1> QED BY <1>2, <1>3

LEMMA Between ==
  ASSUME NEW a \in Nat, NEW b \in Nat, NEW c \in Nat, NEW k \in Nat, NEW n \in Nat,
         b - a >= k - 1, c - b >= n - k, c - a + 1 = n
  PROVE  b = a + k - 1
OBVIOUS

\* So the first and the last id tell that none of a batch is missing.
LEMMA Consecutive ==
  ASSUME NEW is, Ascending(is), Last(is) - Head(is) + 1 = Len(is)
  PROVE  \A j \in 1 .. Len(is) : is[j] = Head(is) + j - 1
<1> DEFINE n == Len(is)
<1>1. is \in Seq(Nat) /\ is # <<>> /\ \A j \in 1 .. n - 1 : is[j] < is[j + 1]
  BY DEF Ascending
<1>2. n \in Nat \ {0} /\ Head(is) = is[1] /\ Last(is) = is[n] /\ \A j \in 1 .. n : is[j] \in Nat
  BY <1>1, Queue DEF Last
<1>3. is[n] - is[1] + 1 = n
  BY <1>2
<1> SUFFICES ASSUME NEW k \in 1 .. n PROVE is[k] = is[1] + k - 1
  BY <1>2
<1> HIDE DEF n
<1>4. is[k] - is[1] >= k - 1
  <2>1. 1 \in 1 .. n /\ k \in 1 .. n
    BY <1>2
  <2> QED BY <1>1, <1>2, <2>1, Apart
<1>5. is[n] - is[k] >= n - k
  <2>1. n \in k .. n
    BY <1>2
  <2> QED BY <1>1, <1>2, <2>1, Apart
<1>6. is[k] \in Nat /\ is[1] \in Nat /\ is[n] \in Nat /\ k \in Nat /\ n \in Nat
  BY <1>2
<1> QED BY <1>3, <1>4, <1>5, <1>6, Between

\* The images of a series, and how an encode adds to them.
LEMMA PartGrows ==
  ASSUME NEW s, NEW n \in Nat, NEW k \in Nat
  PROVE  Part(s, n) \cup {<<n + i - 1, <<s, n + i - 1>>>> : i \in 1 .. k} = Part(s, n + k)
<1> DEFINE New == {<<n + i - 1, <<s, n + i - 1>>>> : i \in 1 .. k}
<1>1. ASSUME NEW x \in Part(s, n + k) PROVE x \in Part(s, n) \cup New
  <2>1. PICK m \in 0 .. (n + k - 1) : x = <<m, <<s, m>>>>
    BY DEF Part
  <2>2. CASE m < n
    <3>1. m \in 0 .. (n - 1) BY <2>2, <2>1
    <3> QED BY <2>1, <3>1 DEF Part
  <2>3. CASE m >= n
    <3>1. (m - n + 1) \in 1 .. k /\ n + (m - n + 1) - 1 = m BY <2>3, <2>1
    <3>2. <<m, <<s, m>>>> = <<n + (m - n + 1) - 1, <<s, n + (m - n + 1) - 1>>>> BY <3>1
    <3> QED BY <2>1, <3>1, <3>2
  <2> QED BY <2>1, <2>2, <2>3
<1>2. ASSUME NEW x \in Part(s, n) PROVE x \in Part(s, n + k)
  <2>1. PICK m \in 0 .. (n - 1) : x = <<m, <<s, m>>>>
    BY DEF Part
  <2>2. m \in 0 .. (n + k - 1) BY <2>1
  <2> QED BY <2>1, <2>2 DEF Part
<1>3. ASSUME NEW x \in New PROVE x \in Part(s, n + k)
  <2>1. PICK i \in 1 .. k : x = <<n + i - 1, <<s, n + i - 1>>>>
    OBVIOUS
  <2>2. n + i - 1 \in 0 .. (n + k - 1) BY <2>1
  <2> QED BY <2>1, <2>2 DEF Part
<1> QED BY <1>1, <1>2, <1>3

LEMMA PartTyped ==
  ASSUME NEW s \in Nat, NEW n \in Nat
  PROVE  Part(s, n) \in SUBSET (Nat \X (Nat \X Nat))
BY DEF Part

\* What the feeds of a run are.
LEMMA FeedFacts ==
  ASSUME FeedsOrdered, EncTypes
  PROVE  /\ Len(feed) \in Nat /\ pos \in Nat
         /\ \A p \in 1 .. Len(feed) : feed[p].series \in Nat \ {0}
         /\ \A p, q \in 1 .. Len(feed) :
              feed[p].kind = "start" /\ feed[q].kind = "start" /\ feed[p].series = feed[q].series
                => p = q
BY DEF FeedsOrdered, EncTypes

LEMMA BegunNumbers ==
  ASSUME FeedsOrdered, EncTypes, NEW s \in Begun
  PROVE  s \in Nat \ {0}
<1>1. PICK p \in 1 .. (IF Beginning THEN pos - 1 ELSE pos) : s = feed[p].series
  BY DEF Begun
<1>2. pos \in 0 .. Len(feed) /\ Len(feed) \in Nat
  BY FeedFacts DEF EncTypes
<1>3. p \in 1 .. Len(feed)
  BY <1>1, <1>2
<1> QED BY <1>1, <1>3, FeedFacts

LEMMA Encoder ==
  ASSUME FeedsOrdered, EncTypes, SeriesInv, Encoding
  PROVE  /\ encoder = [series |-> encoder.series, total |-> encoder.total,
                       received |-> first, got |-> Part(encoder.series, first)]
         /\ encoder.received = first /\ encoder.got = Part(encoder.series, first)
         /\ encoder.series \in Begun /\ encoder.series \in Nat \ {0} /\ first \in Nat
<1>1. encoder = [series |-> encoder.series, total |-> encoder.total,
                  received |-> first, got |-> Part(encoder.series, first)]
  BY DEF SeriesInv
<1>2. encoder.received = first /\ encoder.got = Part(encoder.series, first)
  BY <1>1
<1> QED BY <1>1, <1>2, BegunNumbers DEF SeriesInv, EncTypes

\* A record of a series is not NoSeries.
LEMMA NumberedEncodes ==
  ASSUME NEW e, e.series \in Nat \ {0}
  PROVE  e # NoSeries
<1>1. NoSeries.series = 0
  BY DEF NoSeries
<1> QED BY <1>1

-----------------------------------------------------------------------------
(* Every step keeps the invariant.                                          *)

LEMMA EncInit == FeedsOrdered /\ Init => EncInv
<1> SUFFICES ASSUME FeedsOrdered, Init PROVE EncInv
  OBVIOUS
<1>1. /\ feed \in Feeds /\ pos = 0 /\ at = "idle" /\ encoder = NoSeries /\ buffer = 0 /\ staged = 0
      /\ first = 0 /\ nextId = 0 /\ queue = [st \in Streams |-> <<>>] /\ datasets = <<>>
  BY DEF Init
<1>2. Len(feed) \in Nat
  BY <1>1 DEF FeedsOrdered
<1>3. EncTypes
  <2>1. <<>> \in Seq(CopyRecord) /\ <<>> \in Seq(Whole)
    OBVIOUS
  <2>2. queue \in [Streams -> Seq(CopyRecord)]
    BY <1>1, <2>1
  <2>3. staged \in 0 .. Chunk
    BY <1>1, EncoderAssumption
  <2> QED BY <1>1, <1>2, <2>1, <2>2, <2>3 DEF EncTypes
<1>4. QueueInv
  BY <1>1 DEF QueueInv
<1>5. AtInv /\ SeriesInv /\ CopyInv /\ StageInv /\ TodoInv
  BY <1>1 DEF AtInv, SeriesInv, CopyInv, StageInv, TodoInv, Encoding
<1> QED BY <1>3, <1>4, <1>5 DEF EncInv

\* The batch that is taken is the one after those before it.
LEMMA TakeStep ==
  ASSUME FeedsOrdered, EncInv, NEW st \in Streams, Take(st)
  PROVE  EncInv'
<1>1. /\ at = "idle" /\ pos < Len(feed) /\ pos' = pos + 1 /\ cur' = st
      /\ at' \in {"failed", "begin", "end", "idle", "add"}
      /\ feed' = feed /\ todo' = todo /\ encoder' = encoder /\ buffer' = buffer
      /\ staging' = staging /\ staged' = staged /\ first' = first /\ nextId' = nextId
      /\ copies' = copies /\ queue' = queue /\ datasets' = datasets
  BY DEF Take, Superseded, ids, sink
<1>2. /\ EncTypes /\ AtInv /\ SeriesInv /\ QueueInv /\ CopyInv /\ StageInv /\ TodoInv
      /\ Len(feed) \in Nat /\ pos \in Nat
  BY FeedFacts DEF EncInv
<1>3. Encoding' <=> Encoding
  BY <1>1 DEF Encoding
<1>4. pos' \in 1 .. Len(feed) /\ Batch' = feed[pos + 1]
  BY <1>1, <1>2 DEF Batch
<1>5. Begun \subseteq Begun'
  <2>1. Begun = {feed[p].series : p \in {q \in 1 .. pos : feed[q].kind = "start"}}
    BY <1>1 DEF Begun, Beginning
  <2>2. 1 .. pos \subseteq 1 .. (IF Beginning' THEN pos' - 1 ELSE pos')
    BY <1>1, <1>2
  <2> QED BY <1>1, <2>1, <2>2 DEF Begun
<1>6. EncTypes'
  BY <1>1, <1>2, <1>4 DEF EncTypes
<1>7. AtInv'
  <2>1. at' = IF Raises(feed[pos + 1]) THEN "failed"
              ELSE CASE feed[pos + 1].kind = "start"  -> Superseded
                     [] feed[pos + 1].kind = "images" -> IF encoder = NoSeries THEN "idle" ELSE "add"
                     [] OTHER                         -> IF encoder = NoSeries THEN "idle" ELSE "end"
    BY DEF Take
  <2>2. CASE Raises(feed[pos + 1])
    BY <2>1, <2>2 DEF AtInv
  <2>3. CASE ~Raises(feed[pos + 1]) /\ feed[pos + 1].kind = "start"
    <3>1. at' = Superseded
      BY <2>1, <2>3
    <3> QED BY <1>3, <1>4, <2>3, <3>1 DEF AtInv, Superseded, Encoding
  <2>4. CASE ~Raises(feed[pos + 1]) /\ feed[pos + 1].kind = "images"
    <3>1. at' = IF encoder = NoSeries THEN "idle" ELSE "add"
      BY <2>1, <2>4
    <3> QED BY <1>3, <1>4, <2>4, <3>1 DEF AtInv, Encoding
  <2>5. CASE ~Raises(feed[pos + 1]) /\ feed[pos + 1].kind \notin {"start", "images"}
    <3>1. at' = IF encoder = NoSeries THEN "idle" ELSE "end"
      BY <2>1, <2>5
    <3> QED BY <1>3, <1>4, <2>5, <3>1 DEF AtInv, Encoding
  <2> QED BY <2>2, <2>3, <2>4, <2>5
<1>8. SeriesInv' /\ QueueInv'
  BY <1>1, <1>2, <1>3, <1>5 DEF SeriesInv, QueueInv
<1>9. CopyInv' /\ StageInv'
  BY <1>1, <1>2, <1>3 DEF CopyInv, StageInv, Mine, Brings
<1>10. TodoInv'
  BY <1>1, <1>2, <1>3 DEF TodoInv
<1> QED BY <1>6, <1>7, <1>8, <1>9, <1>10 DEF EncInv

\* No copy that is still under way belongs to a series that only begins.
LEMMA BeginStep ==
  ASSUME FeedsOrdered, EncInv, Begin
  PROVE  EncInv'
<1>1. /\ at = "begin" /\ at' = "idle" /\ feed' = feed /\ pos' = pos /\ cur' = cur /\ queue' = queue
      /\ encoder' = [series |-> Batch.series, total |-> Positions(Batch), received |-> 0, got |-> {}]
      /\ staged' = 0 /\ first' = 0 /\ nextId' = 0 /\ copies' = {} /\ buffer' \in {buffer, buffer + 1}
      /\ datasets' = datasets
  BY DEF Begin, sink
<1>2. /\ EncTypes /\ AtInv /\ QueueInv /\ Len(feed) \in Nat /\ pos \in Nat
  BY FeedFacts DEF EncInv
<1>3. pos \in 1 .. Len(feed) /\ Batch = feed[pos] /\ Batch.kind = "start" /\ Batch.series \in Nat \ {0}
  BY <1>1, <1>2, FeedFacts DEF EncTypes, AtInv, Batch
<1>4. encoder'.series = Batch.series /\ Encoding'
  <2>1. encoder'.series = Batch.series
    BY <1>1
  <2>2. encoder' # NoSeries
    BY <1>3, <2>1, NumberedEncodes
  <2>3. NoSeries' = NoSeries
    BY DEF NoSeries
  <2> QED BY <2>1, <2>2, <2>3 DEF Encoding
<1>5. Begun = {feed[p].series : p \in {q \in 1 .. pos - 1 : feed[q].kind = "start"}}
  BY <1>1 DEF Begun, Beginning
<1>6. Begun' = {feed[p].series : p \in {q \in 1 .. pos : feed[q].kind = "start"}}
  BY <1>1 DEF Begun, Beginning
<1>7. Begun \subseteq Begun' /\ Batch.series \in Begun'
  <2>1. 1 .. pos - 1 \subseteq 1 .. pos /\ pos \in 1 .. pos
    BY <1>2, <1>3
  <2> QED BY <1>3, <1>5, <1>6, <2>1
<1>8. Batch.series \notin Begun
  <2> SUFFICES ASSUME NEW p \in 1 .. pos - 1, feed[p].kind = "start", feed[p].series = feed[pos].series
               PROVE  FALSE
    BY <1>3, <1>5
  <2>1. p \in 1 .. Len(feed) /\ p # pos
    BY <1>2, <1>3
  <2> QED BY <1>3, <2>1, FeedFacts, <1>2
<1>9. EncTypes'
  <2>1. staged' \in 0 .. Chunk
    BY <1>1, EncoderAssumption
  <2>2. buffer' \in Nat
    BY <1>1, <1>2 DEF EncTypes
  <2> QED BY <1>1, <1>2, <2>1, <2>2 DEF EncTypes
<1>10. AtInv' /\ TodoInv'
  BY <1>1 DEF AtInv, TodoInv
<1>11. SeriesInv'
  <2>1. Part(Batch.series, 0) = {}
    BY DEF Part
  <2> QED BY <1>1, <1>4, <1>7, <2>1 DEF SeriesInv
<1>12. QueueInv' /\ CopyInv'
  BY <1>1, <1>2, <1>4, <1>7, <1>8 DEF QueueInv, CopyInv
<1>13. StageInv'
  BY <1>1 DEF StageInv
<1> QED BY <1>9, <1>10, <1>11, <1>12, <1>13 DEF EncInv

\* Without a series nothing is expected of the chunk.
LEMMA DropStep ==
  ASSUME FeedsOrdered, EncInv, Drop
  PROVE  EncInv'
<1>1. /\ at = "add" /\ at' = "idle" /\ feed' = feed /\ pos' = pos /\ cur' = cur /\ queue' = queue
      /\ encoder' = NoSeries /\ staged' = 0 /\ first' = first /\ nextId' = nextId /\ buffer' = buffer
      /\ datasets' = datasets
  BY DEF Drop, ids
<1>2. EncTypes /\ QueueInv
  BY DEF EncInv
<1>3. ~Encoding'
  BY <1>1 DEF Encoding, NoSeries
<1>4. Begun' = Begun
  BY <1>1 DEF Begun, Beginning
<1>5. EncTypes'
  BY <1>1, <1>2, EncoderAssumption DEF EncTypes
<1> QED
  BY <1>1, <1>2, <1>3, <1>4, <1>5
     DEF EncInv, AtInv, SeriesInv, QueueInv, CopyInv, StageInv, TodoInv

\* A batch that follows continues what is staged, id for id.
LEMMA AddStep ==
  ASSUME FeedsOrdered, EncInv, Add
  PROVE  EncInv'
<1>1. /\ at = "add" /\ at' = "copy" /\ todo' = Batch.ids /\ Follows(Batch.ids)
      /\ feed' = feed /\ pos' = pos /\ cur' = cur /\ queue' = queue /\ encoder' = encoder
      /\ staged' = staged /\ first' = first /\ nextId' = nextId /\ buffer' = buffer
      /\ copies' = copies /\ staging' = staging /\ datasets' = datasets
  BY DEF Add, ids, sink
<1>2. /\ EncTypes /\ AtInv /\ SeriesInv /\ QueueInv /\ CopyInv /\ StageInv /\ TodoInv
      /\ Len(feed) \in Nat /\ pos \in Nat
  BY FeedFacts DEF EncInv
<1>3. Encoding /\ Batch.kind = "images" /\ nextId = first + staged /\ Batch' = Batch
      /\ (Encoding' <=> Encoding)
  BY <1>1, <1>2 DEF AtInv, TodoInv, Batch, Encoding
<1>4. Ascending(Batch.ids)
  <2>1. pos \in 1 .. Len(feed) /\ feed \in Feeds
    BY <1>1, <1>2 DEF EncTypes
  <2> QED BY <1>3, <2>1 DEF FeedsOrdered, Batch
<1>5. Begun' = Begun
  BY <1>1 DEF Begun, Beginning
<1>6. EncTypes'
  BY <1>1, <1>2 DEF EncTypes
<1>7. AtInv'
  BY <1>1, <1>3 DEF AtInv
<1>8. SeriesInv' /\ QueueInv' /\ CopyInv' /\ StageInv'
  BY <1>1, <1>2, <1>3, <1>5 DEF SeriesInv, QueueInv, CopyInv, StageInv, Mine, Brings
<1>9. TodoInv'
  <2> DEFINE is == Batch.ids
  <2>1. Head(is) = nextId /\ Last(is) - Head(is) + 1 = Len(is)
    BY <1>1 DEF Follows
  <2>2. \A j \in 1 .. Len(is) : is[j] = Head(is) + j - 1
    BY <1>4, <2>1, Consecutive
  <2>3. /\ is \in Seq(Nat) /\ Len(is) \in Nat /\ first \in Nat /\ staged \in Nat
        /\ Last(is) \in Nat
    <3>1. is \in Seq(Nat) /\ is # <<>>
      BY <1>4 DEF Ascending
    <3>2. Len(is) \in 1 .. Len(is)
      BY <3>1, Queue
    <3> QED BY <1>2, <3>1, <3>2, EncoderAssumption DEF EncTypes, Last
  <2>4. \A j \in 1 .. Len(is) : is[j] = first + staged + j - 1
    BY <1>3, <2>1, <2>2
  <2> HIDE DEF is
  <2>5. first + staged + Len(is) = Last(is) + 1
    <3>1. Last(is) - (first + staged) + 1 = Len(is)
      BY <1>3, <2>1
    <3> QED BY <2>3, <3>1
  <2> QED BY <1>1, <1>3, <2>3, <2>4, <2>5 DEF TodoInv, is
<1> QED BY <1>6, <1>7, <1>8, <1>9 DEF EncInv

\* A copy brings the next images of the batch to the slots behind those in use.
LEMMA CopyStep ==
  ASSUME FeedsOrdered, EncInv, Copy
  PROVE  EncInv'
<1> DEFINE n == Min({Len(todo), Chunk - staged})
           c == [series |-> encoder.series, into |-> buffer, slot |-> staged,
                 ids |-> SubSeq(todo, 1, n)]
<1>1. /\ at = "copy" /\ todo # <<>> /\ at' \in {"full", "copy"}
      /\ queue' = [queue EXCEPT ![cur] = Append(@, c)] /\ copies' = copies \cup {c}
      /\ staged' = staged + n /\ todo' = SubSeq(todo, n + 1, Len(todo))
      /\ feed' = feed /\ pos' = pos /\ cur' = cur /\ encoder' = encoder /\ first' = first
      /\ nextId' = nextId /\ buffer' = buffer /\ staging' = staging /\ datasets' = datasets
  BY DEF Copy, ids, sink
<1>2. /\ EncTypes /\ AtInv /\ SeriesInv /\ QueueInv /\ CopyInv /\ StageInv /\ TodoInv
  BY DEF EncInv
<1>3. /\ Encoding /\ Batch.kind = "images" /\ Batch' = Batch /\ (Encoding' <=> Encoding)
      /\ Begun' = Begun /\ cur \in Streams
  BY <1>1, <1>2 DEF AtInv, Batch, Encoding, Begun, Beginning, EncTypes
<1>4. /\ todo \in Seq(Nat) /\ Len(todo) \in Nat /\ (\A j \in 1 .. Len(todo) : todo[j] \in Nat)
      /\ \A j \in 1 .. Len(todo) : todo[j] = first + staged + j - 1
      /\ first + staged + Len(todo) = Last(Batch.ids) + 1
      /\ first \in Nat /\ staged \in Nat /\ staged <= Chunk /\ Chunk \in Nat /\ buffer \in Nat
  BY <1>1, <1>2, EncoderAssumption DEF TodoInv, EncTypes
<1>5. n \in Nat /\ n <= Len(todo) /\ staged + n <= Chunk
  <2>1. Chunk - staged \in Nat
    BY <1>4
  <2>2. n = IF Len(todo) <= Chunk - staged THEN Len(todo) ELSE Chunk - staged
    <3>1. Len(todo) \in Int /\ Chunk - staged \in Int
      BY <1>4, <2>1
    <3> QED BY <3>1, LesserOf
  <2> QED BY <1>4, <2>1, <2>2
<1> HIDE DEF n
<1>6. /\ SubSeq(todo, 1, n) \in Seq(Nat) /\ Len(SubSeq(todo, 1, n)) = n
      /\ \A j \in 1 .. n : SubSeq(todo, 1, n)[j] = todo[j]
  <2>1. \A j \in 1 .. n : todo[j] \in Nat
    BY <1>4, <1>5
  <2>2. (IF 1 <= n THEN n - 1 + 1 ELSE 0) = n /\ 1 .. n - 1 + 1 = 1 .. n
        /\ \A j \in 1 .. n : 1 + j - 1 = j
    BY <1>5
  <2> QED BY <1>5, <2>1, <2>2, SubSeqProperties
<1>7. /\ c \in CopyRecord /\ c.series = encoder.series /\ c.into = buffer /\ c.slot = staged
      /\ c.ids = SubSeq(todo, 1, n)
  BY <1>2, <1>3, <1>4, <1>6, Encoder DEF CopyRecord
<1> HIDE DEF c
<1>8. /\ queue' \in [Streams -> Seq(CopyRecord)]
      /\ \A st \in Streams : \A k \in 1 .. Len(queue[st]) :
           k \in 1 .. Len(queue'[st]) /\ queue'[st][k] = queue[st][k]
      /\ \A st \in Streams : \A k \in 1 .. Len(queue'[st]) :
           \/ k \in 1 .. Len(queue[st]) /\ queue'[st][k] = queue[st][k]
           \/ queue'[st][k] = c
      /\ \E k \in 1 .. Len(queue'[cur]) : queue'[cur][k] = c
  <2>1. queue \in [Streams -> Seq(CopyRecord)]
    BY <1>2 DEF EncTypes
  <2>2. /\ Append(queue[cur], c) \in Seq(CopyRecord) /\ Len(queue[cur]) \in Nat
        /\ Len(Append(queue[cur], c)) = Len(queue[cur]) + 1
        /\ \A k \in 1 .. Len(queue[cur]) : Append(queue[cur], c)[k] = queue[cur][k]
        /\ Append(queue[cur], c)[Len(queue[cur]) + 1] = c
    BY <1>3, <1>7, <2>1, AppendProperties
  <2>3. /\ queue'[cur] = Append(queue[cur], c)
        /\ \A st \in Streams : st # cur => queue'[st] = queue[st]
        /\ queue' \in [Streams -> Seq(CopyRecord)]
    BY <1>1, <1>3, <2>1, <2>2
  <2>4. \A st \in Streams : \A k \in 1 .. Len(queue[st]) :
           k \in 1 .. Len(queue'[st]) /\ queue'[st][k] = queue[st][k]
    BY <2>2, <2>3
  <2>5. \A k \in 1 .. Len(queue'[cur]) : k \in 1 .. Len(queue[cur]) \/ k = Len(queue[cur]) + 1
    BY <2>2, <2>3
  <2>6. \A st \in Streams : \A k \in 1 .. Len(queue'[st]) :
           \/ k \in 1 .. Len(queue[st]) /\ queue'[st][k] = queue[st][k]
           \/ queue'[st][k] = c
    BY <2>2, <2>3, <2>5
  <2>7. Len(queue[cur]) + 1 \in 1 .. Len(queue'[cur])
    BY <2>2, <2>3
  <2> QED BY <2>2, <2>3, <2>4, <2>6, <2>7
<1>9. EncTypes'
  <2>1. staged' \in 0 .. Chunk
    BY <1>1, <1>4, <1>5
  <2> QED BY <1>1, <1>2, <1>8, <2>1 DEF EncTypes
<1>10. AtInv' /\ SeriesInv'
  BY <1>1, <1>2, <1>3 DEF AtInv, SeriesInv
<1>11. QueueInv'
  <2>1. c.series \in Begun'
    BY <1>2, <1>3, <1>7 DEF SeriesInv
  <2> QED BY <1>2, <1>3, <1>8, <2>1 DEF QueueInv
<1>12. CopyInv'
  <2>1. /\ c \in copies' /\ c.into = buffer' /\ c.slot + Len(c.ids) <= staged'
        /\ \A j \in 1 .. Len(c.ids) : c.ids[j] = first' + c.slot + j - 1
    <3>1. Len(c.ids) = n /\ 1 .. n \subseteq 1 .. Len(todo) /\ \A j \in 1 .. n : c.ids[j] = todo[j]
      BY <1>4, <1>5, <1>6, <1>7
    <3>2. \A j \in 1 .. Len(c.ids) : c.ids[j] = first' + c.slot + j - 1
      BY <1>1, <1>4, <1>7, <3>1
    <3>3. c.slot + Len(c.ids) <= staged'
      BY <1>1, <1>4, <1>5, <1>7, <3>1
    <3>4. c \in copies' /\ c.into = buffer'
      BY <1>1, <1>7
    <3> QED BY <3>2, <3>3, <3>4
  <2>2. ASSUME NEW st \in Streams, NEW k \in 1 .. Len(queue[st]), queue[st][k].series = encoder.series
        PROVE  Mine(queue[st][k])'
    <3> DEFINE d == queue[st][k]
    <3>1. Mine(d)
      BY <1>2, <1>3, <2>2 DEF CopyInv
    <3>2. queue'[st][k] = d
      BY <1>8
    <3>3. d \in CopyRecord /\ d.slot \in Nat /\ Len(d.ids) \in Nat
      <4>1. queue[st] \in Seq(CopyRecord)
        BY <1>2 DEF EncTypes
      <4>2. d \in CopyRecord
        BY <4>1
      <4> QED BY <4>2 DEF CopyRecord
    <3>4. d.slot + Len(d.ids) <= staged'
      BY <1>1, <1>4, <1>5, <3>1, <3>3 DEF Mine
    <3> HIDE DEF d
    <3>5. /\ d \in copies' /\ d.into = buffer' /\ d.slot + Len(d.ids) <= staged'
          /\ \A j \in 1 .. Len(d.ids) : d.ids[j] = first' + d.slot + j - 1
      BY <1>1, <3>1, <3>4 DEF Mine
    <3> QED BY <3>2, <3>5 DEF Mine, d
  <2>3. ASSUME NEW st \in Streams, NEW k \in 1 .. Len(queue'[st]), queue'[st][k].series = encoder.series
        PROVE  Mine(queue[st][k])'
    <3>1. CASE k \in 1 .. Len(queue[st]) /\ queue'[st][k] = queue[st][k]
      BY <2>2, <2>3, <3>1
    <3>2. CASE queue'[st][k] = c
      BY <2>1, <3>2 DEF Mine
    <3> QED BY <1>8, <3>1, <3>2
  <2> QED BY <1>1, <2>3 DEF CopyInv
<1>13. StageInv'
  <2> SUFFICES ASSUME NEW i \in 1 .. staged'
               PROVE  \/ staging[i] = <<encoder.series, first + i - 1>>
                      \/ \E st \in Streams : \E k \in 1 .. Len(queue'[st]) : Brings(queue'[st][k], i)
    BY <1>1, <1>3 DEF StageInv, Brings
  <2>1. CASE i \in 1 .. staged
    <3>1. CASE staging[i] = <<encoder.series, first + i - 1>>
      BY <3>1
    <3>2. CASE \E st \in Streams : \E k \in 1 .. Len(queue[st]) : Brings(queue[st][k], i)
      <4>0. PICK st \in Streams : \E k \in 1 .. Len(queue[st]) : Brings(queue[st][k], i)
        BY <3>2
      <4>1. PICK k \in 1 .. Len(queue[st]) : Brings(queue[st][k], i)
        BY <4>0
      <4>2. k \in 1 .. Len(queue'[st]) /\ queue'[st][k] = queue[st][k]
        BY <1>8
      <4> QED BY <4>1, <4>2
    <3> QED BY <1>2, <1>3, <2>1, <3>1, <3>2 DEF StageInv
  <2>2. CASE i \notin 1 .. staged
    <3>1. Brings(c, i)
      <4>1. i - staged \in 1 .. n
        BY <1>1, <1>4, <1>5, <2>2
      <4> QED BY <1>6, <1>7, <4>1 DEF Brings
    <3>2. PICK k \in 1 .. Len(queue'[cur]) : queue'[cur][k] = c
      BY <1>8
    <3> QED BY <1>3, <3>1, <3>2
  <2> QED BY <2>1, <2>2
<1>14. TodoInv'
  <2>1. /\ todo' \in Seq(Nat) /\ Len(todo') = Len(todo) - n
        /\ \A j \in 1 .. Len(todo) - n : todo'[j] = todo[n + j]
    <3>1. \A j \in n + 1 .. Len(todo) : todo[j] \in Nat
      BY <1>4, <1>5
    <3>2. n + 1 \in Int /\ Len(todo) - (n + 1) + 1 = Len(todo) - n
          /\ (\A j \in 1 .. Len(todo) - n : n + 1 + j - 1 = n + j)
          /\ (IF n + 1 <= Len(todo) THEN Len(todo) - (n + 1) + 1 ELSE 0) = Len(todo) - n
      BY <1>4, <1>5
    <3> QED BY <1>1, <1>4, <3>1, <3>2, SubSeqProperties
  <2>2. \A j \in 1 .. Len(todo') : todo'[j] = first' + staged' + j - 1
    <3> SUFFICES ASSUME NEW j \in 1 .. Len(todo') PROVE todo'[j] = first' + staged' + j - 1
      OBVIOUS
    <3>1. n + j \in 1 .. Len(todo) /\ j \in 1 .. Len(todo) - n
      BY <1>4, <1>5, <2>1
    <3>2. todo'[j] = first + staged + (n + j) - 1
      BY <1>4, <2>1, <3>1
    <3> QED BY <1>1, <1>4, <1>5, <3>1, <3>2
  <2>3. first' + staged' + Len(todo') = Last(Batch.ids) + 1
    <3>1. Len(todo') = Len(todo) - n /\ first' = first /\ staged' = staged + n
      BY <1>1, <2>1
    <3>2. first + (staged + n) + (Len(todo) - n) = first + staged + Len(todo)
      BY <1>4, <1>5
    <3>3. first' + staged' + Len(todo') = first + staged + Len(todo)
      BY <3>1, <3>2
    <3> QED BY <1>4, <3>3
  <2> QED BY <1>1, <1>3, <2>1, <2>2, <2>3 DEF TodoInv
<1> QED BY <1>9, <1>10, <1>11, <1>12, <1>13, <1>14 DEF EncInv

LEMMA CopiedStep ==
  ASSUME FeedsOrdered, EncInv, Copied
  PROVE  EncInv'
<1>1. /\ at = "copy" /\ todo = <<>> /\ at' = "idle" /\ nextId' = Last(Batch.ids) + 1
      /\ feed' = feed /\ pos' = pos /\ cur' = cur /\ queue' = queue /\ encoder' = encoder
      /\ staged' = staged /\ first' = first /\ buffer' = buffer
      /\ copies' = copies /\ staging' = staging /\ datasets' = datasets
  BY DEF Copied, sink
<1>2. /\ EncTypes /\ AtInv /\ SeriesInv /\ QueueInv /\ CopyInv /\ StageInv /\ TodoInv
  BY DEF EncInv
<1>3. (Encoding' <=> Encoding) /\ Begun' = Begun
  BY <1>1 DEF Encoding, Begun, Beginning
<1>4. nextId' = first + staged /\ nextId' \in Nat
  <2>1. first + staged + Len(todo) = Last(Batch.ids) + 1
    BY <1>1, <1>2 DEF TodoInv
  <2>2. Len(todo) = 0 /\ first \in Nat /\ staged \in Nat
    BY <1>1, <1>2, EncoderAssumption DEF EncTypes
  <2> QED BY <1>1, <2>1, <2>2
<1>5. EncTypes'
  BY <1>1, <1>2, <1>4 DEF EncTypes
<1>6. AtInv' /\ TodoInv'
  BY <1>1, <1>4 DEF AtInv, TodoInv
<1>7. SeriesInv' /\ QueueInv' /\ CopyInv' /\ StageInv'
  BY <1>1, <1>2, <1>3 DEF SeriesInv, QueueInv, CopyInv, StageInv, Mine, Brings
<1> QED BY <1>5, <1>6, <1>7 DEF EncInv

\* A copy that is carried out puts images of its own series at their places; one of a dropped
\* series that ran into the chunk would be a stray.
LEMMA RunStep ==
  ASSUME FeedsOrdered, EncInv, NEW st \in Streams, Run(st), ~stray'
  PROVE  EncInv'
<1> DEFINE c == Head(queue[st])
<1>1. /\ queue[st] # <<>> /\ queue' = [queue EXCEPT ![st] = Tail(@)]
      /\ staging' = [i \in 1 .. Chunk |->
                       IF c.into = buffer /\ i - c.slot \in 1 .. Len(c.ids)
                       THEN <<c.series, c.ids[i - c.slot]>> ELSE staging[i]]
      /\ stray' = (stray \/ (c.into = buffer /\ encoder # NoSeries /\ c.series # encoder.series))
      /\ feed' = feed /\ pos' = pos /\ cur' = cur /\ at' = at /\ todo' = todo /\ encoder' = encoder
      /\ buffer' = buffer /\ staged' = staged /\ first' = first /\ nextId' = nextId
      /\ copies' = copies /\ datasets' = datasets
  BY DEF Run, host, ids, sink
<1>2. /\ EncTypes /\ AtInv /\ SeriesInv /\ QueueInv /\ CopyInv /\ StageInv /\ TodoInv
  BY DEF EncInv
<1>3. /\ (Encoding' <=> Encoding) /\ Batch' = Batch /\ Begun' = Begun
  BY <1>1 DEF Encoding, Batch, Begun, Beginning
<1>4. /\ queue \in [Streams -> Seq(CopyRecord)] /\ queue[st] \in Seq(CopyRecord)
      /\ first \in Nat /\ staged \in Nat /\ staged <= Chunk /\ Chunk \in Nat
  BY <1>2, EncoderAssumption DEF EncTypes
<1>5. /\ Len(queue[st]) \in Nat \ {0} /\ c = queue[st][1] /\ c \in CopyRecord
      /\ Tail(queue[st]) \in Seq(CopyRecord) /\ Len(Tail(queue[st])) = Len(queue[st]) - 1
      /\ \A k \in 1 .. Len(Tail(queue[st])) : Tail(queue[st])[k] = queue[st][k + 1]
  BY <1>1, <1>4, Queue
<1>6. c.slot \in Nat /\ c.ids \in Seq(Nat) /\ Len(c.ids) \in Nat
  BY <1>5 DEF CopyRecord
<1> HIDE DEF c
<1>7. /\ queue' \in [Streams -> Seq(CopyRecord)] /\ queue'[st] = Tail(queue[st])
      /\ \A s \in Streams : s # st => queue'[s] = queue[s]
  BY <1>1, <1>4, <1>5
<1>8. \A s \in Streams : \A k \in 1 .. Len(queue'[s]) :
        \E m \in 1 .. Len(queue[s]) : queue'[s][k] = queue[s][m]
  <2> SUFFICES ASSUME NEW s \in Streams, NEW k \in 1 .. Len(queue'[s])
               PROVE  \E m \in 1 .. Len(queue[s]) : queue'[s][k] = queue[s][m]
    OBVIOUS
  <2>1. CASE s = st
    <3>1. k \in 1 .. Len(Tail(queue[st])) /\ queue'[s][k] = queue[st][k + 1]
      BY <1>5, <1>7, <2>1
    <3>2. k + 1 \in 1 .. Len(queue[st])
      BY <1>5, <3>1
    <3> QED BY <2>1, <3>1, <3>2
  <2>2. CASE s # st
    BY <1>7, <2>2
  <2> QED BY <2>1, <2>2
<1>9. \A s \in Streams : \A m \in 1 .. Len(queue[s]) :
        queue[s][m] = c \/ \E k \in 1 .. Len(queue'[s]) : queue'[s][k] = queue[s][m]
  <2> SUFFICES ASSUME NEW s \in Streams, NEW m \in 1 .. Len(queue[s]), queue[s][m] # c
               PROVE  \E k \in 1 .. Len(queue'[s]) : queue'[s][k] = queue[s][m]
    OBVIOUS
  <2>1. CASE s = st
    <3>1. m # 1
      BY <1>5, <2>1
    <3>2. m - 1 \in 1 .. Len(Tail(queue[st])) /\ (m - 1) + 1 = m
      BY <1>5, <2>1, <3>1
    <3>3. queue'[s][m - 1] = queue[s][m]
      BY <1>5, <1>7, <2>1, <3>2
    <3> QED BY <1>7, <2>1, <3>2, <3>3
  <2>2. CASE s # st
    BY <1>7, <2>2
  <2> QED BY <2>1, <2>2
<1>10. EncTypes'
  BY <1>1, <1>2, <1>7 DEF EncTypes
<1>11. AtInv' /\ SeriesInv' /\ TodoInv'
  BY <1>1, <1>2, <1>3 DEF AtInv, SeriesInv, TodoInv
<1>12. QueueInv'
  BY <1>2, <1>3, <1>8 DEF QueueInv
<1>13. CopyInv'
  <2> SUFFICES ASSUME Encoding, NEW s \in Streams, NEW k \in 1 .. Len(queue'[s]),
                      queue'[s][k].series = encoder.series
               PROVE  Mine(queue[s][k])'
    BY <1>1, <1>3 DEF CopyInv
  <2>1. PICK m \in 1 .. Len(queue[s]) : queue'[s][k] = queue[s][m]
    BY <1>8
  <2>2. Mine(queue[s][m])
    BY <1>2, <2>1 DEF CopyInv
  <2> DEFINE d == queue[s][m]
  <2>3. /\ d \in copies' /\ d.into = buffer' /\ d.slot + Len(d.ids) <= staged'
        /\ \A j \in 1 .. Len(d.ids) : d.ids[j] = first' + d.slot + j - 1
    BY <1>1, <2>2 DEF Mine
  <2> HIDE DEF d
  <2>4. queue'[s][k] = d
    BY <2>1 DEF d
  <2> QED BY <2>3, <2>4 DEF Mine
<1>14. ASSUME Encoding, NEW i \in 1 .. staged
       PROVE  \/ staging'[i] = <<encoder.series, first + i - 1>>
              \/ \E s \in Streams : \E k \in 1 .. Len(queue'[s]) : Brings(queue'[s][k], i)
  <2>1. i \in 1 .. Chunk /\ i \in Nat
    BY <1>4
  <2>2. ~(c.into = buffer /\ c.series # encoder.series)
    BY <1>1, <1>14 DEF Encoding
  <2>3. c.series = encoder.series => Mine(c)
    <3>1. 1 \in 1 .. Len(queue[st])
      BY <1>5
    <3> QED BY <1>2, <1>5, <1>14, <3>1 DEF CopyInv
  <2>4. CASE c.into = buffer /\ i - c.slot \in 1 .. Len(c.ids)
    <3>1. Mine(c) /\ c.series = encoder.series
      BY <2>2, <2>3, <2>4
    <3>2. c.ids[i - c.slot] = first + c.slot + (i - c.slot) - 1
      BY <2>4, <3>1 DEF Mine
    <3>3. c.ids[i - c.slot] = first + i - 1
      BY <1>4, <1>6, <2>1, <3>2
    <3> QED BY <1>1, <2>1, <2>4, <3>1, <3>3
  <2>5. CASE ~(c.into = buffer /\ i - c.slot \in 1 .. Len(c.ids))
    <3>1. staging'[i] = staging[i]
      BY <1>1, <2>1, <2>5
    <3>2. ~Brings(c, i)
      BY <2>3, <2>5 DEF Brings, Mine
    <3>3. CASE staging[i] = <<encoder.series, first + i - 1>>
      BY <3>1, <3>3
    <3>4. CASE \E s \in Streams : \E k \in 1 .. Len(queue[s]) : Brings(queue[s][k], i)
      <4>1. PICK s \in Streams : \E k \in 1 .. Len(queue[s]) : Brings(queue[s][k], i)
        BY <3>4
      <4>2. PICK m \in 1 .. Len(queue[s]) : Brings(queue[s][m], i)
        BY <4>1
      <4>3. PICK k \in 1 .. Len(queue'[s]) : queue'[s][k] = queue[s][m]
        BY <1>9, <3>2, <4>2
      <4> QED BY <4>2, <4>3
    <3> QED BY <1>2, <1>14, <3>3, <3>4 DEF StageInv
  <2> QED BY <2>4, <2>5
<1>15. StageInv'
  <2> SUFFICES ASSUME Encoding, NEW i \in 1 .. staged
               PROVE  \/ staging'[i] = <<encoder.series, first + i - 1>>
                      \/ \E s \in Streams : \E k \in 1 .. Len(queue'[s]) : Brings(queue'[s][k], i)
    <3>1. encoder' = encoder /\ first' = first /\ staged' = staged
      BY <1>1
    <3> QED BY <1>3, <3>1 DEF StageInv, Brings
  <2> QED BY <1>14
<1> QED BY <1>10, <1>11, <1>12, <1>13, <1>15 DEF EncInv

\* An encode waits for the copies of its chunk, so that every slot holds its image.
LEMMA EncodeStep ==
  ASSUME FeedsOrdered, EncInv, Encode
  PROVE  EncInv'
<1>1. /\ at = "full" \/ (at = "end" /\ staged > 0)
      /\ CopiesDone
      /\ encoder' = [encoder EXCEPT !.received = @ + staged,
                       !.got = @ \cup {<<first + i - 1, staging[i]>> : i \in 1 .. staged}]
      /\ first' = first + staged /\ staged' = 0 /\ copies' = {}
      /\ at' = IF at = "full" THEN "copy" ELSE "end"
      /\ feed' = feed /\ pos' = pos /\ cur' = cur /\ todo' = todo /\ queue' = queue
      /\ buffer' = buffer /\ nextId' = nextId /\ datasets' = datasets
  BY DEF Encode, sink
<1>2. /\ EncTypes /\ AtInv /\ SeriesInv /\ QueueInv /\ CopyInv /\ StageInv /\ TodoInv
  BY DEF EncInv
<1>3. /\ Encoding /\ Batch' = Batch /\ Begun' = Begun
  BY <1>1, <1>2 DEF AtInv, Batch, Begun, Beginning
<1>4. /\ encoder = [series |-> encoder.series, total |-> encoder.total,
                    received |-> first, got |-> Part(encoder.series, first)]
      /\ encoder.series \in Begun /\ encoder.series \in Nat \ {0}
      /\ first \in Nat /\ staged \in Nat /\ staged <= Chunk
  BY <1>2, <1>3, Encoder, EncoderAssumption DEF EncTypes
<1>5. \A st \in Streams : \A k \in 1 .. Len(queue[st]) : queue[st][k].series # encoder.series
  <2> SUFFICES ASSUME NEW st \in Streams, NEW k \in 1 .. Len(queue[st]),
                      queue[st][k].series = encoder.series
               PROVE  FALSE
    OBVIOUS
  <2>1. queue[st][k] \in copies
    BY <1>2, <1>3 DEF CopyInv, Mine
  <2>2. queue[st][k] \in ToSet(queue[st])
    <3>1. queue[st] \in Seq(CopyRecord)
      BY <1>2 DEF EncTypes
    <3>2. k \in DOMAIN queue[st]
      BY <3>1
    <3> QED BY <3>2 DEF ToSet
  <2>3. ToSet(queue[st]) \cap copies = {}
    BY <1>1 DEF CopiesDone
  <2> QED BY <2>1, <2>2, <2>3
<1>6. \A i \in 1 .. staged : staging[i] = <<encoder.series, first + i - 1>>
  BY <1>2, <1>3, <1>5 DEF StageInv, Brings
<1>7. /\ encoder' = [series |-> encoder.series, total |-> encoder.total, received |-> first + staged,
                     got |-> Part(encoder.series, first + staged)]
      /\ encoder'.series = encoder.series
  <2>1. {<<first + i - 1, staging[i]>> : i \in 1 .. staged}
          = {<<first + i - 1, <<encoder.series, first + i - 1>>>> : i \in 1 .. staged}
    BY <1>6
  <2>2. Part(encoder.series, first) \cup {<<first + i - 1, staging[i]>> : i \in 1 .. staged}
          = Part(encoder.series, first + staged)
    BY <1>4, <2>1, PartGrows
  <2> DEFINE p == Part(encoder.series, first)
             q == Part(encoder.series, first + staged)
             new == {<<first + i - 1, staging[i]>> : i \in 1 .. staged}
  <2>3. /\ encoder = [series |-> encoder.series, total |-> encoder.total, received |-> first, got |-> p]
        /\ p \cup new = q
        /\ encoder' = [encoder EXCEPT !.received = @ + staged, !.got = @ \cup new]
    BY <1>1, <1>4, <2>2
  <2> HIDE DEF p, q, new
  <2>4. PICK s, t : s = encoder.series /\ t = encoder.total
    OBVIOUS
  <2>5. encoder = [series |-> s, total |-> t, received |-> first, got |-> p]
    BY <2>3, <2>4, Zenon
  <2>6. encoder \in [series : {s}, total : {t}, received : {first}, got : {p}]
    BY <2>5
  <2>7. encoder' \in [series : {s}, total : {t}, received : {first + staged}, got : {q}]
    <3>1. encoder' = [encoder EXCEPT !.received = @ + staged, !.got = @ \cup new] /\ p \cup new = q
      BY <2>3
    <3> QED BY <2>6, <3>1
  <2>8. encoder' = [series |-> s, total |-> t, received |-> first + staged, got |-> q]
    BY <2>7
  <2> QED BY <2>4, <2>8 DEF q
<1>8. Encoding'
  <2>1. encoder' # NoSeries
    BY <1>4, <1>7, NumberedEncodes
  <2>2. NoSeries' = NoSeries
    BY DEF NoSeries
  <2> QED BY <2>1, <2>2 DEF Encoding
<1>9. EncTypes'
  <2>1. first' \in Nat /\ staged' \in 0 .. Chunk
    BY <1>1, <1>4, EncoderAssumption
  <2>2. at # "idle"
    BY <1>1
  <2> QED BY <1>1, <1>2, <2>1, <2>2 DEF EncTypes
<1>10. AtInv'
  BY <1>1, <1>2, <1>3, <1>8 DEF AtInv
<1>11. SeriesInv'
  <2>1. encoder'.series \in Begun' /\ encoder'.total = encoder.total
    BY <1>3, <1>4, <1>7
  <2> QED BY <1>1, <1>7, <2>1 DEF SeriesInv
<1>12. QueueInv' /\ CopyInv' /\ StageInv'
  BY <1>1, <1>2, <1>3, <1>5, <1>7 DEF QueueInv, CopyInv, StageInv
<1>13. TodoInv'
  <2>1. first' + staged' = first + staged
    BY <1>1, <1>4
  <2>2. /\ at = "full" => at' = "copy"
        /\ at # "full" => at' = "end" /\ at = "end"
    BY <1>1
  <2>3. CASE at = "full"
    <3>1. \A j \in 1 .. Len(todo) : todo[j] = first' + staged' + j - 1
      BY <1>2, <2>1, <2>3 DEF TodoInv
    <3>2. /\ todo \in Seq(Nat)
          /\ first' + staged' + Len(todo) = Last(Batch.ids) + 1
      BY <1>2, <2>1, <2>3 DEF TodoInv
    <3> QED BY <1>1, <1>3, <2>2, <2>3, <3>1, <3>2 DEF TodoInv
  <2>4. CASE at # "full"
    <3>1. nextId = first + staged
      BY <1>2, <1>3, <2>2, <2>4 DEF TodoInv
    <3> QED BY <1>1, <2>1, <2>2, <2>4, <3>1 DEF TodoInv
  <2> QED BY <2>3, <2>4
<1> QED BY <1>9, <1>10, <1>11, <1>12, <1>13 DEF EncInv

\* What is kept had every image of its scan encoded.
LEMMA CompleteStep ==
  ASSUME FeedsOrdered, EncInv, Complete
  PROVE  EncInv'
<1> DEFINE all == Append(datasets, encoder)
           over == IF Keep = 0 \/ Len(all) <= Keep THEN 0 ELSE Len(all) - Keep
<1>1. /\ at = "end" /\ staged = 0 /\ encoder' = NoSeries
      /\ datasets' = IF encoder.received = encoder.total THEN SubSeq(all, over + 1, Len(all))
                                                         ELSE datasets
      /\ at' = IF Batch.kind = "start" THEN "begin" ELSE "idle"
      /\ feed' = feed /\ pos' = pos /\ cur' = cur /\ queue' = queue
      /\ buffer' = buffer /\ staged' = staged /\ first' = first /\ nextId' = nextId
  BY DEF Complete, ids
<1>2. EncTypes /\ AtInv /\ SeriesInv /\ QueueInv
  BY DEF EncInv
<1>3. /\ Encoding /\ ~Encoding' /\ Batch' = Batch
  BY <1>1, <1>2 DEF AtInv, Batch, Encoding, NoSeries
<1>4. Begun' = Begun
  BY <1>1, <1>3 DEF Begun, Beginning
<1>5. datasets' \in Seq(Whole)
  <2>1. CASE encoder.received # encoder.total
    BY <1>1, <1>2, <2>1 DEF EncTypes
  <2>2. CASE encoder.received = encoder.total
    <3>1. /\ encoder = [series |-> encoder.series, total |-> encoder.total,
                        received |-> first, got |-> Part(encoder.series, first)]
          /\ encoder.total = first /\ encoder.got = Part(encoder.series, first)
          /\ encoder.series \in Nat /\ first \in Nat
      BY <1>2, <1>3, <2>2, Encoder
    <3>2. Part(encoder.series, first) \in SUBSET (Nat \X (Nat \X Nat))
      BY <3>1, PartTyped
    <3>3. encoder \in Whole
      <4> DEFINE p == Part(encoder.series, first)
      <4>1. /\ encoder = [series |-> encoder.series, total |-> encoder.total,
                          received |-> first, got |-> p]
            /\ p \in SUBSET (Nat \X (Nat \X Nat))
        BY <3>1, <3>2
      <4> HIDE DEF p
      <4>2. encoder \in [series : Nat, total : Nat, received : Nat,
                         got : SUBSET (Nat \X (Nat \X Nat))]
        BY <3>1, <4>1
      <4> QED BY <3>1, <4>2 DEF Whole
    <3>4. /\ all \in Seq(Whole) /\ Len(all) \in Nat /\ \A i \in 1 .. Len(all) : all[i] \in Whole
      BY <1>2, <3>3, AppendProperties DEF EncTypes
    <3>5. over \in Nat
      BY <3>4, EncoderAssumption
    <3> HIDE DEF all, over
    <3>6. \A i \in over + 1 .. Len(all) : all[i] \in Whole
      BY <3>4, <3>5
    <3>7. SubSeq(all, over + 1, Len(all)) \in Seq(Whole)
      BY <3>4, <3>5, <3>6, SubSeqProperties
    <3> QED BY <1>1, <2>2, <3>7
  <2> QED BY <2>1, <2>2
<1>6. EncTypes'
  BY <1>1, <1>2, <1>5 DEF EncTypes
<1>7. AtInv'
  BY <1>1, <1>3 DEF AtInv
<1>8. QueueInv'
  BY <1>1, <1>2, <1>4 DEF QueueInv
<1>9. SeriesInv' /\ CopyInv' /\ StageInv' /\ TodoInv'
  BY <1>1, <1>3 DEF SeriesInv, CopyInv, StageInv, TodoInv
<1> QED BY <1>6, <1>7, <1>8, <1>9 DEF EncInv

LEMMA EncNext == FeedsOrdered /\ EncoderInv /\ [Next]_vars => EncoderInv'
<1> SUFFICES ASSUME FeedsOrdered, EncoderInv, [Next]_vars, ~stray' PROVE EncInv'
  BY DEF EncoderInv
<1>1. ~stray
  BY DEF Next, Begin, Add, Drop, Copy, Copied, Encode, Complete, Take, Run, vars
<1>2. EncInv
  BY <1>1 DEF EncoderInv
<1>3. CASE Begin BY <1>2, <1>3, BeginStep
<1>4. CASE Add BY <1>2, <1>4, AddStep
<1>5. CASE Drop BY <1>2, <1>5, DropStep
<1>6. CASE Copy BY <1>2, <1>6, CopyStep
<1>7. CASE Copied BY <1>2, <1>7, CopiedStep
<1>8. CASE Encode BY <1>2, <1>8, EncodeStep
<1>9. CASE Complete BY <1>2, <1>9, CompleteStep
<1>10. CASE \E st \in Streams : Take(st) BY <1>2, <1>10, TakeStep
<1>11. CASE \E st \in Streams : Run(st) BY <1>2, <1>11, RunStep
<1>12. CASE UNCHANGED vars
  <2>1. /\ feed' = feed /\ pos' = pos /\ cur' = cur /\ at' = at /\ todo' = todo /\ encoder' = encoder
        /\ buffer' = buffer /\ staging' = staging /\ staged' = staged /\ first' = first
        /\ nextId' = nextId /\ copies' = copies /\ queue' = queue /\ datasets' = datasets
    BY <1>12 DEF vars, host, ids, sink
  <2>2. (Encoding' <=> Encoding) /\ Begun' = Begun /\ Batch' = Batch
    BY <2>1 DEF Encoding, Begun, Beginning, Batch
  <2>3. EncTypes' /\ AtInv' /\ SeriesInv' /\ QueueInv' /\ TodoInv'
    BY <1>2, <2>1, <2>2 DEF EncInv, EncTypes, AtInv, SeriesInv, QueueInv, TodoInv
  <2>4. CopyInv' /\ StageInv'
    BY <1>2, <2>1, <2>2 DEF EncInv, CopyInv, StageInv, Mine, Brings
  <2> QED BY <2>3, <2>4 DEF EncInv
<1> QED BY <1>3, <1>4, <1>5, <1>6, <1>7, <1>8, <1>9, <1>10, <1>11, <1>12 DEF Next

\* The copies of a series, the chunk they fill and the images that are encoded agree at every
\* step of the operator and of the GPU, beside the detector's operators.
THEOREM EncoderInvariant == FeedsOrdered => (ConsumersSpec => []EncoderInv)
<1> SUFFICES ASSUME FeedsOrdered PROVE ConsumersSpec => []EncoderInv
  OBVIOUS
<1>1. ConsumersInit => EncoderInv
  BY EncInit DEF ConsumersInit, EncoderInv
<1>2. EncoderInv /\ [ConsumersNext]_allVars => EncoderInv'
  <2> SUFFICES ASSUME EncoderInv, [ConsumersNext]_allVars PROVE EncoderInv'
    OBVIOUS
  <2>1. [Next]_vars
    BY DEF ConsumersNext, Encodes, Detects, allVars
  <2> QED BY <2>1, EncNext
<1> QED BY <1>1, <1>2, PTL DEF ConsumersSpec

\* Every series that ANS encoding keeps holds each image of its scan, once and at its own
\* place, though the copies ran on any number of streams and the chunk was used before
\* (ans_encoding.py: SeriesEncoder.add, _encode); excepted are the strays of _drop.
THEOREM KeptIsExact == FeedsOrdered => (ConsumersSpec => []KeptExact)
<1> SUFFICES ASSUME FeedsOrdered PROVE ConsumersSpec => []KeptExact
  OBVIOUS
<1>1. EncoderInv => KeptExact
  <2> SUFFICES ASSUME EncoderInv, ~stray, NEW i \in 1 .. Len(datasets)
               PROVE  datasets[i].got = {<<k, <<datasets[i].series, k>>>> :
                                           k \in 0 .. (datasets[i].total - 1)}
    BY DEF KeptExact
  <2>1. datasets \in Seq(Whole)
    BY DEF EncoderInv, EncInv, EncTypes
  <2>2. datasets[i] \in Whole
    BY <2>1
  <2> QED BY <2>2 DEF Whole, Part
<1> QED BY <1>1, EncoderInvariant, PTL

-----------------------------------------------------------------------------
(* What becomes of each series, strays or not.                              *)

IsSequence(s) == \E S : s \in Seq(S)

Settled == Kept \cup closed \cup dropped

AccountTypes ==
  /\ feed \in Feeds /\ pos \in 0 .. Len(feed) /\ (at # "idle" => pos # 0)
  /\ IsSequence(datasets)
  /\ Encoding => encoder = [series |-> encoder.series, total |-> encoder.total,
                            received |-> encoder.received, got |-> encoder.got]

\* The series begun are those that were settled, and the one being encoded.
BegunInv ==
  at # "failed" =>
    /\ Begun = Settled \cup (IF Encoding THEN {encoder.series} ELSE {})
    /\ Encoding => encoder.series \notin Settled

\* The kept ones are the latest, in order, and the one being encoded is later.
LatestInv ==
  /\ \A i, j \in 1 .. Len(datasets) : i < j => datasets[i].series < datasets[j].series
  /\ \A i \in 1 .. Len(datasets) : \A c \in closed : c < datasets[i].series
  /\ Encoding => \A s \in Kept \cup closed : s < encoder.series

OnceInv ==
  /\ (Kept \cup closed) \cap dropped = {}
  /\ Keep # 0 => Len(datasets) <= Keep

AccountInv == AccountTypes /\ AtInv /\ BegunInv /\ LatestInv /\ OnceInv

LEMMA AccountFeed ==
  ASSUME FeedsOrdered, AccountTypes
  PROVE  /\ Len(feed) \in Nat /\ pos \in Nat /\ pos <= Len(feed)
         /\ \A p \in 1 .. Len(feed) : feed[p].series \in Nat \ {0}
         /\ Begun \subseteq Nat \ {0}
<1>1. Len(feed) \in Nat /\ pos \in Nat /\ pos <= Len(feed)
  BY DEF FeedsOrdered, AccountTypes
<1>2. \A p \in 1 .. Len(feed) : feed[p].series \in Nat \ {0}
  BY DEF FeedsOrdered, AccountTypes
<1>3. 1 .. (IF Beginning THEN pos - 1 ELSE pos) \subseteq 1 .. Len(feed)
  BY <1>1
<1> QED BY <1>1, <1>2, <1>3 DEF Begun

LEMMA AccountInit == FeedsOrdered /\ Init => AccountInv
<1> SUFFICES ASSUME FeedsOrdered, Init PROVE AccountInv
  OBVIOUS
<1>1. /\ feed \in Feeds /\ pos = 0 /\ at = "idle" /\ encoder = NoSeries
      /\ datasets = <<>> /\ closed = {} /\ dropped = {}
  BY DEF Init
<1>2. Len(feed) \in Nat /\ ~Encoding
  BY <1>1 DEF FeedsOrdered, Encoding
<1>3. Len(datasets) = 0 /\ Kept = {}
  BY <1>1 DEF Kept
<1>4. AccountTypes
  <2>1. datasets \in Seq(Nat)
    BY <1>1
  <2> QED BY <1>1, <1>2, <2>1 DEF AccountTypes, IsSequence
<1>5. Begun = {}
  <2>1. 1 .. (IF Beginning THEN pos - 1 ELSE pos) = {}
    BY <1>1
  <2> QED BY <2>1 DEF Begun
<1>6. AtInv
  BY <1>1 DEF AtInv
<1>7. OnceInv
  BY <1>1, <1>3, EncoderAssumption DEF OnceInv
<1> QED
  BY <1>1, <1>2, <1>3, <1>4, <1>5, <1>6, <1>7 DEF AccountInv, BegunInv, LatestInv, Settled

\* Most steps leave alone what becomes of the series.
LEMMA AccountFrame ==
  ASSUME AccountInv, AtInv', feed' = feed, pos' = pos, Batch' = Batch, at' # "idle" => pos # 0,
         datasets' = datasets, closed' = closed, dropped' = dropped,
         Encoding' <=> Encoding, encoder'.series = encoder.series,
         Encoding' => encoder' = [series |-> encoder'.series, total |-> encoder'.total,
                                  received |-> encoder'.received, got |-> encoder'.got],
         Beginning' <=> Beginning, at' = "failed" <=> at = "failed"
  PROVE  AccountInv'
<1>1. Begun' = Begun /\ Kept' = Kept /\ Settled' = Settled
  BY DEF Begun, Kept, Settled
<1>2. AccountTypes'
  BY DEF AccountInv, AccountTypes, IsSequence
<1>3. BegunInv'
  BY <1>1 DEF AccountInv, BegunInv
<1>4. LatestInv' /\ OnceInv'
  BY <1>1 DEF AccountInv, LatestInv, OnceInv
<1> QED BY <1>2, <1>3, <1>4 DEF AccountInv

LEMMA TakeAccounts ==
  ASSUME FeedsOrdered, AccountInv, NEW st \in Streams, Take(st)
  PROVE  AccountInv'
<1>1. /\ at = "idle" /\ pos < Len(feed) /\ pos' = pos + 1
      /\ at' \in {"failed", "begin", "end", "idle", "add"}
      /\ feed' = feed /\ encoder' = encoder /\ datasets' = datasets
      /\ closed' = closed /\ dropped' = dropped
  BY DEF Take, Superseded, sink
<1>2. AccountTypes /\ AtInv /\ BegunInv /\ LatestInv /\ OnceInv /\ Len(feed) \in Nat /\ pos \in Nat
  BY AccountFeed DEF AccountInv
<1>3. (Encoding' <=> Encoding) /\ Kept' = Kept /\ Settled' = Settled
  BY <1>1 DEF Encoding, Kept, Settled
<1>4. pos' \in 1 .. Len(feed) /\ Batch' = feed[pos + 1]
  BY <1>1, <1>2 DEF Batch
<1>5. at' = IF Raises(feed[pos + 1]) THEN "failed"
            ELSE CASE feed[pos + 1].kind = "start"  -> Superseded
                   [] feed[pos + 1].kind = "images" -> IF encoder = NoSeries THEN "idle" ELSE "add"
                   [] OTHER                         -> IF encoder = NoSeries THEN "idle" ELSE "end"
  BY DEF Take
<1>6. CASE Raises(feed[pos + 1])
  <2>1. at' = "failed"
    BY <1>5, <1>6
  <2>2. AtInv' /\ BegunInv'
    BY <2>1 DEF AtInv, BegunInv
  <2>3. AccountTypes' /\ LatestInv' /\ OnceInv'
    BY <1>1, <1>2, <1>3, <1>4 DEF AccountTypes, LatestInv, OnceInv, IsSequence
  <2> QED BY <2>2, <2>3 DEF AccountInv
<1>7. CASE ~Raises(feed[pos + 1])
  <2>1. AtInv' /\ at' # "failed" /\ (Beginning' <=> feed[pos + 1].kind = "start")
    <3>1. CASE feed[pos + 1].kind = "start"
      <4>1. at' = Superseded
        BY <1>5, <1>7, <3>1
      <4> QED BY <1>3, <1>4, <3>1, <4>1 DEF AtInv, Superseded, Encoding, Beginning
    <3>2. CASE feed[pos + 1].kind = "images"
      <4>1. at' = IF encoder = NoSeries THEN "idle" ELSE "add"
        BY <1>5, <1>7, <3>2
      <4> QED BY <1>3, <1>4, <3>2, <4>1 DEF AtInv, Encoding, Beginning
    <3>3. CASE feed[pos + 1].kind \notin {"start", "images"}
      <4>1. at' = IF encoder = NoSeries THEN "idle" ELSE "end"
        BY <1>5, <1>7, <3>3
      <4> QED BY <1>3, <1>4, <3>3, <4>1 DEF AtInv, Encoding, Beginning
    <3> QED BY <3>1, <3>2, <3>3
  <2>2. Begun = {feed[p].series : p \in {q \in 1 .. pos : feed[q].kind = "start"}}
    BY <1>1 DEF Begun, Beginning
  <2>3. {q \in 1 .. (IF Beginning' THEN pos' - 1 ELSE pos') : feed[q].kind = "start"}
          = {q \in 1 .. pos : feed[q].kind = "start"}
    <3>1. CASE feed[pos + 1].kind = "start"
      BY <1>1, <1>2, <2>1, <3>1
    <3>2. CASE feed[pos + 1].kind # "start"
      <4>1. 1 .. pos' = 1 .. pos \cup {pos + 1}
        BY <1>1, <1>2
      <4> QED BY <2>1, <3>2, <4>1
    <3> QED BY <3>1, <3>2
  <2>4. Begun' = Begun
    BY <1>1, <2>2, <2>3 DEF Begun
  <2>5. BegunInv'
    BY <1>1, <1>2, <1>3, <2>4 DEF BegunInv
  <2>6. AccountTypes' /\ LatestInv' /\ OnceInv'
    BY <1>1, <1>2, <1>3, <1>4 DEF AccountTypes, LatestInv, OnceInv, IsSequence
  <2> QED BY <2>1, <2>5, <2>6 DEF AccountInv
<1> QED BY <1>6, <1>7

\* A series that begins is later than all that were begun.
LEMMA BeginAccounts ==
  ASSUME FeedsOrdered, SeriesRise, AccountInv, Begin
  PROVE  AccountInv'
<1>1. /\ at = "begin" /\ at' = "idle" /\ feed' = feed /\ pos' = pos
      /\ encoder' = [series |-> Batch.series, total |-> Positions(Batch), received |-> 0, got |-> {}]
      /\ datasets' = datasets /\ closed' = closed /\ dropped' = dropped
  BY DEF Begin, sink
<1>2. AccountTypes /\ AtInv /\ BegunInv /\ LatestInv /\ OnceInv /\ Len(feed) \in Nat /\ pos \in Nat
  BY AccountFeed DEF AccountInv
<1>3. pos \in 1 .. Len(feed) /\ Batch = feed[pos] /\ Batch.kind = "start" /\ Batch.series \in Nat \ {0}
      /\ ~Encoding /\ feed \in Feeds
  BY <1>1, <1>2, AccountFeed DEF AccountTypes, AtInv, Batch
<1>4. /\ encoder' = [series |-> encoder'.series, total |-> encoder'.total,
                     received |-> encoder'.received, got |-> encoder'.got]
      /\ encoder'.series = Batch.series /\ Encoding'
  <2>1. encoder'.series = Batch.series
    BY <1>1
  <2>2. encoder' # NoSeries /\ NoSeries' = NoSeries
    BY <1>3, <2>1, NumberedEncodes DEF NoSeries
  <2>3. encoder' = [series |-> encoder'.series, total |-> encoder'.total,
                    received |-> encoder'.received, got |-> encoder'.got]
    BY <1>1
  <2> QED BY <2>1, <2>2, <2>3 DEF Encoding
<1>5. Begun = {feed[p].series : p \in {q \in 1 .. pos - 1 : feed[q].kind = "start"}}
  BY <1>1 DEF Begun, Beginning
<1>6. Begun' = Begun \cup {Batch.series}
  <2>1. Begun' = {feed[p].series : p \in {q \in 1 .. pos : feed[q].kind = "start"}}
    BY <1>1 DEF Begun, Beginning
  <2>2. {q \in 1 .. pos : feed[q].kind = "start"}
          = {q \in 1 .. pos - 1 : feed[q].kind = "start"} \cup {pos}
    BY <1>2, <1>3
  <2> QED BY <1>3, <1>5, <2>1, <2>2
<1>7. \A s \in Begun : s < Batch.series
  <2> SUFFICES ASSUME NEW p \in 1 .. pos - 1, feed[p].kind = "start"
               PROVE  feed[p].series < feed[pos].series
    BY <1>3, <1>5
  <2>1. p \in 1 .. Len(feed) /\ p < pos
    BY <1>2, <1>3
  <2> QED BY <1>3, <2>1 DEF SeriesRise
<1>8. Kept' = Kept /\ Settled' = Settled /\ Begun = Settled
  BY <1>1, <1>2, <1>3 DEF Kept, Settled, BegunInv
<1>9. Batch.series \notin Settled
  BY <1>3, <1>7, <1>8
<1>10. AccountTypes'
  BY <1>1, <1>2, <1>4 DEF AccountTypes, IsSequence
<1>11. AtInv'
  BY <1>1 DEF AtInv
<1>12. BegunInv'
  BY <1>4, <1>6, <1>8, <1>9 DEF BegunInv
<1>13. LatestInv'
  <2>1. \A s \in Kept \cup closed : s < Batch.series
    BY <1>7, <1>8 DEF Settled
  <2> QED BY <1>1, <1>2, <1>4, <1>8, <2>1 DEF LatestInv
<1>14. OnceInv'
  BY <1>1, <1>2, <1>8 DEF OnceInv
<1> QED BY <1>10, <1>11, <1>12, <1>13, <1>14 DEF AccountInv

LEMMA DropAccounts ==
  ASSUME FeedsOrdered, AccountInv, Drop
  PROVE  AccountInv'
<1>1. /\ at = "add" /\ at' = "idle" /\ feed' = feed /\ pos' = pos /\ encoder' = NoSeries
      /\ datasets' = datasets /\ closed' = closed /\ dropped' = dropped \cup {encoder.series}
  BY DEF Drop
<1>2. AccountTypes /\ AtInv /\ BegunInv /\ LatestInv /\ OnceInv
  BY DEF AccountInv
<1>3. Encoding /\ ~Encoding' /\ Kept' = Kept /\ Begun' = Begun
  BY <1>1, <1>2 DEF AtInv, Encoding, NoSeries, Kept, Begun, Beginning
<1>4. AccountTypes'
  BY <1>1, <1>2, <1>3 DEF AccountTypes, IsSequence
<1>5. AtInv'
  BY <1>1 DEF AtInv
<1>6. BegunInv'
  BY <1>1, <1>2, <1>3 DEF BegunInv, Settled
<1>7. LatestInv'
  BY <1>1, <1>2, <1>3 DEF LatestInv
<1>8. OnceInv'
  BY <1>1, <1>2, <1>3 DEF OnceInv, BegunInv, Settled
<1> QED BY <1>4, <1>5, <1>6, <1>7, <1>8 DEF AccountInv

\* A complete series is kept, for the oldest that no longer fit.
LEMMA CompleteAccounts ==
  ASSUME FeedsOrdered, AccountInv, Complete
  PROVE  AccountInv'
<1> DEFINE all == Append(datasets, encoder)
           over == IF Keep = 0 \/ Len(all) <= Keep THEN 0 ELSE Len(all) - Keep
<1>1. /\ at = "end" /\ encoder' = NoSeries
      /\ at' = IF Batch.kind = "start" THEN "begin" ELSE "idle"
      /\ feed' = feed /\ pos' = pos
      /\ encoder.received = encoder.total =>
           /\ datasets' = SubSeq(all, over + 1, Len(all))
           /\ closed' = closed \cup {all[i].series : i \in 1 .. over}
           /\ dropped' = dropped
      /\ encoder.received # encoder.total =>
           datasets' = datasets /\ closed' = closed /\ dropped' = dropped \cup {encoder.series}
  BY DEF Complete
<1>2. AccountTypes /\ AtInv /\ BegunInv /\ LatestInv /\ OnceInv
  BY DEF AccountInv
<1>3. Encoding /\ ~Encoding' /\ Batch' = Batch
  BY <1>1, <1>2 DEF AtInv, Encoding, NoSeries, Batch
<1>4. Begun' = Begun
  BY <1>1, <1>3 DEF Begun, Beginning
<1>5. AtInv'
  BY <1>1, <1>3 DEF AtInv
<1>6. CASE encoder.received # encoder.total
  <2>1. Kept' = Kept
    BY <1>1, <1>6 DEF Kept
  <2>2. AccountTypes'
    BY <1>1, <1>2, <1>3, <1>6 DEF AccountTypes, IsSequence
  <2>3. BegunInv'
    BY <1>1, <1>2, <1>3, <1>4, <1>6, <2>1 DEF BegunInv, Settled
  <2>4. LatestInv'
    BY <1>1, <1>2, <1>3, <1>6, <2>1 DEF LatestInv
  <2>5. OnceInv'
    BY <1>1, <1>2, <1>3, <1>6, <2>1 DEF OnceInv, BegunInv, Settled
  <2> QED BY <1>5, <2>2, <2>3, <2>4, <2>5 DEF AccountInv
<1>7. CASE encoder.received = encoder.total
  <2> DEFINE n == Len(datasets)
  <2>1. PICK S : datasets \in Seq(S)
    BY <1>2 DEF AccountTypes, IsSequence
  <2>2. datasets \in Seq(S \cup {encoder}) /\ n \in Nat
    BY <2>1
  <2>3. /\ all \in Seq(S \cup {encoder}) /\ Len(all) = n + 1 /\ all[n + 1] = encoder
        /\ \A i \in 1 .. n : all[i] = datasets[i]
    BY <2>2, AppendProperties
  <2>4. /\ over \in 0 .. n + 1 /\ (Keep # 0 => n + 1 - over <= Keep)
    BY <2>2, <2>3, EncoderAssumption
  <2> HIDE DEF all, over, n
  <2>5. /\ datasets' \in Seq(S \cup {encoder}) /\ Len(datasets') = n + 1 - over
        /\ \A i \in 1 .. n + 1 - over : datasets'[i] = all[over + i]
    <3> DEFINE T  == S \cup {encoder}
               lo == over + 1
               hi == n + 1
    <3>1. lo \in Int /\ hi \in Int /\ \A i \in lo .. hi : all[i] \in T
      BY <2>2, <2>3, <2>4
    <3>2. /\ (IF lo <= hi THEN hi - lo + 1 ELSE 0) = n + 1 - over
          /\ hi - lo + 1 = n + 1 - over
          /\ \A i \in 1 .. n + 1 - over : lo + i - 1 = over + i
      BY <2>2, <2>4
    <3>3. datasets' = SubSeq(all, lo, hi)
      BY <1>1, <1>7, <2>3 DEF all, over
    <3> HIDE DEF T, lo, hi
    <3>4. /\ SubSeq(all, lo, hi) \in Seq(T)
          /\ Len(SubSeq(all, lo, hi)) = (IF lo <= hi THEN hi - lo + 1 ELSE 0)
          /\ \A i \in 1 .. hi - lo + 1 : SubSeq(all, lo, hi)[i] = all[lo + i - 1]
      BY <3>1, SubSeqProperties
    <3>5. datasets' \in Seq(T)
      BY <3>3, <3>4
    <3>6. Len(datasets') = n + 1 - over
      BY <3>2, <3>3, <3>4
    <3>7. \A i \in 1 .. n + 1 - over : datasets'[i] = all[over + i]
      BY <3>2, <3>3, <3>4
    <3> QED BY <3>5, <3>6, <3>7 DEF T
  <2>6. closed' = closed \cup {all[i].series : i \in 1 .. over} /\ dropped' = dropped
    BY <1>1, <1>7 DEF all, over
  <2>7. Kept = {all[i].series : i \in 1 .. n}
    <3>1. DOMAIN datasets = 1 .. n
      BY <2>1 DEF n
    <3> QED BY <2>3, <3>1 DEF Kept
  <2>8. Kept' = {all[i].series : i \in over + 1 .. n + 1}
    <3>1. DOMAIN datasets' = 1 .. n + 1 - over
      BY <2>5
    <3>2. \A i \in 1 .. n + 1 - over : over + i \in over + 1 .. n + 1
      BY <2>2, <2>4
    <3>3. \A i \in over + 1 .. n + 1 : i - over \in 1 .. n + 1 - over /\ over + (i - over) = i
      BY <2>2, <2>4
    <3>4. Kept' = {datasets'[i].series : i \in 1 .. n + 1 - over}
      BY <3>1 DEF Kept
    <3>5. \A i \in over + 1 .. n + 1 : all[i] = datasets'[i - over]
      BY <2>5, <3>3
    <3> QED BY <2>5, <3>2, <3>3, <3>4, <3>5
  <2>9. Kept' \cup closed' = Kept \cup closed \cup {encoder.series}
    <3>1. 1 .. over \cup (over + 1 .. n + 1) = 1 .. n \cup {n + 1}
      BY <2>2, <2>4
    <3>2. all[n + 1].series = encoder.series
      BY <2>3
    <3>3. Kept' \cup closed' = closed \cup {all[i].series : i \in 1 .. n \cup {n + 1}}
      BY <2>6, <2>8, <3>1
    <3> QED BY <2>7, <3>2, <3>3
  <2>10. \A i, j \in 1 .. n + 1 : i < j => all[i].series < all[j].series
    <3> SUFFICES ASSUME NEW i \in 1 .. n + 1, NEW j \in 1 .. n + 1, i < j
                 PROVE  all[i].series < all[j].series
      OBVIOUS
    <3>1. i \in 1 .. n
      BY <2>2
    <3>2. CASE j \in 1 .. n
      BY <1>2, <2>3, <3>1, <3>2 DEF LatestInv, n
    <3>3. CASE j = n + 1
      <4>1. all[i].series \in Kept
        BY <2>7, <3>1
      <4>2. all[i].series < encoder.series
        BY <1>2, <1>3, <4>1 DEF LatestInv
      <4> QED BY <2>3, <3>3, <4>2
    <3> QED BY <2>2, <3>2, <3>3
  <2>11. \A c \in closed : \A i \in 1 .. n + 1 : c < all[i].series
    <3> SUFFICES ASSUME NEW c \in closed, NEW i \in 1 .. n + 1 PROVE c < all[i].series
      OBVIOUS
    <3>1. CASE i \in 1 .. n
      BY <1>2, <2>3, <3>1 DEF LatestInv, n
    <3>2. CASE i = n + 1
      BY <1>2, <1>3, <2>3, <3>2 DEF LatestInv
    <3> QED BY <2>2, <3>1, <3>2
  <2>12. AccountTypes'
    <3>1. IsSequence(datasets)'
      BY <2>5 DEF IsSequence
    <3> QED BY <1>1, <1>2, <1>3, <3>1 DEF AccountTypes
  <2>13. Settled' = Settled \cup {encoder.series}
    BY <2>6, <2>9 DEF Settled
  <2>14. BegunInv'
    BY <1>1, <1>2, <1>3, <1>4, <2>13 DEF BegunInv
  <2>15. LatestInv'
    <3>1. ASSUME NEW i \in 1 .. Len(datasets'), NEW j \in 1 .. Len(datasets'), i < j
          PROVE  datasets'[i].series < datasets'[j].series
      <4>1. over + i \in 1 .. n + 1 /\ over + j \in 1 .. n + 1 /\ over + i < over + j
            /\ datasets'[i] = all[over + i] /\ datasets'[j] = all[over + j]
        BY <2>2, <2>4, <2>5, <3>1
      <4> QED BY <2>10, <4>1
    <3>2. ASSUME NEW i \in 1 .. Len(datasets'), NEW c \in closed'
          PROVE  c < datasets'[i].series
      <4>1. over + i \in 1 .. n + 1 /\ datasets'[i] = all[over + i]
        BY <2>2, <2>4, <2>5
      <4>2. CASE c \in closed
        BY <2>11, <4>1, <4>2
      <4>3. CASE c \notin closed
        <5>1. PICK m \in 1 .. over : c = all[m].series
          BY <2>6, <4>3
        <5>2. m \in 1 .. n + 1 /\ m < over + i
          BY <2>2, <2>4, <2>5
        <5> QED BY <2>10, <4>1, <5>1, <5>2
      <4> QED BY <4>2, <4>3
    <3> QED BY <1>3, <3>1, <3>2 DEF LatestInv
  <2>16. OnceInv'
    <3>1. encoder.series \notin dropped
      BY <1>1, <1>2, <1>3 DEF BegunInv, Settled
    <3>2. (Kept' \cup closed') \cap dropped' = {}
      BY <1>2, <2>6, <2>9, <3>1 DEF OnceInv
    <3> QED BY <2>4, <2>5, <3>2 DEF OnceInv
  <2> QED BY <1>5, <2>12, <2>14, <2>15, <2>16 DEF AccountInv
<1> QED BY <1>6, <1>7

\* The other steps change neither the series being encoded nor what became of those before it.
LEMMA OthersAccount ==
  ASSUME AccountInv, Add \/ Copy \/ Copied \/ \E st \in Streams : Run(st)
  PROVE  AccountInv'
<1>1. /\ feed' = feed /\ pos' = pos /\ encoder' = encoder
      /\ datasets' = datasets /\ closed' = closed /\ dropped' = dropped
      /\ \/ at = "add" /\ at' = "copy"
         \/ at = "copy" /\ at' \in {"copy", "full", "idle"}
         \/ at' = at
  BY DEF Add, Copy, Copied, Run, host, ids, sink
<1>2. (Encoding' <=> Encoding) /\ Batch' = Batch
  BY <1>1 DEF Encoding, Batch
<1>3. AtInv'
  BY <1>1, <1>2 DEF AccountInv, AtInv
<1>4. (Beginning' <=> Beginning) /\ (at' = "failed" <=> at = "failed")
  BY <1>1, <1>2 DEF Beginning
<1>5. at' # "idle" => pos # 0
  BY <1>1 DEF AccountInv, AccountTypes
<1>6. Encoding => encoder = [series |-> encoder.series, total |-> encoder.total,
                             received |-> encoder.received, got |-> encoder.got]
  BY DEF AccountInv, AccountTypes
<1> QED BY <1>1, <1>2, <1>3, <1>4, <1>5, <1>6, AccountFrame

LEMMA EncodeAccounts ==
  ASSUME FeedsOrdered, AccountInv, Encode
  PROVE  AccountInv'
<1> DEFINE new == {<<first + i - 1, staging[i]>> : i \in 1 .. staged}
<1>1. /\ at = "full" \/ at = "end"
      /\ encoder' = [encoder EXCEPT !.received = @ + staged, !.got = @ \cup new]
      /\ at' = IF at = "full" THEN "copy" ELSE "end"
      /\ feed' = feed /\ pos' = pos /\ datasets' = datasets /\ closed' = closed /\ dropped' = dropped
  BY DEF Encode, sink
<1> HIDE DEF new
<1>2. AccountTypes /\ AtInv /\ BegunInv
  BY DEF AccountInv
<1>3. Encoding /\ Batch' = Batch
  BY <1>1, <1>2 DEF AtInv, Batch
<1>4. PICK s, t, r, g : s = encoder.series /\ t = encoder.total /\ r = encoder.received
                        /\ g = encoder.got
  OBVIOUS
<1>5. encoder \in [series : {s}, total : {t}, received : {r}, got : {g}]
  <2>1. encoder = [series |-> s, total |-> t, received |-> r, got |-> g]
    BY <1>2, <1>3, <1>4, Zenon DEF AccountTypes
  <2> QED BY <2>1
<1>6. encoder' \in [series : {s}, total : {t}, received : {r + staged}, got : {g \cup new}]
  BY <1>1, <1>5
<1>7. /\ encoder' = [series |-> encoder'.series, total |-> encoder'.total,
                     received |-> encoder'.received, got |-> encoder'.got]
      /\ encoder'.series = s
  BY <1>6
<1>8. s \in Nat \ {0}
  <2>1. s \in Begun
    BY <1>1, <1>2, <1>3, <1>4 DEF BegunInv
  <2> QED BY <1>2, <2>1, AccountFeed
<1>9. Encoding'
  <2>1. encoder' # NoSeries /\ NoSeries' = NoSeries
    BY <1>7, <1>8, NumberedEncodes DEF NoSeries
  <2> QED BY <2>1 DEF Encoding
<1>10. AtInv'
  BY <1>1, <1>2, <1>3, <1>9 DEF AtInv
<1>11. (Beginning' <=> Beginning) /\ at' # "failed" /\ at # "failed" /\ pos # 0
  BY <1>1, <1>2, <1>3 DEF Beginning, AccountTypes
<1> QED BY <1>1, <1>3, <1>4, <1>7, <1>9, <1>10, <1>11, AccountFrame

LEMMA AccountNext ==
  ASSUME FeedsOrdered, SeriesRise, AccountInv, [Next]_vars
  PROVE  AccountInv'
<1>1. CASE Begin BY <1>1, BeginAccounts
<1>2. CASE Drop BY <1>2, DropAccounts
<1>3. CASE Encode BY <1>3, EncodeAccounts
<1>4. CASE Complete BY <1>4, CompleteAccounts
<1>5. CASE \E st \in Streams : Take(st) BY <1>5, TakeAccounts
<1>6. CASE Add \/ Copy \/ Copied \/ \E st \in Streams : Run(st) BY <1>6, OthersAccount
<1>7. CASE UNCHANGED vars
  <2>1. /\ feed' = feed /\ pos' = pos /\ at' = at /\ encoder' = encoder
        /\ datasets' = datasets /\ closed' = closed /\ dropped' = dropped
    BY <1>7 DEF vars, host, sink
  <2>2. (Encoding' <=> Encoding) /\ Batch' = Batch
    BY <2>1 DEF Encoding, Batch
  <2>3. AtInv' /\ (Beginning' <=> Beginning)
    BY <2>1, <2>2 DEF AccountInv, AtInv, Beginning
  <2>4. /\ at' # "idle" => pos # 0
        /\ Encoding => encoder = [series |-> encoder.series, total |-> encoder.total,
                                  received |-> encoder.received, got |-> encoder.got]
    BY <2>1 DEF AccountInv, AccountTypes
  <2> QED BY <2>1, <2>2, <2>3, <2>4, AccountFrame
<1> QED BY <1>1, <1>2, <1>3, <1>4, <1>5, <1>6, <1>7 DEF Next

\* Every series that was begun is being encoded, kept, closed for later ones or dropped, and
\* one of these only; no more are kept than allowed, and they are the latest, whatever the
\* batches before were and wherever they failed (ans_encoding.py: start, end, _drop, complete).
THEOREM SeriesAreAccounted ==
  FeedsOrdered /\ SeriesRise => (ConsumersSpec => []SeriesAccounted)
<1> SUFFICES ASSUME FeedsOrdered, SeriesRise PROVE ConsumersSpec => []SeriesAccounted
  OBVIOUS
<1>1. ConsumersInit => AccountInv
  BY AccountInit DEF ConsumersInit
<1>2. AccountInv /\ [ConsumersNext]_allVars => AccountInv'
  <2> SUFFICES ASSUME AccountInv, [ConsumersNext]_allVars PROVE AccountInv'
    OBVIOUS
  <2>1. [Next]_vars
    BY DEF ConsumersNext, Encodes, Detects, allVars
  <2> QED BY <2>1, AccountNext
<1>3. AccountInv => SeriesAccounted
  <2> SUFFICES ASSUME AccountInv PROVE SeriesAccounted
    OBVIOUS
  <2>1. AccountTypes /\ BegunInv /\ LatestInv /\ OnceInv
    BY DEF AccountInv
  <2>2. \A k \in Kept, c \in closed : c < k
    <3>1. PICK S : datasets \in Seq(S)
      BY <2>1 DEF AccountTypes, IsSequence
    <3>2. DOMAIN datasets = 1 .. Len(datasets)
      BY <3>1
    <3> QED BY <2>1, <3>2 DEF LatestInv, Kept
  <2>3. ASSUME at = "idle"
        PROVE  {feed[i].series : i \in {j \in 1 .. pos : feed[j].kind = "start"}}
                 = Kept \cup closed \cup dropped \cup ({encoder.series} \ {0})
    <3>1. Begun = {feed[i].series : i \in {j \in 1 .. pos : feed[j].kind = "start"}}
      BY <2>3 DEF Begun, Beginning
    <3>2. Begun = Settled \cup (IF Encoding THEN {encoder.series} ELSE {})
      BY <2>1, <2>3 DEF BegunInv
    <3>3. (IF Encoding THEN {encoder.series} ELSE {}) = {encoder.series} \ {0}
      <4>1. CASE Encoding
        <5>1. encoder.series \in Begun
          BY <3>2, <4>1
        <5>2. encoder.series # 0
          BY <2>1, <5>1, AccountFeed
        <5> QED BY <4>1, <5>2
      <4>2. CASE ~Encoding
        BY <4>2 DEF Encoding, NoSeries
      <4> QED BY <4>1, <4>2
    <3> QED BY <3>1, <3>2, <3>3 DEF Settled
  <2> QED BY <2>1, <2>2, <2>3 DEF SeriesAccounted, OnceInv
<1> QED BY <1>1, <1>2, <1>3, PTL DEF ConsumersSpec

-----------------------------------------------------------------------------
(* The ids of a series: counting those inside the scan.                     *)

\* A function that tells the elements of a finite set apart has as many values.
LEMMA AsMany ==
  ASSUME NEW A, IsFiniteSet(A), NEW f, \A x, y \in A : f[x] = f[y] => x = y
  PROVE  IsFiniteSet({f[x] : x \in A}) /\ Cardinality({f[x] : x \in A}) = Cardinality(A)
<1> DEFINE T == {f[x] : x \in A}
           g == [x \in A |-> f[x]]
<1>1. g \in [A -> T] /\ \A x \in A : g[x] = f[x]
  OBVIOUS
<1>2. \A x, y \in A : g[x] = g[y] => x = y
  BY <1>1
<1>3. \A t \in T : \E x \in A : g[x] = t
  BY <1>1
<1> HIDE DEF g, T
<1>4. g \in Bijection(A, T)
  <2>1. g \in Injection(A, T)
    BY <1>1, <1>2 DEF Injection, IsInjective
  <2>2. g \in Surjection(A, T)
    BY <1>1, <1>3 DEF Surjection
  <2> QED BY <2>1, <2>2 DEF Bijection
<1>5. IsFiniteSet(T) /\ Cardinality(T) = Cardinality(A)
  BY <1>4, FS_Bijection DEF ExistsBijection
<1> QED
  BY <1>5 DEF T

\* Sets that have nothing in common.
LEMMA Together ==
  ASSUME NEW A, NEW B, IsFiniteSet(A), IsFiniteSet(B), A \cap B = {}
  PROVE  IsFiniteSet(A \cup B) /\ Cardinality(A \cup B) = Cardinality(A) + Cardinality(B)
<1>1. Cardinality(A) \in Nat /\ Cardinality(B) \in Nat /\ Cardinality({}) = 0
  BY FS_CardinalityType, FS_EmptySet
<1>2. Cardinality(A \cap B) = 0
  BY <1>1
<1>3. /\ IsFiniteSet(A \cup B)
      /\ Cardinality(A \cup B) = Cardinality(A) + Cardinality(B) - Cardinality(A \cap B)
  BY FS_Union
<1> QED
  BY <1>1, <1>2, <1>3

\* The places of an ascending batch and its ids.
LEMMA Climbing ==
  ASSUME NEW is, Ascending(is)
  PROVE  /\ Len(is) \in Nat \ {0} /\ DOMAIN is = 1 .. Len(is)
         /\ \A i \in 1 .. Len(is) : is[i] \in Nat
         /\ Head(is) = is[1] /\ Last(is) = is[Len(is)]
         /\ \A i, k \in 1 .. Len(is) : i < k => is[k] - is[i] >= k - i
         /\ \A i, k \in 1 .. Len(is) : is[i] = is[k] => i = k
         /\ \A i \in 1 .. Len(is) : Head(is) <= is[i] /\ is[i] <= Last(is)
<1> DEFINE n == Len(is)
<1>1. is \in Seq(Nat) /\ is # <<>> /\ \A j \in 1 .. n - 1 : is[j] < is[j + 1]
  BY DEF Ascending
<1>2. n \in Nat \ {0} /\ Head(is) = is[1] /\ Last(is) = is[n] /\ \A j \in 1 .. n : is[j] \in Nat
  BY <1>1, Queue DEF Last
<1>3. DOMAIN is = 1 .. n
  BY <1>1
<1> HIDE DEF n
<1>4. ASSUME NEW i \in 1 .. n, NEW k \in 1 .. n, i < k
      PROVE  is[k] - is[i] >= k - i
  <2>1. k \in i .. n /\ n \in Nat
    BY <1>2, <1>4
  <2> QED BY <2>1, <1>1, <1>2, Apart
<1>5. \A i, k \in 1 .. n : is[i] = is[k] => i = k
  <2> TAKE i, k \in 1 .. n
  <2>1. is[i] \in Nat /\ is[k] \in Nat /\ i \in Nat /\ k \in Nat
    BY <1>2
  <2>2. i < k => is[k] - is[i] >= k - i
    BY <1>4
  <2>3. k < i => is[i] - is[k] >= i - k
    BY <1>4
  <2> QED BY <2>1, <2>2, <2>3
<1>6. \A i \in 1 .. n : is[1] <= is[i] /\ is[i] <= is[n]
  <2> TAKE i \in 1 .. n
  <2>1. is[i] \in Nat /\ is[1] \in Nat /\ is[n] \in Nat /\ i \in Nat /\ 1 \in 1 .. n /\ n \in 1 .. n
    BY <1>2
  <2>2. 1 < i => is[i] - is[1] >= i - 1
    BY <1>4, <2>1
  <2>3. i < n => is[n] - is[i] >= n - i
    BY <1>4, <2>1
  <2> QED BY <2>1, <2>2, <2>3, <1>2
<1> QED
  BY <1>2, <1>3, <1>4, <1>5, <1>6 DEF n

\* The ids of a batch.
Ided(is) == {is[i] : i \in 1 .. Len(is)}

LEMMA IdedFacts ==
  ASSUME NEW is, Ascending(is)
  PROVE  /\ IsFiniteSet(Ided(is)) /\ Cardinality(Ided(is)) = Len(is) /\ Ided(is) \in SUBSET Nat
         /\ \A id \in Ided(is) : Head(is) <= id /\ id <= Last(is)
         /\ Head(is) \in Ided(is) /\ Last(is) \in Ided(is) /\ Head(is) \in Nat /\ Last(is) \in Nat
         /\ Head(is) <= Last(is)
<1>1. /\ Len(is) \in Nat \ {0} /\ \A i \in 1 .. Len(is) : is[i] \in Nat
      /\ \A i, k \in 1 .. Len(is) : is[i] = is[k] => i = k
      /\ \A i \in 1 .. Len(is) : Head(is) <= is[i] /\ is[i] <= Last(is)
      /\ Head(is) = is[1] /\ Last(is) = is[Len(is)]
  BY Climbing
<1>2. IsFiniteSet(1 .. Len(is)) /\ Cardinality(1 .. Len(is)) = Len(is)
  <2>1. Len(is) \in Int /\ 1 \in Int /\ ~(1 > Len(is)) /\ Len(is) - 1 + 1 = Len(is)
    BY <1>1
  <2> QED BY <2>1, FS_Interval
<1>3. IsFiniteSet(Ided(is)) /\ Cardinality(Ided(is)) = Len(is)
  BY <1>1, <1>2, AsMany DEF Ided
<1>4. 1 \in 1 .. Len(is) /\ Len(is) \in 1 .. Len(is)
  BY <1>1
<1> QED
  BY <1>1, <1>3, <1>4 DEF Ided

\* The ids before a batch: below the next one, which follows the last of them.
UpTo(got, next) ==
  /\ next \in Nat /\ IsFiniteSet(got) /\ got \in SUBSET Nat
  /\ \A id \in got : id < next
  /\ next # 0 => next - 1 \in got

\* A batch behind them.
LEMMA BatchUpTo ==
  ASSUME NEW got, NEW next, UpTo(got, next), NEW is, Ascending(is), next <= Head(is)
  PROVE  /\ UpTo(got \cup Ided(is), Last(is) + 1) /\ got \cap Ided(is) = {}
         /\ Cardinality(got \cup Ided(is)) = Cardinality(got) + Len(is)
<1>1. /\ IsFiniteSet(Ided(is)) /\ Cardinality(Ided(is)) = Len(is) /\ Ided(is) \in SUBSET Nat
      /\ \A id \in Ided(is) : Head(is) <= id /\ id <= Last(is)
      /\ Head(is) \in Ided(is) /\ Last(is) \in Ided(is) /\ Head(is) \in Nat /\ Last(is) \in Nat
      /\ Head(is) <= Last(is)
  BY IdedFacts
<1>2. next \in Nat /\ IsFiniteSet(got) /\ got \in SUBSET Nat /\ \A id \in got : id < next
  BY DEF UpTo
<1>3. got \cap Ided(is) = {}
  BY <1>1, <1>2
<1>4. IsFiniteSet(got \cup Ided(is))
      /\ Cardinality(got \cup Ided(is)) = Cardinality(got) + Len(is)
  BY <1>1, <1>2, <1>3, Together
<1>5. \A id \in got \cup Ided(is) : id < Last(is) + 1
  BY <1>1, <1>2
<1>6. Last(is) + 1 \in Nat /\ (Last(is) + 1) - 1 = Last(is)
  BY <1>1
<1> QED
  BY <1>1, <1>2, <1>3, <1>4, <1>5, <1>6 DEF UpTo

\* The images inside a scan of z positions, and their places in a batch.
Inside(got, z) == {id \in got : id < z}
InsideAt(is, z) == {i \in DOMAIN is : is[i] < z}

LEMMA PlacedGrows ==
  ASSUME NEW got, NEW next, UpTo(got, next), NEW is, Ascending(is), next <= Head(is), NEW z
  PROVE  Cardinality(Inside(got \cup Ided(is), z))
           = Cardinality(Inside(got, z)) + Cardinality(InsideAt(is, z))
<1> DEFINE A == {id \in got : id < z}
           I == {i \in DOMAIN is : is[i] < z}
           B == {is[i] : i \in I}
<1>0. A = Inside(got, z) /\ I = InsideAt(is, z)
  BY DEF Inside, InsideAt
<1>1. /\ Len(is) \in Nat \ {0} /\ DOMAIN is = 1 .. Len(is)
      /\ \A i, k \in 1 .. Len(is) : is[i] = is[k] => i = k
  BY Climbing
<1>2. got \cap Ided(is) = {} /\ IsFiniteSet(got)
  BY BatchUpTo DEF UpTo
<1>3. IsFiniteSet(A)
  BY <1>2, FS_Subset
<1>4. IsFiniteSet(I)
  <2>1. IsFiniteSet(1 .. Len(is))
    BY <1>1, FS_Interval
  <2>2. I \in SUBSET (1 .. Len(is))
    BY <1>1
  <2> QED BY <2>1, <2>2, FS_Subset
<1>5. \A x, y \in I : is[x] = is[y] => x = y
  BY <1>1
<1>6. IsFiniteSet(B) /\ Cardinality(B) = Cardinality(I)
  <2> HIDE DEF I
  <2> QED BY <1>4, <1>5, AsMany
<1>7. B = {id \in Ided(is) : id < z}
  BY <1>1 DEF Ided
<1>8. A \cap B = {} /\ Inside(got \cup Ided(is), z) = A \cup B
  BY <1>2, <1>7 DEF Inside
<1>9. Cardinality(A \cup B) = Cardinality(A) + Cardinality(B)
  <2> HIDE DEF A, B
  <2> QED BY <1>3, <1>6, <1>8, Together
<1> HIDE DEF A, B, I
<1> QED
  BY <1>0, <1>6, <1>8, <1>9

-----------------------------------------------------------------------------
(* Counting the gaps.                                                       *)

Gaps(got) == {id \in got : id # 0 /\ id - 1 \notin got}

\* The images that no image comes right before: those of before, the first of the batch if it
\* does not follow, and those behind a jump.
LEMMA GapsGrow ==
  ASSUME NEW got, NEW next, UpTo(got, next), NEW is, Ascending(is), next <= Head(is)
  PROVE  Cardinality(Gaps(got \cup Ided(is)))
           = Cardinality(Gaps(got)) + (IF Head(is) # next THEN 1 ELSE 0)
               + Cardinality(Detector!Jumps(is))
<1> DEFINE J == Detector!Jumps(is)
           B == {is[i + 1] : i \in J}
           H == IF Head(is) # next THEN {Head(is)} ELSE {}
           all == got \cup Ided(is)
<1>1. /\ Len(is) \in Nat \ {0} /\ DOMAIN is = 1 .. Len(is)
      /\ \A i \in 1 .. Len(is) : is[i] \in Nat
      /\ \A i, k \in 1 .. Len(is) : i < k => is[k] - is[i] >= k - i
      /\ \A i, k \in 1 .. Len(is) : is[i] = is[k] => i = k
      /\ \A i \in 1 .. Len(is) : Head(is) <= is[i] /\ is[i] <= Last(is)
      /\ Head(is) = is[1] /\ Last(is) = is[Len(is)]
  BY Climbing
<1>2. /\ next \in Nat /\ IsFiniteSet(got) /\ got \in SUBSET Nat /\ \A id \in got : id < next
      /\ next # 0 => next - 1 \in got
  BY DEF UpTo
<1>3. J = {i \in 1 .. Len(is) - 1 : is[i + 1] - is[i] # 1}
  BY DEF Detector!Jumps
<1>4. Head(is) \in Nat /\ Ided(is) \in SUBSET Nat
  BY <1>1 DEF Ided
<1>5. Gaps(got) \subseteq Gaps(all)
  <2> SUFFICES ASSUME NEW id \in got, id # 0, id - 1 \notin got PROVE id - 1 \notin Ided(is)
    BY DEF Gaps
  <2>1. id < next /\ id \in Nat
    BY <1>2
  <2>2. \A x \in Ided(is) : next <= x
    BY <1>1, <1>2, <1>4 DEF Ided
  <2> QED BY <2>1, <2>2, <1>2, <1>4
<1>6. H \subseteq Gaps(all)
  <2> SUFFICES ASSUME Head(is) # next PROVE Head(is) \in Gaps(all)
    OBVIOUS
  <2>1. Head(is) \in Ided(is)
    BY <1>1 DEF Ided
  <2>2. Head(is) > next
    BY <1>2, <1>4
  <2>3. Head(is) - 1 \notin got
    BY <1>2, <1>4, <2>2
  <2>4. Head(is) - 1 \notin Ided(is)
    <3>1. \A x \in Ided(is) : Head(is) <= x
      BY <1>1 DEF Ided
    <3> QED BY <3>1, <1>4
  <2> QED BY <2>1, <2>2, <2>3, <2>4, <1>2, <1>4 DEF Gaps
<1>7. B \subseteq Gaps(all)
  <2> SUFFICES ASSUME NEW i \in J PROVE is[i + 1] \in Gaps(all)
    OBVIOUS
  <2>1. i \in 1 .. Len(is) /\ i + 1 \in 1 .. Len(is) /\ is[i + 1] - is[i] # 1 /\ i < i + 1 /\ i \in Nat
    BY <1>1, <1>3
  <2>2. is[i] \in Nat /\ is[i + 1] \in Nat /\ is[i + 1] - is[i] >= (i + 1) - i
    BY <1>1, <2>1
  <2>3. is[i + 1] \in Ided(is)
    BY <2>1 DEF Ided
  <2>4. next <= is[i]
    BY <1>1, <1>2, <1>4, <2>1, <2>2
  <2>5. is[i + 1] # 0 /\ is[i + 1] - 1 > is[i]
    BY <2>1, <2>2
  <2>6. is[i + 1] - 1 \notin got
    BY <1>2, <2>2, <2>4, <2>5
  <2>7. ASSUME NEW k \in 1 .. Len(is), is[i + 1] - 1 = is[k] PROVE FALSE
    <3>1. is[k] \in Nat /\ k \in Nat
      BY <1>1
    <3>2. CASE k < i + 1
      <4>1. k < i \/ k = i
        BY <3>1, <3>2, <2>1
      <4>2. k < i => is[i] - is[k] >= i - k
        BY <1>1, <2>1
      <4> QED BY <4>1, <4>2, <2>5, <2>2, <2>7, <3>1, <2>1
    <3>3. CASE i + 1 < k
      <4>1. is[k] - is[i + 1] >= k - (i + 1)
        BY <1>1, <2>1, <3>3
      <4> QED BY <4>1, <2>2, <2>7, <3>1, <3>3, <2>1
    <3>4. CASE k = i + 1
      BY <3>4, <2>2, <2>7
    <3> QED BY <3>1, <3>2, <3>3, <3>4, <2>1
  <2>8. is[i + 1] - 1 \notin Ided(is)
    BY <2>7 DEF Ided
  <2> QED BY <2>3, <2>5, <2>6, <2>8 DEF Gaps
<1>8. Gaps(all) \subseteq (Gaps(got) \cup H) \cup B
  <2> SUFFICES ASSUME NEW id \in Gaps(all), id \notin Gaps(got), id \notin H PROVE id \in B
    OBVIOUS
  <2>1. id \in all /\ id # 0 /\ id - 1 \notin all
    BY DEF Gaps
  <2>2. id \in Ided(is)
    BY <2>1 DEF Gaps
  <2>3. PICK k \in 1 .. Len(is) : id = is[k]
    BY <2>2 DEF Ided
  <2>4. k # 1
    <3> SUFFICES ASSUME k = 1 PROVE FALSE
      OBVIOUS
    <3>1. id = next
      BY <1>1, <2>3
    <3>2. next - 1 \in got
      BY <1>2, <2>1, <3>1
    <3> QED BY <2>1, <3>1, <3>2
  <2>5. k - 1 \in 1 .. Len(is) - 1 /\ k - 1 \in 1 .. Len(is) /\ (k - 1) + 1 = k
    BY <1>1, <2>4
  <2>6. is[k - 1] \in Ided(is)
    BY <2>5 DEF Ided
  <2>7. is[k] - is[k - 1] # 1
    <3>1. is[k - 1] # is[k] - 1
      BY <2>1, <2>3, <2>6
    <3>2. is[k] \in Nat /\ is[k - 1] \in Nat
      BY <1>1, <2>5
    <3> QED BY <3>1, <3>2
  <2>8. k - 1 \in J
    BY <1>3, <2>5, <2>7
  <2> HIDE DEF J
  <2>9. is[(k - 1) + 1] \in B
    BY <2>8
  <2> QED BY <2>3, <2>5, <2>9
<1>9. IsFiniteSet(J) /\ \A x, y \in J : is[x + 1] = is[y + 1] => x = y
  <2>1. IsFiniteSet(1 .. Len(is))
    BY <1>1, FS_Interval
  <2>2. J \in SUBSET (1 .. Len(is))
    BY <1>1, <1>3
  <2>3. \A x, y \in J : is[x + 1] = is[y + 1] => x = y
    <3> TAKE x, y \in J
    <3>1. x + 1 \in 1 .. Len(is) /\ y + 1 \in 1 .. Len(is) /\ x \in Nat /\ y \in Nat
      BY <1>1, <1>3
    <3>2. is[x + 1] = is[y + 1] => x + 1 = y + 1
      BY <1>1, <3>1
    <3> QED BY <3>1, <3>2
  <2> QED BY <2>1, <2>2, <2>3, FS_Subset
<1>10. IsFiniteSet(B) /\ Cardinality(B) = Cardinality(J)
  <2> DEFINE f == [i \in J |-> is[i + 1]]
             F == {f[i] : i \in J}
  <2>1. \A x, y \in J : f[x] = f[y] => x = y
    BY <1>9
  <2>2. B = F
    OBVIOUS
  <2> HIDE DEF f, J, B
  <2>3. IsFiniteSet(F) /\ Cardinality(F) = Cardinality(J)
    BY <2>1, <1>9, AsMany
  <2> QED BY <2>2, <2>3
<1>11. IsFiniteSet(Gaps(got))
  BY <1>2, FS_Subset DEF Gaps
<1>12. IsFiniteSet(H) /\ Cardinality(H) = IF Head(is) # next THEN 1 ELSE 0
  BY FS_Singleton, FS_EmptySet
<1>13. Gaps(got) \cap H = {} /\ (Gaps(got) \cup H) \cap B = {}
  <2>1. \A id \in Gaps(got) : id < next
    BY <1>2 DEF Gaps
  <2>2. \A id \in H : id = Head(is)
    OBVIOUS
  <2>3. \A id \in B : id > Head(is) /\ id \in Nat
    <3> SUFFICES ASSUME NEW i \in J PROVE is[i + 1] > is[1] /\ is[i + 1] \in Nat
      BY <1>1
    <3>1. i + 1 \in 1 .. Len(is) /\ 1 \in 1 .. Len(is) /\ 1 < i + 1 /\ i \in Nat
      BY <1>1, <1>3
    <3>2. is[i + 1] \in Nat /\ is[1] \in Nat /\ is[i + 1] - is[1] >= (i + 1) - 1
      BY <1>1, <3>1
    <3> QED BY <3>1, <3>2
  <2> HIDE DEF H, B
  <2>4. \A id \in Gaps(got) : id \in Nat
    BY <1>2 DEF Gaps
  <2> QED BY <2>1, <2>2, <2>3, <2>4, <1>2, <1>4
<1>14. Gaps(all) = (Gaps(got) \cup H) \cup B
  BY <1>5, <1>6, <1>7, <1>8
<1> HIDE DEF H, B, J, all
<1>15. /\ IsFiniteSet(Gaps(got) \cup H)
       /\ Cardinality(Gaps(got) \cup H) = Cardinality(Gaps(got)) + Cardinality(H)
  BY <1>11, <1>12, <1>13, Together
<1>16. Cardinality((Gaps(got) \cup H) \cup B) = Cardinality(Gaps(got) \cup H) + Cardinality(B)
  BY <1>10, <1>13, <1>15, Together
<1> QED
  BY <1>10, <1>12, <1>14, <1>15, <1>16 DEF J, all

-----------------------------------------------------------------------------
(* Counting the missing ones.                                               *)

\* The ids that are skipped between the first and the last of a batch.
LEMMA SkippedBetween ==
  ASSUME NEW is, Ascending(is)
  PROVE  /\ IsFiniteSet(Detector!Skipped(is))
         /\ Cardinality(Detector!Skipped(is)) = Cardinality((Head(is) .. Last(is)) \ Ided(is))
<1> DEFINE S == Detector!Skipped(is)
           M == (Head(is) .. Last(is)) \ Ided(is)
<1>1. /\ Len(is) \in Nat \ {0}
      /\ \A i \in 1 .. Len(is) : is[i] \in Nat
      /\ \A i, k \in 1 .. Len(is) : i < k => is[k] - is[i] >= k - i
      /\ \A i \in 1 .. Len(is) : Head(is) <= is[i] /\ is[i] <= Last(is)
      /\ Head(is) = is[1] /\ Last(is) = is[Len(is)]
  BY Climbing
<1>2. \A s \in S : /\ s = <<s[1], s[2]>> /\ s[1] \in 1 .. Len(is) - 1
                   /\ s[2] \in is[s[1]] + 1 .. is[s[1] + 1] - 1
  BY DEF Detector!Skipped, Detector!Skips
<1>3. \A i \in 1 .. Len(is) - 1 : \A m \in is[i] + 1 .. is[i + 1] - 1 : <<i, m>> \in S
  <2> TAKE i \in 1 .. Len(is) - 1
  <2> TAKE m \in is[i] + 1 .. is[i + 1] - 1
  <2>1. i \in 1 .. Len(is) /\ i + 1 \in 1 .. Len(is)
    BY <1>1
  <2>2. is[i] \in Nat /\ is[i + 1] \in Nat
    BY <1>1, <2>1
  <2>3. is[i + 1] > is[i]
    BY <2>2
  <2>4. i \in Detector!Skips(is)
    BY <2>3 DEF Detector!Skips
  <2>5. <<i, m>> \in {i} \X (is[i] + 1 .. is[i + 1] - 1)
    OBVIOUS
  <2> QED BY <2>4, <2>5 DEF Detector!Skipped
<1> HIDE DEF S
<1>4. \A s \in S : /\ s[1] \in 1 .. Len(is) /\ s[1] + 1 \in 1 .. Len(is) /\ s[1] \in Nat
                   /\ is[s[1]] \in Nat /\ is[s[1] + 1] \in Nat /\ s[2] \in Nat
                   /\ is[s[1]] < s[2] /\ s[2] < is[s[1] + 1]
  <2> TAKE s \in S
  <2>1. s[1] \in 1 .. Len(is) - 1 /\ s[2] \in is[s[1]] + 1 .. is[s[1] + 1] - 1
    BY <1>2
  <2>2. s[1] \in 1 .. Len(is) /\ s[1] + 1 \in 1 .. Len(is) /\ s[1] \in Nat
    BY <1>1, <2>1
  <2>3. is[s[1]] \in Nat /\ is[s[1] + 1] \in Nat
    BY <1>1, <2>2
  <2> QED BY <2>1, <2>2, <2>3
<1>5. IsFiniteSet(S)
  <2>1. IsFiniteSet(1 .. Len(is)) /\ IsFiniteSet(0 .. Last(is))
    <3>1. Len(is) \in 1 .. Len(is)
      BY <1>1
    <3>2. Last(is) \in Nat
      BY <1>1, <3>1
    <3>3. 1 \in Int /\ Len(is) \in Int /\ 0 \in Int /\ Last(is) \in Int
      BY <1>1, <3>2
    <3> QED BY <3>3, FS_Interval
  <2>2. S \in SUBSET ((1 .. Len(is)) \X (0 .. Last(is)))
    <3> SUFFICES ASSUME NEW s \in S PROVE s \in (1 .. Len(is)) \X (0 .. Last(is))
      OBVIOUS
    <3>1. s = <<s[1], s[2]>> /\ s[1] \in 1 .. Len(is)
      BY <1>2, <1>4
    <3>2. s[2] \in 0 .. Last(is)
      <4>1. s[2] \in Nat /\ s[2] < is[s[1] + 1] /\ s[1] + 1 \in 1 .. Len(is) /\ is[s[1] + 1] \in Nat
        BY <1>4
      <4>2. is[s[1] + 1] <= Last(is)
        BY <1>1, <4>1
      <4>3. Last(is) \in Nat
        BY <1>1
      <4> QED BY <4>1, <4>2, <4>3
    <3> QED BY <3>1, <3>2
  <2>3. IsFiniteSet((1 .. Len(is)) \X (0 .. Last(is)))
    BY <2>1, FS_Product
  <2> QED BY <2>2, <2>3, FS_Subset
<1> DEFINE f == [s \in S |-> s[2]]
           T == {f[s] : s \in S}
<1>6. \A s, t \in S : f[s] = f[t] => s = t
  <2> SUFFICES ASSUME NEW s \in S, NEW t \in S, s[2] = t[2] PROVE s = t
    OBVIOUS
  <2>1. /\ s = <<s[1], s[2]>> /\ t = <<t[1], t[2]>> /\ s[1] \in Nat /\ t[1] \in Nat
        /\ is[s[1]] \in Nat /\ is[s[1] + 1] \in Nat /\ is[t[1]] \in Nat /\ is[t[1] + 1] \in Nat
        /\ is[s[1]] < s[2] /\ s[2] < is[s[1] + 1] /\ is[t[1]] < t[2] /\ t[2] < is[t[1] + 1]
        /\ s[2] \in Nat /\ t[2] \in Nat
    BY <1>2, <1>4
  <2>2. ~(s[1] < t[1])
    <3> SUFFICES ASSUME s[1] < t[1] PROVE FALSE
      OBVIOUS
    <3>1. s[1] + 1 < t[1] => is[t[1]] - is[s[1] + 1] >= t[1] - (s[1] + 1)
      BY <1>1, <1>4
    <3>2. s[1] + 1 = t[1] \/ s[1] + 1 < t[1]
      BY <2>1
    <3> QED BY <2>1, <3>1, <3>2
  <2>3. ~(t[1] < s[1])
    <3> SUFFICES ASSUME t[1] < s[1] PROVE FALSE
      OBVIOUS
    <3>1. t[1] + 1 < s[1] => is[s[1]] - is[t[1] + 1] >= s[1] - (t[1] + 1)
      BY <1>1, <1>4
    <3>2. t[1] + 1 = s[1] \/ t[1] + 1 < s[1]
      BY <2>1
    <3> QED BY <2>1, <3>1, <3>2
  <2> QED BY <2>1, <2>2, <2>3
<1>7. Cardinality(T) = Cardinality(S)
  <2> HIDE DEF f
  <2> QED BY <1>5, <1>6, AsMany
<1>8. ASSUME NEW s \in S PROVE s[2] \in M
  <2>1. /\ s[1] \in 1 .. Len(is) /\ s[1] + 1 \in 1 .. Len(is) /\ s[1] \in Nat
        /\ is[s[1]] \in Nat /\ is[s[1] + 1] \in Nat /\ s[2] \in Nat
        /\ is[s[1]] < s[2] /\ s[2] < is[s[1] + 1]
    BY <1>4
  <2>2. Head(is) <= is[s[1]] /\ is[s[1] + 1] <= Last(is) /\ Head(is) \in Nat /\ Last(is) \in Nat
    <3>1. Head(is) <= is[s[1]] /\ is[s[1] + 1] <= Last(is)
      BY <1>1, <2>1
    <3>2. Head(is) \in Nat /\ Last(is) \in Nat
      BY <1>1
    <3> QED BY <3>1, <3>2
  <2>3. s[2] \in Head(is) .. Last(is)
    BY <2>1, <2>2
  <2>4. ASSUME NEW k \in 1 .. Len(is), s[2] = is[k] PROVE FALSE
    <3>1. k \in Nat /\ is[k] \in Nat
      BY <1>1
    <3>2. k < s[1] => is[s[1]] - is[k] >= s[1] - k
      BY <1>1, <2>1
    <3>3. s[1] + 1 < k => is[k] - is[s[1] + 1] >= k - (s[1] + 1)
      BY <1>1, <2>1
    <3>4. k < s[1] \/ k = s[1] \/ k = s[1] + 1 \/ s[1] + 1 < k
      BY <2>1, <3>1
    <3> QED BY <2>1, <2>4, <3>1, <3>2, <3>3, <3>4
  <2>5. s[2] \notin Ided(is)
    BY <2>4 DEF Ided
  <2> QED BY <2>3, <2>5
<1>9. ASSUME NEW m \in M PROVE \E s \in S : s[2] = m
  <2>1. m \in Head(is) .. Last(is) /\ m \notin Ided(is) /\ m \in Int
    OBVIOUS
  <2> DEFINE K == {k \in 1 .. Len(is) : is[k] > m}
  <2>2. Len(is) \in K
    <3>1. Len(is) \in 1 .. Len(is) /\ is[Len(is)] \in Nat
      BY <1>1
    <3>2. m # is[Len(is)] /\ m <= is[Len(is)]
      BY <1>1, <2>1, <3>1 DEF Ided
    <3> QED BY <2>1, <3>1, <3>2
  <2>3. PICK k \in K : \A l \in K : k <= l
    <3>1. K \in SUBSET Nat
      OBVIOUS
    <3> HIDE DEF K
    <3> QED BY <2>2, <3>1, LeastExists
  <2>4. k \in 1 .. Len(is) /\ is[k] > m /\ is[k] \in Nat /\ k \in Nat
    BY <1>1, <2>3
  <2>5. k # 1
    BY <1>1, <2>1, <2>4
  <2>6. k - 1 \in 1 .. Len(is) - 1 /\ k - 1 \in 1 .. Len(is) /\ (k - 1) + 1 = k /\ ~(k <= k - 1)
    BY <1>1, <2>4, <2>5
  <2>7. ~(is[k - 1] > m) /\ is[k - 1] \in Nat /\ is[k - 1] # m
    BY <1>1, <2>1, <2>3, <2>6 DEF Ided
  <2>8. m \in is[k - 1] + 1 .. is[(k - 1) + 1] - 1
    BY <2>1, <2>4, <2>6, <2>7
  <2>9. <<k - 1, m>> \in S
    BY <1>3, <2>6, <2>8
  <2> QED BY <2>9
<1>10. T = M
  <2>1. T \subseteq M
    BY <1>8
  <2>2. M \subseteq T
    <3> SUFFICES ASSUME NEW m \in M PROVE m \in T
      OBVIOUS
    <3>1. PICK s \in S : s[2] = m
      BY <1>9
    <3> QED BY <3>1
  <2> QED BY <2>1, <2>2
<1> QED
  BY <1>5, <1>7, <1>10 DEF S

\* The ids up to the last image that no image has: those of before, those up to the batch, and those
\* it skips.
LEMMA MissingGrow ==
  ASSUME NEW got, NEW next, UpTo(got, next), NEW is, Ascending(is), next <= Head(is)
  PROVE  Cardinality((0 .. Last(is)) \ (got \cup Ided(is)))
           = Cardinality((0 .. next - 1) \ got) + (IF Head(is) - next > 0 THEN Head(is) - next ELSE 0)
               + Cardinality(Detector!Skipped(is))
<1> DEFINE A == (0 .. next - 1) \ got
           B == next .. Head(is) - 1
           C == (Head(is) .. Last(is)) \ Ided(is)
           D == (0 .. Last(is)) \ (got \cup Ided(is))
<1>1. /\ Ided(is) \in SUBSET Nat /\ \A id \in Ided(is) : Head(is) <= id /\ id <= Last(is)
      /\ Head(is) \in Nat /\ Last(is) \in Nat /\ Head(is) <= Last(is)
  BY IdedFacts
<1>2. next \in Nat /\ got \in SUBSET Nat /\ \A id \in got : id < next
  BY DEF UpTo
<1>3. A \cap B = {} /\ (A \cup B) \cap C = {}
  BY <1>1, <1>2
<1>4. D = (A \cup B) \cup C
  <2>1. D \subseteq (A \cup B) \cup C
    BY <1>1, <1>2
  <2>2. A \subseteq D /\ B \subseteq D /\ C \subseteq D
    BY <1>1, <1>2
  <2> QED BY <2>1, <2>2
<1>5. IsFiniteSet(A) /\ IsFiniteSet(C)
  <2>1. IsFiniteSet(0 .. next - 1) /\ IsFiniteSet(Head(is) .. Last(is))
    <3>1. 0 \in Int /\ next - 1 \in Int /\ Head(is) \in Int /\ Last(is) \in Int
      BY <1>1, <1>2
    <3> QED BY <3>1, FS_Interval
  <2> QED BY <2>1, FS_Difference
<1>6. IsFiniteSet(B) /\ Cardinality(B) = IF Head(is) - next > 0 THEN Head(is) - next ELSE 0
  <2>1. next \in Int /\ Head(is) - 1 \in Int
    BY <1>1, <1>2
  <2>2. /\ IsFiniteSet(B)
        /\ Cardinality(B) = IF next > Head(is) - 1 THEN 0 ELSE (Head(is) - 1) - next + 1
    BY <2>1, FS_Interval
  <2> QED BY <2>2, <1>1, <1>2
<1>7. Cardinality(C) = Cardinality(Detector!Skipped(is))
  BY SkippedBetween
<1> HIDE DEF A, B, C
<1>8. IsFiniteSet(A \cup B) /\ Cardinality(A \cup B) = Cardinality(A) + Cardinality(B)
  BY <1>3, <1>5, <1>6, Together
<1>9. Cardinality((A \cup B) \cup C) = Cardinality(A \cup B) + Cardinality(C)
  BY <1>3, <1>5, <1>8, Together
<1> QED
  BY <1>4, <1>6, <1>7, <1>8, <1>9 DEF A

-----------------------------------------------------------------------------
(* Where they are shown.                                                    *)

LEMMA Divided ==
  ASSUME NEW w \in Nat \ {0}, NEW id \in Nat
  PROVE  id = w * (id \div w) + (id % w) /\ id \div w \in Nat /\ id % w \in 0 .. w - 1
  OBVIOUS

LEMMA MultipleBelow ==
  ASSUME NEW a \in Nat, NEW h \in Nat, NEW w \in Nat, a <= h - 1
  PROVE  w * a <= w * h - w
  OBVIOUS

LEMMA MultipleApart ==
  ASSUME NEW a \in Nat, NEW b \in Nat, NEW w \in Nat, a < b
  PROVE  w * a + w <= w * b
  OBVIOUS

LEMMA SameQuotient ==
  ASSUME NEW w \in Nat \ {0}, NEW a \in Nat, NEW b \in Nat, NEW r \in 0 .. w - 1, NEW s \in 0 .. w - 1,
         w * a + r = w * b + s
  PROVE  a = b /\ r = s
<1>1. w * a \in Nat /\ w * b \in Nat
  OBVIOUS
<1>2. a < b => w * a + w <= w * b
  BY MultipleApart
<1>3. b < a => w * b + w <= w * a
  BY MultipleApart
<1>4. ~(a < b) /\ ~(b < a)
  <2> DEFINE x == w * a
             y == w * b
  <2>1. x \in Nat /\ y \in Nat /\ x + r = y + s
    BY <1>1
  <2>2. (a < b => x + w <= y) /\ (b < a => y + w <= x)
    BY <1>2, <1>3
  <2> HIDE DEF x, y
  <2> QED BY <2>1, <2>2
<1>5. a = b
  BY <1>4
<1> DEFINE x == w * a
<1>6. x \in Nat /\ x + r = x + s
  BY <1>1, <1>5
<1> HIDE DEF x
<1>7. r = s
  BY <1>6
<1> QED BY <1>5, <1>7

\* The image of a position is the one that has its number.
LEMMA PositionOf ==
  ASSUME NEW scan \in (Nat \ {0}) \X (Nat \ {0}), NEW id \in Nat,
         NEW p \in (0 .. scan[1] - 1) \X (0 .. scan[2] - 1)
  PROVE  (id < Size(scan) /\ Detector!Position(id, scan) = p) <=> id = p[1] * scan[2] + p[2]
<1> DEFINE h == scan[1]
           w == scan[2]
           a == p[1]
           r == p[2]
           b == id \div w
           s == id % w
<1>1. h \in Nat \ {0} /\ w \in Nat \ {0} /\ a \in 0 .. h - 1 /\ r \in 0 .. w - 1 /\ p = <<a, r>>
  OBVIOUS
<1>2. Size(scan) = h * w /\ Detector!Position(id, scan) = <<b, s>>
  BY DEF Size, Detector!Position
<1>3. id = w * b + s /\ b \in Nat /\ s \in 0 .. w - 1
  BY <1>1, Divided
<1> HIDE DEF h, w, a, r, b, s
<1>4. a * w = w * a /\ h * w = w * h
  BY <1>1
<1>5. ASSUME b = a, s = r
      PROVE  id = a * w + r
  BY <1>3, <1>4, <1>5
<1>6. ASSUME id = a * w + r
      PROVE  b = a /\ s = r /\ id < h * w
  <2>1. w * b + s = w * a + r
    BY <1>3, <1>4, <1>6
  <2>2. b = a /\ s = r
    BY <2>1, <1>1, <1>3, SameQuotient
  <2>3. w * a <= w * h - w
    BY <1>1, MultipleBelow
  <2> DEFINE x == w * a
             y == w * h
  <2>4. x \in Int /\ y \in Int
    BY <1>1
  <2>5. id = x + r /\ x <= y - w
    BY <1>4, <1>6, <2>3
  <2> HIDE DEF x, y
  <2>6. id < y
    BY <1>1, <2>4, <2>5
  <2> QED BY <2>2, <2>6, <1>4 DEF y
<1>7. <<b, s>> = p <=> b = a /\ s = r
  BY <1>1
<1>8. p[1] * scan[2] + p[2] = a * w + r
  BY DEF a, w, r
<1> QED
  BY <1>2, <1>5, <1>6, <1>7, <1>8

LEMMA OnlyMax ==
  ASSUME NEW i \in Int
  PROVE  Max({i}) = i
  BY DEF Max

ImageIn(held, scan) ==
  [p \in DOMAIN Detector!Blank(scan) |->
     LET id == p[1] * scan[2] + p[2] IN IF id \in held THEN id ELSE Detector!Empty]

\* What integrates a batch into the image.
LEMMA ImageGrows ==
  ASSUME NEW scan \in (Nat \ {0}) \X (Nat \ {0}), NEW got, NEW is, Ascending(is)
  PROVE  LET where == Detector!ScanPositions(is, scan)
             here(p) == {i \in DOMAIN where : where[i] = p}
             before == ImageIn(got, scan)
         IN [p \in DOMAIN before |-> IF here(p) # {} THEN is[Max(here(p))] ELSE before[p]]
              = ImageIn(got \cup Ided(is), scan)
<1> DEFINE where == Detector!ScanPositions(is, scan)
           here(p) == {i \in DOMAIN where : where[i] = p}
           before == ImageIn(got, scan)
           after == ImageIn(got \cup Ided(is), scan)
           P == (0 .. scan[1] - 1) \X (0 .. scan[2] - 1)
           num(p) == p[1] * scan[2] + p[2]
           h == [p \in DOMAIN before |-> IF here(p) # {} THEN is[Max(here(p))] ELSE before[p]]
<1>1. DOMAIN Detector!Blank(scan) = P
  BY DEF Detector!Blank
<1>2. /\ before = [p \in P |-> IF num(p) \in got THEN num(p) ELSE Detector!Empty]
      /\ after = [p \in P |-> IF num(p) \in got \cup Ided(is) THEN num(p) ELSE Detector!Empty]
  BY <1>1 DEF ImageIn
<1>3. /\ Len(is) \in Nat \ {0} /\ DOMAIN is = 1 .. Len(is)
      /\ \A i \in 1 .. Len(is) : is[i] \in Nat
      /\ \A i, k \in 1 .. Len(is) : is[i] = is[k] => i = k
  BY Climbing
<1>4. /\ DOMAIN where = {i \in 1 .. Len(is) : is[i] < Size(scan)}
      /\ \A i \in DOMAIN where : where[i] = Detector!Position(is[i], scan)
  <2> DEFINE I == {j \in DOMAIN is : is[j] < Size(scan)}
  <2>1. where = [i \in I |-> Detector!Position(is[i], scan)]
    BY DEF Detector!ScanPositions, Detector!Size, Size
  <2>2. I = {i \in 1 .. Len(is) : is[i] < Size(scan)}
    BY <1>3
  <2> HIDE DEF where, I
  <2>3. DOMAIN where = I /\ \A i \in I : where[i] = Detector!Position(is[i], scan)
    BY <2>1
  <2> QED BY <2>2, <2>3
<1> HIDE DEF where, before, after
<1>5. ASSUME NEW p \in P
      PROVE  h[p] = after[p]
  <2>1. here(p) = {i \in 1 .. Len(is) : is[i] = num(p)}
    <3>1. ASSUME NEW i \in 1 .. Len(is)
          PROVE  (i \in DOMAIN where /\ where[i] = p) <=> is[i] = num(p)
      <4>1. is[i] \in Nat
        BY <1>3
      <4>2. (is[i] < Size(scan) /\ Detector!Position(is[i], scan) = p) <=> is[i] = num(p)
        BY <4>1, PositionOf
      <4> QED BY <4>2, <1>4
    <3> QED BY <3>1, <1>4
  <2>2. h[p] = IF here(p) # {} THEN is[Max(here(p))] ELSE before[p]
    BY <1>2
  <2>3. CASE here(p) = {}
    <3>1. num(p) \notin Ided(is)
      BY <2>1, <2>3 DEF Ided
    <3> QED BY <2>2, <2>3, <3>1, <1>2
  <2>4. CASE here(p) # {}
    <3>1. PICK i \in here(p) : TRUE
      BY <2>4
    <3>2. i \in 1 .. Len(is) /\ is[i] = num(p) /\ i \in Int
      BY <3>1, <2>1
    <3>3. here(p) = {i}
      <4>1. \A k \in here(p) : k = i
        BY <2>1, <3>2, <1>3
      <4> QED BY <4>1, <3>1
    <3>4. h[p] = num(p)
      <4>1. Max(here(p)) = i
        BY <3>2, <3>3, OnlyMax
      <4> QED BY <2>2, <2>4, <4>1, <3>2
    <3>5. num(p) \in Ided(is)
      BY <3>2 DEF Ided
    <3> QED BY <3>4, <3>5, <1>2
  <2> QED BY <2>3, <2>4
<1>6. h = after
  <2>1. DOMAIN before = P
    BY <1>2
  <2>2. h = [p \in P |-> h[p]]
    BY <2>1
  <2>3. after = [p \in P |-> after[p]]
    BY <1>2
  <2> HIDE DEF h, P
  <2> QED BY <2>2, <2>3, <1>5
<1> QED
  BY <1>6 DEF where, before, after

-----------------------------------------------------------------------------
(* The images of a series in the feed.                                      *)

\* What a run's batches are.
LEMMA BatchesOf ==
  ASSUME FeedsOrdered, SeriesInOrder, feed \in Feeds
  PROVE  /\ Len(feed) \in Nat /\ DOMAIN feed = 1 .. Len(feed)
         /\ \A p \in 1 .. Len(feed) : feed[p].series \in Nat \ {0}
         /\ \A p \in 1 .. Len(feed) : feed[p].kind = "images" => Ascending(feed[p].ids)
         /\ \A p, q \in 1 .. Len(feed) :
              feed[p].kind = "start" /\ feed[q].kind = "start" /\ feed[p].series = feed[q].series
                => p = q
         /\ \A p, q \in 1 .. Len(feed) :
              p < q /\ feed[p].series = feed[q].series =>
                /\ feed[p].kind # "end"
                /\ feed[p].kind = "images" /\ feed[q].kind = "images" =>
                     Last(feed[p].ids) < Head(feed[q].ids)
BY DEF FeedsOrdered, SeriesInOrder

\* A series from its START, batch s, to batch e, without a boundary between.
Series(s, e) ==
  /\ s \in 1 .. e /\ feed[s].kind = "start"
  /\ \A q \in s + 1 .. e : feed[q].kind = "images" /\ feed[q].series = feed[s].series

\* Its images, and their ids.
Got(s, e) == UNION {{p} \X DOMAIN feed[p].ids : p \in s + 1 .. e}
Held(s, e) == Detector!IdsOf(Got(s, e))

NextOf(s, e) == IF e = s THEN 0 ELSE Last(feed[e].ids) + 1

LEMMA SeriesGrows ==
  ASSUME NEW e \in Nat, NEW s \in 1 .. e, Series(s, e),
         feed[e + 1].kind = "images", feed[e + 1].series = feed[s].series
  PROVE  Series(s, e + 1)
<1>1. \A q \in s + 1 .. e + 1 : q \in s + 1 .. e \/ q = e + 1
  OBVIOUS
<1>2. s \in 1 .. e + 1
  OBVIOUS
<1> QED
  BY <1>1, <1>2 DEF Series

LEMMA SeriesShrinks ==
  ASSUME NEW e \in Nat, NEW s \in 1 .. e, Series(s, e + 1)
  PROVE  /\ Series(s, e) /\ feed[e + 1].kind = "images" /\ feed[e + 1].series = feed[s].series
<1>1. e + 1 \in s + 1 .. e + 1 /\ \A q \in s + 1 .. e : q \in s + 1 .. e + 1
  OBVIOUS
<1> QED
  BY <1>1 DEF Series

LEMMA GotNone ==
  ASSUME NEW s \in Nat
  PROVE  Got(s, s) = {} /\ Held(s, s) = {} /\ NextOf(s, s) = 0
<1>1. s + 1 .. s = {}
  OBVIOUS
<1>2. Got(s, s) = {}
  BY <1>1 DEF Got
<1> QED
  BY <1>2 DEF Held, Detector!IdsOf, NextOf

LEMMA GotGrows ==
  ASSUME NEW e \in Nat, NEW s \in 1 .. e, Ascending(feed[e + 1].ids)
  PROVE  /\ Got(s, e + 1) = Got(s, e) \cup ({e + 1} \X (1 .. Len(feed[e + 1].ids)))
         /\ Got(s, e) \cap ({e + 1} \X (1 .. Len(feed[e + 1].ids))) = {}
         /\ Held(s, e + 1) = Held(s, e) \cup Ided(feed[e + 1].ids)
         /\ NextOf(s, e + 1) = Last(feed[e + 1].ids) + 1
<1> DEFINE is == feed[e + 1].ids
           new == {e + 1} \X (1 .. Len(is))
<1>1. DOMAIN is = 1 .. Len(is)
  BY Climbing
<1>2. s + 1 .. e + 1 = (s + 1 .. e) \cup {e + 1}
  OBVIOUS
<1>3. Got(s, e + 1) = Got(s, e) \cup new
  <2>1. Got(s, e + 1) \subseteq Got(s, e) \cup new
    BY <1>1, <1>2 DEF Got
  <2>2. Got(s, e) \cup new \subseteq Got(s, e + 1)
    BY <1>1, <1>2 DEF Got
  <2> QED BY <2>1, <2>2
<1>4. Got(s, e) \cap new = {}
  <2>1. \A d \in Got(s, e) : d[1] \in s + 1 .. e
    BY DEF Got
  <2>2. \A d \in new : d[1] = e + 1
    OBVIOUS
  <2>3. e + 1 \notin s + 1 .. e
    OBVIOUS
  <2> QED BY <2>1, <2>2, <2>3
<1>5. Detector!IdsOf(Got(s, e + 1)) = Detector!IdsOf(Got(s, e)) \cup Ided(is)
  <2>1. Detector!IdsOf(new) = Ided(is)
    <3>1. \A d \in new : d[1] = e + 1 /\ d[2] \in 1 .. Len(is)
      OBVIOUS
    <3>2. \A i \in 1 .. Len(is) : <<e + 1, i>> \in new
      OBVIOUS
    <3>3. Detector!IdsOf(new) \subseteq Ided(is)
      BY <3>1 DEF Detector!IdsOf, Ided
    <3>4. Ided(is) \subseteq Detector!IdsOf(new)
      <4> SUFFICES ASSUME NEW i \in 1 .. Len(is) PROVE is[i] \in Detector!IdsOf(new)
        BY DEF Ided
      <4> DEFINE d == <<e + 1, i>>
      <4>1. d \in new /\ feed[d[1]].ids[d[2]] = is[i]
        BY <3>2
      <4> HIDE DEF d, new
      <4> QED BY <4>1 DEF Detector!IdsOf
    <3> QED BY <3>3, <3>4
  <2>2. Detector!IdsOf(Got(s, e) \cup new) = Detector!IdsOf(Got(s, e)) \cup Detector!IdsOf(new)
    <3> HIDE DEF new
    <3> QED BY DEF Detector!IdsOf
  <2> QED BY <2>1, <2>2, <1>3
<1>6. NextOf(s, e + 1) = Last(is) + 1
  <2>1. e + 1 # s
    OBVIOUS
  <2> QED BY <2>1 DEF NextOf
<1> QED
  BY <1>3, <1>4, <1>5, <1>6 DEF Held

\* The ids of a series ascend, so none comes twice.
LEMMA FollowsOn ==
  ASSUME FeedsOrdered, SeriesInOrder, feed \in Feeds, NEW e \in Nat, e + 1 <= Len(feed),
         NEW s \in 1 .. e, Series(s, e + 1)
  PROVE  Ascending(feed[e + 1].ids) /\ NextOf(s, e) <= Head(feed[e + 1].ids)
<1>1. /\ Series(s, e) /\ feed[e + 1].kind = "images" /\ feed[e + 1].series = feed[s].series
  BY SeriesShrinks
<1>2. e + 1 \in 1 .. Len(feed) /\ e \in 1 .. Len(feed) /\ s \in 1 .. Len(feed)
  BY BatchesOf
<1>3. Ascending(feed[e + 1].ids)
  BY <1>1, <1>2, BatchesOf
<1>4. Head(feed[e + 1].ids) \in Nat
  BY <1>3, IdedFacts
<1>5. CASE e = s
  BY <1>4, <1>5, <1>3 DEF NextOf
<1>6. CASE e # s
  <2>1. e \in s + 1 .. e
    BY <1>6
  <2>2. feed[e].kind = "images" /\ feed[e].series = feed[s].series
    BY <2>1, <1>1 DEF Series
  <2>3. e < e + 1 /\ feed[e].series = feed[e + 1].series
    BY <1>1, <2>2
  <2>4. Last(feed[e].ids) < Head(feed[e + 1].ids)
    BY <1>1, <1>2, <2>2, <2>3, BatchesOf
  <2>5. Last(feed[e].ids) \in Nat
    <3>1. Ascending(feed[e].ids)
      BY <1>2, <2>2, BatchesOf
    <3> QED BY <3>1, IdedFacts
  <2>6. Last(feed[e].ids) + 1 <= Head(feed[e + 1].ids)
    BY <2>4, <2>5, <1>4
  <2> QED BY <2>6, <1>3, <1>6 DEF NextOf
<1> QED BY <1>5, <1>6

LEMMA HeldUpTo ==
  ASSUME FeedsOrdered, SeriesInOrder, feed \in Feeds, NEW e \in Nat, e <= Len(feed),
         NEW s \in 1 .. e, Series(s, e)
  PROVE  /\ UpTo(Held(s, e), NextOf(s, e)) /\ IsFiniteSet(Got(s, e))
         /\ Cardinality(Got(s, e)) = Cardinality(Held(s, e))
<1> DEFINE P(x) == /\ UpTo(Held(s, x), NextOf(s, x)) /\ IsFiniteSet(Got(s, x))
                   /\ Cardinality(Got(s, x)) = Cardinality(Held(s, x))
           Bad == {x \in s .. e : ~P(x)}
<1>1. Len(feed) \in Nat /\ s \in Nat
  BY BatchesOf
<1>2. P(s)
  <2>1. UpTo({}, 0)
    BY FS_EmptySet DEF UpTo
  <2> QED BY <2>1, <1>1, GotNone, FS_EmptySet
<1>3. ASSUME NEW x \in s .. e - 1, P(x)
      PROVE  P(x + 1)
  <2> DEFINE is == feed[x + 1].ids
             new == {x + 1} \X (1 .. Len(is))
  <2>1. x \in Nat /\ x + 1 <= Len(feed) /\ s \in 1 .. x /\ Series(s, x + 1)
    <3>1. x \in Nat /\ x + 1 <= Len(feed) /\ s \in 1 .. x /\ s \in 1 .. x + 1
      BY <1>1
    <3>2. \A q \in s + 1 .. x + 1 : q \in s + 1 .. e
      OBVIOUS
    <3> QED BY <3>1, <3>2 DEF Series
  <2>2. Ascending(is) /\ NextOf(s, x) <= Head(is)
    BY <2>1, FollowsOn
  <2>3. /\ Got(s, x + 1) = Got(s, x) \cup new /\ Got(s, x) \cap new = {}
        /\ Held(s, x + 1) = Held(s, x) \cup Ided(is)
        /\ NextOf(s, x + 1) = Last(is) + 1
    BY <2>1, <2>2, GotGrows
  <2>4. /\ UpTo(Held(s, x) \cup Ided(is), Last(is) + 1)
        /\ Cardinality(Held(s, x) \cup Ided(is)) = Cardinality(Held(s, x)) + Len(is)
    BY <1>3, <2>2, BatchUpTo
  <2>5. IsFiniteSet(new) /\ Cardinality(new) = Len(is)
    <3>1. Len(is) \in Nat
      BY <2>2, Climbing
    <3>2. IsFiniteSet({x + 1}) /\ Cardinality({x + 1}) = 1
      BY FS_Singleton
    <3>3. IsFiniteSet(1 .. Len(is)) /\ Cardinality(1 .. Len(is)) = Len(is)
      <4>1. 1 \in Int /\ Len(is) \in Int /\ Len(is) - 1 + 1 = Len(is) /\ (1 > Len(is) => Len(is) = 0)
        BY <3>1
      <4> QED BY <4>1, FS_Interval
    <3>4. IsFiniteSet(new) /\ Cardinality(new) = 1 * Len(is)
      BY <3>2, <3>3, FS_Product
    <3> QED BY <3>1, <3>4
  <2> HIDE DEF new, is
  <2>6. /\ IsFiniteSet(Got(s, x) \cup new)
        /\ Cardinality(Got(s, x) \cup new) = Cardinality(Got(s, x)) + Cardinality(new)
    BY <1>3, <2>3, <2>5, Together
  <2> QED BY <1>3, <2>3, <2>4, <2>5, <2>6
<1>4. Bad = {}
  <2> SUFFICES ASSUME Bad # {} PROVE FALSE
    OBVIOUS
  <2>1. PICK x \in Bad : \A y \in Bad : x <= y
    <3>1. Bad \in SUBSET Nat
      OBVIOUS
    <3> HIDE DEF Bad
    <3> QED BY <3>1, LeastExists
  <2>2. x \in s .. e /\ ~P(x)
    OBVIOUS
  <2>3. x # s
    <3> HIDE DEF P
    <3> QED BY <2>2, <1>2
  <2>4. x - 1 \in s .. e - 1 /\ x - 1 \in s .. e /\ (x - 1) + 1 = x /\ ~(x <= x - 1)
    BY <2>2, <2>3, <1>1
  <2> HIDE DEF P
  <2>5. P(x - 1)
    BY <2>1, <2>4
  <2>6. P((x - 1) + 1)
    BY <2>4, <2>5, <1>3
  <2> QED BY <2>2, <2>4, <2>6
<1>5. e \in s .. e
  OBVIOUS
<1> HIDE DEF P
<1>6. P(e)
  BY <1>4, <1>5
<1> QED
  BY <1>6 DEF P

\* What is counted of the first images of a series, and what they show.
CountsOf(s, e) ==
  [received |-> Cardinality(Got(s, e)),
   placed   |-> Cardinality(Inside(Held(s, e), Size(ScanOf(feed[s])))),
   gaps     |-> Cardinality(Gaps(Held(s, e))),
   missing  |-> Cardinality((0 .. NextOf(s, e) - 1) \ Held(s, e)),
   next     |-> NextOf(s, e)]
ImageOf(s, e) == ImageIn(Held(s, e), ScanOf(feed[s]))

\* The operators that the detector's module takes from the library, and Size, are ours.
LEMMA SameCardinality ==
  ASSUME NEW S
  PROVE  Detector!Cardinality(S) = Cardinality(S)
BY DEF Detector!Cardinality, Cardinality

LEMMA SameOperators ==
  /\ \A s : Detector!Last(s) = Last(s)
  /\ \A S : Detector!Max(S) = Max(S)
  /\ \A scan : Detector!Size(scan) = Size(scan)
  /\ \A start : Detector!ParseFails(start) <=> ParseFails(start)
  /\ \A start : Detector!ScanOf(start) = ScanOf(start)
<1>1. \A s : Detector!Last(s) = Last(s)
  BY DEF Detector!Last, Last
<1>2. \A S : Detector!Max(S) = Max(S)
  BY DEF Detector!Max, Max
<1>3. \A scan : Detector!Size(scan) = Size(scan)
  BY DEF Detector!Size, Size
<1>4. \A start : Detector!ParseFails(start) <=> ParseFails(start)
  BY DEF Detector!ParseFails, ParseFails, Detector!AnnouncesBadly, AnnouncesBadly, Detector!Shapes, Shapes
<1>5. \A start : Detector!ScanOf(start) = ScanOf(start)
  BY DEF Detector!ScanOf, ScanOf, Detector!Announced, Announced
<1> QED BY <1>1, <1>2, <1>3, <1>4, <1>5

LEMMA CountsNone ==
  ASSUME NEW s \in Nat
  PROVE  CountsOf(s, s) = Detector!NoCounts
<1>1. Got(s, s) = {} /\ Held(s, s) = {} /\ NextOf(s, s) = 0
  BY GotNone
<1>2. Inside({}, Size(ScanOf(feed[s]))) = {} /\ Gaps({}) = {} /\ (0 .. 0 - 1) \ {} = {}
  BY DEF Gaps, Inside
<1>3. Cardinality({}) = 0
  BY FS_EmptySet
<1> QED BY <1>1, <1>2, <1>3 DEF CountsOf, Detector!NoCounts

LEMMA ImageNone ==
  ASSUME NEW s \in Nat
  PROVE  ImageOf(s, s) = Detector!Blank(ScanOf(feed[s]))
BY GotNone DEF ImageOf, ImageIn, Detector!Blank

LEMMA CountsGrow ==
  ASSUME FeedsOrdered, SeriesInOrder, feed \in Feeds, NEW e \in Nat, e + 1 <= Len(feed),
         NEW s \in 1 .. e, Series(s, e + 1), counts = CountsOf(s, e)
  PROVE  LET is == feed[e + 1].ids
         IN Detector!Counted(is, DOMAIN Detector!ScanPositions(is, ScanOf(feed[s])))
              = CountsOf(s, e + 1)
<1> DEFINE is == feed[e + 1].ids
           scan == ScanOf(feed[s])
           z == Size(scan)
           got == Held(s, e)
           next == NextOf(s, e)
           new == {e + 1} \X (1 .. Len(is))
           inside == InsideAt(is, z)
           before == Head(is) - next
<1>1. Series(s, e) /\ Ascending(is) /\ next <= Head(is) /\ e \in Nat /\ e <= Len(feed)
  BY SeriesShrinks, FollowsOn, BatchesOf
<1>2. UpTo(got, next) /\ IsFiniteSet(Got(s, e)) /\ Cardinality(Got(s, e)) = Cardinality(got)
  BY <1>1, HeldUpTo
<1>3. /\ Got(s, e + 1) = Got(s, e) \cup new /\ Got(s, e) \cap new = {}
      /\ Held(s, e + 1) = got \cup Ided(is) /\ NextOf(s, e + 1) = Last(is) + 1
  BY <1>1, GotGrows
<1>4. Cardinality(Got(s, e + 1)) = Cardinality(Got(s, e)) + Len(is)
  <2>1. /\ UpTo(Held(s, e + 1), NextOf(s, e + 1)) /\ IsFiniteSet(Got(s, e + 1))
        /\ Cardinality(Got(s, e + 1)) = Cardinality(Held(s, e + 1))
    <3>1. e + 1 \in Nat /\ s \in 1 .. e + 1
      OBVIOUS
    <3> QED BY <3>1, HeldUpTo
  <2>2. Cardinality(got \cup Ided(is)) = Cardinality(got) + Len(is)
    BY <1>1, <1>2, BatchUpTo
  <2> QED BY <2>1, <2>2, <1>2, <1>3
<1>5. Cardinality(Inside(got \cup Ided(is), z)) = Cardinality(Inside(got, z)) + Cardinality(inside)
  <2> HIDE DEF is, got, next, z
  <2> QED BY <1>1, <1>2, PlacedGrows
<1>6. Cardinality(Gaps(got \cup Ided(is)))
        = Cardinality(Gaps(got)) + (IF Head(is) # next THEN 1 ELSE 0) + Cardinality(Detector!Jumps(is))
  BY <1>1, <1>2, GapsGrow
<1>7. Cardinality((0 .. Last(is)) \ (got \cup Ided(is)))
        = Cardinality((0 .. next - 1) \ got) + (IF before > 0 THEN before ELSE 0)
            + Cardinality(Detector!Skipped(is))
  BY <1>1, <1>2, MissingGrow
<1>8. DOMAIN Detector!ScanPositions(is, scan) = inside
  BY SameOperators DEF Detector!ScanPositions, InsideAt
<1>9. Last(is) \in Nat
  BY <1>1, IdedFacts
<1>10. /\ counts.received = Cardinality(Got(s, e)) /\ counts.placed = Cardinality(Inside(got, z))
       /\ counts.gaps = Cardinality(Gaps(got)) /\ counts.missing = Cardinality((0 .. next - 1) \ got)
       /\ counts.next = next
  BY DEF CountsOf
<1>11. CountsOf(s, e + 1) =
         [received |-> Cardinality(Got(s, e + 1)),
          placed   |-> Cardinality(Inside(got \cup Ided(is), z)),
          gaps     |-> Cardinality(Gaps(got \cup Ided(is))),
          missing  |-> Cardinality((0 .. Last(is)) \ (got \cup Ided(is))),
          next     |-> Last(is) + 1]
  <2>1. CountsOf(s, e + 1) =
         [received |-> Cardinality(Got(s, e + 1)),
          placed   |-> Cardinality(Inside(Held(s, e + 1), z)),
          gaps     |-> Cardinality(Gaps(Held(s, e + 1))),
          missing  |-> Cardinality((0 .. NextOf(s, e + 1) - 1) \ Held(s, e + 1)),
          next     |-> NextOf(s, e + 1)]
    BY DEF CountsOf
  <2> HIDE DEF is, got, next, z
  <2>2. Held(s, e + 1) = got \cup Ided(is) /\ NextOf(s, e + 1) = Last(is) + 1
    BY <1>3
  <2>3. 0 .. NextOf(s, e + 1) - 1 = 0 .. Last(is)
    <3> DEFINE n == NextOf(s, e + 1)
               l == Last(is)
    <3>1. n = l + 1 /\ l \in Nat
      BY <1>9, <2>2
    <3> HIDE DEF n, l
    <3>2. n - 1 = l
      BY <3>1
    <3>3. 0 .. n - 1 = 0 .. l
      BY <3>2
    <3> QED BY <3>3 DEF n, l
  <2> QED BY <2>1, <2>2, <2>3, Zenon
<1>12. Detector!Counted(is, inside) =
         [received |-> counts.received + Len(is),
          placed   |-> counts.placed + Cardinality(inside),
          gaps     |-> counts.gaps + (IF Head(is) # next THEN 1 ELSE 0) + Cardinality(Detector!Jumps(is)),
          missing  |-> counts.missing + (IF before > 0 THEN before ELSE 0)
                         + Cardinality(Detector!Skipped(is)),
          next     |-> Last(is) + 1]
  <2> HIDE DEF is, got, next, z, inside
  <2>1. Detector!GapsBefore(is) = IF Head(is) # next THEN 1 ELSE 0
    BY <1>10, Zenon DEF Detector!GapsBefore
  <2>2. Head(is) - counts.next = before
    BY <1>10
  <2> HIDE DEF before
  <2>3. Detector!Counted(is, inside) =
         [received |-> counts.received + Len(is),
          placed   |-> counts.placed + Cardinality(inside),
          gaps     |-> counts.gaps + Detector!GapsBefore(is) + Cardinality(Detector!Jumps(is)),
          missing  |-> counts.missing + (IF before > 0 THEN before ELSE 0)
                         + Cardinality(Detector!Skipped(is)),
          next     |-> Last(is) + 1]
    BY <2>2, SameCardinality, SameOperators, Zenon DEF Detector!Counted
  <2> QED BY <2>1, <2>3, Zenon
<1> HIDE DEF is, scan, z, got, next, new, inside, before
<1>13. Detector!Counted(is, inside) = CountsOf(s, e + 1)
  BY <1>4, <1>5, <1>6, <1>7, <1>10, <1>11, <1>12
<1> QED BY <1>8, <1>13 DEF is, scan

LEMMA ScansPositive ==
  ASSUME NEW start, ~ParseFails(start)
  PROVE  ScanOf(start) \in (Nat \ {0}) \X (Nat \ {0})
BY ScanAssumption DEF ParseFails, AnnouncesBadly, ScanOf, Announced

LEMMA ImageOfGrows ==
  ASSUME FeedsOrdered, SeriesInOrder, feed \in Feeds, NEW e \in Nat, e + 1 <= Len(feed),
         NEW s \in 1 .. e, Series(s, e + 1), image = ImageOf(s, e), ~ParseFails(feed[s])
  PROVE  LET is == feed[e + 1].ids
             where == Detector!ScanPositions(is, ScanOf(feed[s]))
             here(p) == {i \in DOMAIN where : where[i] = p}
         IN [p \in DOMAIN image |-> IF here(p) # {} THEN is[Max(here(p))] ELSE image[p]]
              = ImageOf(s, e + 1)
<1> DEFINE is == feed[e + 1].ids
           scan == ScanOf(feed[s])
           got == Held(s, e)
<1>1. Ascending(is)
  BY FollowsOn
<1>2. Held(s, e + 1) = got \cup Ided(is)
  BY <1>1, GotGrows
<1>3. scan \in (Nat \ {0}) \X (Nat \ {0})
  BY ScansPositive
<1>4. image = ImageIn(got, scan) /\ ImageOf(s, e + 1) = ImageIn(got \cup Ided(is), scan)
  BY <1>2 DEF ImageOf
<1> HIDE DEF is, scan, got
<1>5. LET where == Detector!ScanPositions(is, scan)
          here(p) == {i \in DOMAIN where : where[i] = p}
          before == ImageIn(got, scan)
      IN [p \in DOMAIN before |-> IF here(p) # {} THEN is[Max(here(p))] ELSE before[p]]
           = ImageIn(got \cup Ided(is), scan)
  BY <1>1, <1>3, ImageGrows
<1> QED BY <1>4, <1>5 DEF is, scan

-----------------------------------------------------------------------------
(* The scan and virtual detector operators: the inductive invariant.        *)

\* The operators' steps, on batches in their order.
StartOf(s, n) == feed[s].kind = "start" /\ feed[s].series = n

PieceOf(b, piece) ==
  /\ piece.batch = b
  /\ feed[b].kind = "images" =>
       \E s \in 1 .. b - 1 :
         /\ StartOf(s, feed[b].series)
         /\ piece.where = Detector!ScanPositions(feed[b].ids, ScanOf(feed[s]))

\* Every image between the operators is placed in the scan of its own series.
PlacingInv ==
  /\ feed \in Feeds
  /\ scanned \in 0 .. Len(feed) /\ taken \in 0 .. scanned
  /\ IsSequence(positions) /\ Len(positions) = scanned - taken
  /\ \A k \in 1 .. Len(positions) : PieceOf(taken + k, positions[k])
  /\ scanSeries # 0 =>
       \E s \in 1 .. scanned : StartOf(s, scanSeries) /\ scanShape = ScanOf(feed[s])
  /\ \A q \in 1 .. scanned : feed[q].kind = "start" => ~ParseFails(feed[q])
  /\ \A q \in 1 .. scanned : feed[q].kind = "images" =>
       \E s \in 1 .. q - 1 : StartOf(s, feed[q].series)

\* The open series is counted and shown up to the last batch taken...
OpenAt(s, e) ==
  series = feed[s] /\ Series(s, e) /\ counts = CountsOf(s, e) /\ image = ImageOf(s, e)

\* ...and a result is that of the series up to its END.
ResultOf(r, s, e) ==
  /\ Series(s, e) /\ feed[e + 1].kind = "end" /\ feed[e + 1].series = feed[s].series
  /\ r.series = feed[s].series /\ r.scan = ScanOf(feed[s])
  /\ r.counts = CountsOf(s, e) /\ r.image = ImageOf(s, e)

DetectingInv ==
  /\ series # NoSeries => \E e \in {taken} : \E s \in 1 .. e : OpenAt(s, e)
  /\ IsSequence(results)
  /\ \A i \in 1 .. Len(results) :
       \E e \in 1 .. taken - 1 : \E s \in 1 .. e : ResultOf(results[i], s, e)

DetectorInv == PlacingInv /\ DetectingInv

LEMMA FeedKept ==
  ASSUME NEW s, NEW e, feed' = feed
  PROVE  /\ Series(s, e)' <=> Series(s, e)
         /\ Got(s, e)' = Got(s, e) /\ Held(s, e)' = Held(s, e) /\ NextOf(s, e)' = NextOf(s, e)
         /\ CountsOf(s, e)' = CountsOf(s, e) /\ ImageOf(s, e)' = ImageOf(s, e)
         /\ \A r : ResultOf(r, s, e)' <=> ResultOf(r, s, e)
<1>1. Series(s, e)' <=> Series(s, e)
  BY DEF Series
<1>2. Got(s, e)' = Got(s, e)
  BY DEF Got
<1>3. Held(s, e)' = Held(s, e)
  BY <1>2 DEF Held, Detector!IdsOf
<1>4. NextOf(s, e)' = NextOf(s, e)
  BY DEF NextOf
<1>5. CountsOf(s, e)' = CountsOf(s, e)
  BY <1>2, <1>3, <1>4 DEF CountsOf
<1>6. ImageOf(s, e)' = ImageOf(s, e)
  BY <1>3 DEF ImageOf
<1>7. \A r : ResultOf(r, s, e)' <=> ResultOf(r, s, e)
  BY <1>1, <1>5, <1>6 DEF ResultOf
<1> QED BY <1>1, <1>2, <1>3, <1>4, <1>5, <1>6, <1>7

LEMMA PlacingFrame ==
  ASSUME PlacingInv, feed' = feed, scanned' = scanned, scanSeries' = scanSeries,
         scanShape' = scanShape, positions' = positions, taken' = taken
  PROVE  PlacingInv'
<1>1. \A k : PieceOf(taken + k, positions[k])' <=> PieceOf(taken + k, positions[k])
  BY DEF PieceOf, StartOf
<1>2. IsSequence(positions)'
  BY DEF PlacingInv, IsSequence
<1> QED BY <1>1, <1>2 DEF PlacingInv, StartOf

LEMMA DetectingFrame ==
  ASSUME DetectingInv, feed' = feed, taken' = taken, series' = series, counts' = counts,
         image' = image, results' = results
  PROVE  DetectingInv'
<1>1. \A s, e : OpenAt(s, e)' <=> OpenAt(s, e)
  BY FeedKept DEF OpenAt
<1>2. \A r, s, e : ResultOf(r, s, e)' <=> ResultOf(r, s, e)
  BY FeedKept
<1>3. IsSequence(results)' <=> IsSequence(results)
  BY DEF IsSequence
<1> QED BY <1>1, <1>2, <1>3 DEF DetectingInv, NoSeries

LEMMA DetectorInit == ConsumersInit => DetectorInv
<1> SUFFICES ASSUME ConsumersInit PROVE DetectorInv
  OBVIOUS
<1>1. /\ feed \in Feeds /\ scanned = 0 /\ taken = 0 /\ scanSeries = 0 /\ positions = <<>>
      /\ series = NoSeries /\ results = <<>>
  BY DEF ConsumersInit, Init, Detector!Init, NoSeries, Detector!NoSeries
<1>2. IsSequence(<<>>) /\ Len(<<>>) = 0
  <2>1. <<>> \in Seq({})
    OBVIOUS
  <2> QED BY <2>1 DEF IsSequence
<1> QED BY <1>1, <1>2 DEF DetectorInv, PlacingInv, DetectingInv

LEMMA PlaceStep ==
  ASSUME FeedsOrdered, SeriesInOrder, DetectorInv, Detector!Place
  PROVE  DetectorInv'
<1> DEFINE b == scanned + 1
           batch == feed[b]
           scan == IF batch.kind = "start" THEN ScanOf(batch) ELSE scanShape
           piece == [batch |-> b, where |-> Detector!ScanPositions(Detector!Ids(batch), scan)]
<1>1. /\ feed' = feed /\ taken' = taken /\ series' = series /\ counts' = counts /\ image' = image
      /\ results' = results /\ scanned < Len(feed)
      /\ \/ /\ scanned' = scanned /\ scanSeries' = scanSeries /\ scanShape' = scanShape
            /\ positions' = positions
         \/ /\ ~Detector!Misplaced(batch)
            /\ scanned' = b /\ scanShape' = scan
            /\ scanSeries' = IF batch.kind = "end" THEN 0 ELSE batch.series
            /\ positions' = Append(positions, piece)
  BY SameOperators DEF Detector!Place, Detector!scanVars, Detector!detectorVars
<1>2. PlacingInv /\ DetectingInv
  BY DEF DetectorInv
<1>3. DetectingInv'
  BY <1>1, <1>2, DetectingFrame
<1>4. ASSUME scanned' = scanned, scanSeries' = scanSeries, scanShape' = scanShape,
             positions' = positions
      PROVE  PlacingInv'
  BY <1>1, <1>2, <1>4, PlacingFrame
<1>5. ASSUME ~Detector!Misplaced(batch), scanned' = b, scanShape' = scan,
             scanSeries' = (IF batch.kind = "end" THEN 0 ELSE batch.series),
             positions' = Append(positions, piece)
      PROVE  PlacingInv'
  <2>1. /\ feed \in Feeds /\ scanned \in 0 .. Len(feed) /\ taken \in 0 .. scanned
        /\ Len(feed) \in Nat
    BY <1>2, BatchesOf DEF PlacingInv
  <2>2. b \in 1 .. Len(feed) /\ b \in Nat /\ scanned \in Nat /\ taken \in Nat
    BY <1>1, <2>1
  <2>3. batch.series \in Nat \ {0}
    BY <2>1, <2>2, BatchesOf
  <2>4. IF batch.kind = "start" THEN ~ParseFails(batch) ELSE scanSeries = batch.series
    BY <1>5, SameOperators DEF Detector!Misplaced
  <2>5. ASSUME batch.kind = "images"
        PROVE  \E s \in 1 .. b - 1 : StartOf(s, batch.series) /\ scan = ScanOf(feed[s])
    <3>1. scanSeries = batch.series /\ scanSeries # 0 /\ scan = scanShape
      BY <2>3, <2>4, <2>5
    <3>2. PICK s \in 1 .. scanned : StartOf(s, scanSeries) /\ scanShape = ScanOf(feed[s])
      BY <1>2, <3>1 DEF PlacingInv
    <3> QED BY <2>2, <3>1, <3>2
  <2>6. PICK S : positions \in Seq(S)
    BY <1>2 DEF PlacingInv, IsSequence
  <2>7. /\ positions' \in Seq(S \cup {piece}) /\ Len(positions') = Len(positions) + 1
        /\ \A k \in 1 .. Len(positions) : positions'[k] = positions[k]
        /\ positions'[Len(positions) + 1] = piece /\ Len(positions) = scanned - taken
    <3>1. positions \in Seq(S \cup {piece}) /\ piece \in S \cup {piece}
      BY <2>6
    <3> HIDE DEF piece
    <3> QED BY <1>2, <1>5, <3>1, AppendProperties DEF PlacingInv
  <2>8. ASSUME NEW k \in 1 .. Len(positions') PROVE PieceOf(taken + k, positions[k])'
    <3>1. CASE k \in 1 .. Len(positions)
      <4>1. PieceOf(taken + k, positions[k])
        BY <1>2, <3>1 DEF PlacingInv
      <4>2. positions'[k] = positions[k] /\ taken' = taken /\ feed' = feed
        BY <1>1, <2>7, <3>1
      <4> QED BY <4>1, <4>2 DEF PieceOf, StartOf
    <3>2. CASE k = Len(positions) + 1
      <4>1. taken + k = b /\ positions'[k] = piece
        BY <2>2, <2>7, <3>2
      <4>2. piece.batch = b /\ piece.where = Detector!ScanPositions(Detector!Ids(batch), scan)
        OBVIOUS
      <4>3. batch.kind = "images" => Detector!Ids(batch) = batch.ids
        BY DEF Detector!Ids
      <4> HIDE DEF piece, scan
      <4>4. PieceOf(b, piece)
        BY <2>5, <4>2, <4>3 DEF PieceOf
      <4>5. taken' + k = b /\ positions'[k] = piece /\ feed' = feed
        BY <1>1, <4>1
      <4> QED BY <4>4, <4>5 DEF PieceOf, StartOf
    <3> QED BY <2>7, <3>1, <3>2
  <2>9. scanSeries' # 0 =>
          \E s \in 1 .. scanned' : StartOf(s, scanSeries)' /\ scanShape' = ScanOf(feed[s])
    <3>1. CASE batch.kind = "start"
      <4>1. b \in 1 .. b
        BY <2>2
      <4>2. feed'[b].kind = "start" /\ feed'[b].series = scanSeries' /\ scanShape' = ScanOf(feed[b])
        BY <1>1, <1>5, <3>1
      <4> QED BY <1>5, <4>1, <4>2 DEF StartOf
    <3>2. CASE batch.kind # "start"
      <4> SUFFICES ASSUME scanSeries' # 0
                   PROVE  \E s \in 1 .. b : StartOf(s, scanSeries)' /\ scanShape' = ScanOf(feed[s])
        BY <1>5
      <4>1. scanSeries' = scanSeries /\ scanShape' = scanShape /\ scanSeries # 0
        BY <1>5, <2>4, <3>2
      <4>2. PICK s \in 1 .. scanned : StartOf(s, scanSeries) /\ scanShape = ScanOf(feed[s])
        BY <1>2, <4>1 DEF PlacingInv
      <4> QED BY <1>1, <2>2, <4>1, <4>2 DEF StartOf
    <3> QED BY <3>1, <3>2
  <2>10. \A q \in 1 .. b : q \in 1 .. scanned \/ q = b
    BY <2>2
  <2>11. \A q \in 1 .. scanned' : feed'[q].kind = "start" => ~ParseFails(feed'[q])
    BY <1>1, <1>2, <1>5, <2>4, <2>10 DEF PlacingInv
  <2>12. \A q \in 1 .. scanned' : feed'[q].kind = "images" =>
           \E s \in 1 .. q - 1 : StartOf(s, feed[q].series)'
    <3>1. \A q \in 1 .. b : feed[q].kind = "images" =>
            \E s \in 1 .. q - 1 : StartOf(s, feed[q].series)
      <4> HIDE DEF scan
      <4> QED BY <1>2, <2>5, <2>10 DEF PlacingInv
    <3> QED BY <1>1, <1>5, <3>1 DEF StartOf
  <2>13. IsSequence(positions)'
    <3> HIDE DEF piece
    <3> QED BY <2>7 DEF IsSequence
  <2>14. Len(positions') = scanned' - taken' /\ scanned' \in 0 .. Len(feed') /\ taken' \in 0 .. scanned'
    <3> HIDE DEF piece
    <3> QED BY <1>1, <1>5, <2>1, <2>2, <2>7
  <2>15. scanSeries' # 0 =>
          \E s \in 1 .. scanned' : StartOf(s, scanSeries)' /\ scanShape' = ScanOf(feed'[s])
    BY <1>1, <2>9
  <2> HIDE DEF piece, scan, b, batch
  <2> QED BY <1>1, <2>1, <2>8, <2>11, <2>12, <2>13, <2>14, <2>15 DEF PlacingInv
<1> QED BY <1>1, <1>3, <1>4, <1>5 DEF DetectorInv

\* Joining a batch takes its positions from the edge.
LEMMA JoinPlaced ==
  ASSUME PlacingInv, NEW kind, Detector!Joins(kind)
  PROVE  PlacingInv' /\ taken + 1 \in 1 .. scanned
<1>1. /\ taken' = taken + 1 /\ positions' = Tail(positions) /\ positions # <<>>
      /\ feed' = feed /\ scanned' = scanned /\ scanSeries' = scanSeries /\ scanShape' = scanShape
  BY DEF Detector!Joins, Detector!Aligned, Detector!scanVars
<1>2. PICK S : positions \in Seq(S)
  BY DEF PlacingInv, IsSequence
<1>3. /\ Len(positions) \in Nat \ {0}
      /\ positions' \in Seq(S) /\ Len(positions') = Len(positions) - 1
      /\ \A i \in 1 .. Len(positions') : positions'[i] = positions[i + 1]
  BY <1>1, <1>2, Queue
<1>4. /\ Len(positions) = scanned - taken /\ taken \in 0 .. scanned /\ scanned \in 0 .. Len(feed)
  BY DEF PlacingInv
<1>5. /\ taken + 1 \in 1 .. scanned /\ Len(positions') = scanned' - taken' /\ taken' \in 0 .. scanned'
  BY <1>1, <1>3, <1>4
<1>6. ASSUME NEW k \in 1 .. Len(positions') PROVE PieceOf(taken + k, positions[k])'
  <2>1. k + 1 \in 1 .. Len(positions) /\ taken' + k = taken + (k + 1) /\ positions'[k] = positions[k + 1]
    BY <1>1, <1>3, <1>4
  <2>2. PieceOf(taken + (k + 1), positions[k + 1])
    BY <2>1 DEF PlacingInv
  <2> QED BY <1>1, <2>1, <2>2 DEF PieceOf, StartOf
<1>7. IsSequence(positions)'
  BY <1>3 DEF IsSequence
<1> QED BY <1>1, <1>4, <1>5, <1>6, <1>7 DEF PlacingInv, StartOf

\* The results there are stay so.
LEMMA ResultsKept ==
  ASSUME DetectingInv, feed' = feed, taken \in Nat, taken' = taken + 1, NEW r,
         \E e \in 1 .. taken - 1 : \E s \in 1 .. e : ResultOf(r, s, e)
  PROVE  \E e \in 1 .. taken' - 1 : \E s \in 1 .. e : ResultOf(r, s, e)'
<1>1. PICK e \in 1 .. taken - 1 : \E s \in 1 .. e : ResultOf(r, s, e)
  OBVIOUS
<1>2. PICK s \in 1 .. e : ResultOf(r, s, e)
  BY <1>1
<1>3. ResultOf(r, s, e)' /\ e \in 1 .. taken' - 1
  BY <1>2, FeedKept
<1> QED BY <1>3

LEMMA ResultsStay ==
  ASSUME DetectingInv, feed' = feed, taken \in Nat, taken' = taken + 1, results' = results
  PROVE  /\ IsSequence(results)'
         /\ \A i \in 1 .. Len(results') :
              \E e \in 1 .. taken' - 1 : \E s \in 1 .. e : ResultOf(results[i], s, e)'
<1>1. IsSequence(results)'
  BY DEF DetectingInv, IsSequence
<1>2. ASSUME NEW i \in 1 .. Len(results')
      PROVE  \E e \in 1 .. taken' - 1 : \E s \in 1 .. e : ResultOf(results[i], s, e)'
  <2>1. PICK r : r = results[i]
    OBVIOUS
  <2>2. \E e \in 1 .. taken - 1 : \E s \in 1 .. e : ResultOf(r, s, e)
    BY <2>1 DEF DetectingInv
  <2>3. \E e \in 1 .. taken' - 1 : \E s \in 1 .. e : ResultOf(r, s, e)'
    BY <2>2, ResultsKept
  <2>4. \A e, s : ResultOf(r, s, e)' => ResultOf(results[i], s, e)'
    BY <2>1 DEF ResultOf
  <2> QED BY <2>3, <2>4
<1> QED BY <1>1, <1>2

LEMMA BeginSeriesStep ==
  ASSUME FeedsOrdered, SeriesInOrder, DetectorInv, Detector!BeginSeries
  PROVE  DetectorInv'
<1>1. /\ taken' = taken + 1 /\ feed' = feed /\ feed[taken + 1].kind = "start"
      /\ series' = feed[taken + 1] /\ counts' = Detector!NoCounts
      /\ image' = Detector!Blank(ScanOf(feed[taken + 1])) /\ results' = results
      /\ Detector!Joins("start")
  BY SameOperators DEF Detector!BeginSeries, Detector!Joins, Detector!Batch
<1>2. PlacingInv /\ DetectingInv
  BY DEF DetectorInv
<1>3. PlacingInv' /\ taken + 1 \in 1 .. scanned
  BY <1>1, <1>2, JoinPlaced
<1>4. taken \in Nat
  BY <1>2 DEF PlacingInv
<1>5. PICK e : e = taken + 1
  OBVIOUS
<1>6. Series(e, e)
  BY <1>1, <1>4, <1>5 DEF Series
<1>7. counts' = CountsOf(e, e) /\ image' = ImageOf(e, e)
  BY <1>1, <1>4, <1>5, CountsNone, ImageNone
<1>8. OpenAt(e, e)'
  BY <1>1, <1>5, <1>6, <1>7, FeedKept DEF OpenAt
<1>9. DetectingInv'
  <2>1. /\ IsSequence(results)'
        /\ \A i \in 1 .. Len(results') :
             \E x \in 1 .. taken' - 1 : \E s \in 1 .. x : ResultOf(results[i], s, x)'
    BY <1>1, <1>2, <1>4, ResultsStay
  <2>2. e \in 1 .. e /\ e \in {taken'}
    BY <1>1, <1>4, <1>5
  <2> QED BY <1>8, <2>1, <2>2 DEF DetectingInv
<1> QED BY <1>3, <1>9 DEF DetectorInv

\* The open series, and the scan its images were placed in, are those of the batch.
LEMMA OpenFor ==
  ASSUME FeedsOrdered, SeriesInOrder, DetectorInv, ~Detector!Refused, taken + 1 \in 1 .. scanned,
         feed[taken + 1].kind # "start"
  PROVE  \E e \in {taken} : \E s \in 1 .. e :
           OpenAt(s, e) /\ feed[e + 1].series = feed[s].series /\ ~ParseFails(feed[s])
<1>1. PlacingInv /\ DetectingInv
  BY DEF DetectorInv
<1>2. taken + 1 \in 1 .. Len(feed) /\ feed \in Feeds /\ taken \in Nat /\ scanned \in Nat
  BY <1>1 DEF PlacingInv
<1>3. series.series = feed[taken + 1].series
  BY DEF Detector!Refused, Detector!Batch
<1>4. series # NoSeries
  <2>1. feed[taken + 1].series # 0
    BY <1>2, BatchesOf
  <2> QED BY <1>3, <2>1 DEF NoSeries
<1>5. PICK e \in {taken} : \E s \in 1 .. e : OpenAt(s, e)
  BY <1>1, <1>4 DEF DetectingInv
<1>6. PICK s \in 1 .. e : OpenAt(s, e)
  BY <1>5
<1>7. series = feed[s] /\ feed[s].kind = "start" /\ s \in 1 .. scanned
  BY <1>2, <1>5, <1>6 DEF OpenAt, Series
<1>8. ~ParseFails(feed[s])
  BY <1>1, <1>7 DEF PlacingInv
<1> QED BY <1>3, <1>5, <1>6, <1>7, <1>8

LEMMA IntegrateStep ==
  ASSUME FeedsOrdered, SeriesInOrder, DetectorInv, Detector!Integrate
  PROVE  DetectorInv'
<1>1. /\ taken' = taken + 1 /\ feed' = feed /\ feed[taken + 1].kind = "images"
      /\ series' = series /\ results' = results
      /\ Detector!Joins("images") /\ ~Detector!Refused
  BY DEF Detector!Integrate, Detector!Joins, Detector!Batch
<1>2. PlacingInv /\ DetectingInv
  BY DEF DetectorInv
<1>3. PlacingInv' /\ taken + 1 \in 1 .. scanned
  BY <1>1, <1>2, JoinPlaced
<1>4. PICK e \in {taken} : \E s \in 1 .. e :
           OpenAt(s, e) /\ feed[e + 1].series = feed[s].series /\ ~ParseFails(feed[s])
  BY <1>1, <1>3, OpenFor
<1>5. PICK s \in 1 .. e :
           OpenAt(s, e) /\ feed[e + 1].series = feed[s].series /\ ~ParseFails(feed[s])
  BY <1>4
<1>6. /\ feed \in Feeds /\ e \in Nat /\ e = taken /\ e + 1 \in 1 .. Len(feed) /\ e + 1 <= Len(feed)
  BY <1>2, <1>3, <1>4 DEF PlacingInv
<1>7. Series(s, e) /\ counts = CountsOf(s, e) /\ image = ImageOf(s, e) /\ series = feed[s]
  BY <1>5 DEF OpenAt
<1>8. Series(s, e + 1)
  BY <1>1, <1>5, <1>6, <1>7, SeriesGrows
<1> DEFINE is == feed[e + 1].ids
           where == Detector!ScanPositions(is, ScanOf(feed[s]))
           here(p) == {i \in DOMAIN where : where[i] = p}
<1>9. Detector!Positioned.where = where
  <2>1. positions # <<>> /\ Detector!Positioned = Head(positions)
    BY <1>1 DEF Detector!Joins, Detector!Aligned, Detector!Positioned
  <2>2. PICK S : positions \in Seq(S)
    BY <1>2 DEF PlacingInv, IsSequence
  <2>3. Len(positions) \in Nat \ {0} /\ Head(positions) = positions[1]
    BY <2>1, <2>2, Queue
  <2>4. PieceOf(e + 1, positions[1])
    <3>1. 1 \in 1 .. Len(positions)
      BY <2>3
    <3>2. PieceOf(taken + 1, positions[1])
      BY <1>2, <3>1 DEF PlacingInv
    <3> QED BY <1>6, <3>2
  <2>5. PICK r \in 1 .. e + 1 - 1 :
          /\ StartOf(r, feed[e + 1].series)
          /\ positions[1].where = Detector!ScanPositions(is, ScanOf(feed[r]))
    BY <1>1, <1>6, <2>4 DEF PieceOf
  <2>6. r = s
    <3>1. r \in 1 .. Len(feed) /\ s \in 1 .. Len(feed)
      BY <1>6
    <3>2. feed[r].kind = "start" /\ feed[r].series = feed[s].series /\ feed[s].kind = "start"
      BY <1>5, <1>7, <2>5 DEF StartOf, Series
    <3> QED BY <1>6, <3>1, <3>2, BatchesOf
  <2> QED BY <2>1, <2>3, <2>5, <2>6
<1>10. counts' = CountsOf(s, e + 1)
  <2>1. counts' = Detector!Counted(is, DOMAIN where)
    <3>1. counts' = Detector!Counted(Detector!Batch.ids, DOMAIN Detector!Positioned.where)
      BY DEF Detector!Integrate
    <3>2. Detector!Batch.ids = is
      BY <1>6 DEF Detector!Batch
    <3> QED BY <1>9, <3>1, <3>2
  <2> QED BY <1>6, <1>7, <1>8, <2>1, CountsGrow
<1>11. image' = ImageOf(s, e + 1)
  <2>1. image' = [p \in DOMAIN image |-> IF here(p) # {} THEN is[Max(here(p))] ELSE image[p]]
    <3>1. Detector!Batch.ids = is
      BY <1>6 DEF Detector!Batch
    <3>2. \A S : Detector!Max(S) = Max(S)
      BY SameOperators
    <3> DEFINE at1 == Detector!Positioned.where
    <3>3. image' = [p \in DOMAIN image |->
                     IF {i \in DOMAIN at1 : at1[i] = p} # {}
                     THEN Detector!Batch.ids[Detector!Max({i \in DOMAIN at1 : at1[i] = p})]
                     ELSE image[p]]
      BY DEF Detector!Integrate
    <3>4. at1 = where
      BY <1>9
    <3> HIDE DEF at1, where
    <3> QED BY <3>1, <3>2, <3>3, <3>4
  <2> QED BY <1>5, <1>6, <1>7, <1>8, <2>1, ImageOfGrows
<1>12. PICK f : f = e + 1
  OBVIOUS
<1>13. OpenAt(s, f)'
  <2> HIDE DEF where, is
  <2>1. Series(s, f)' /\ CountsOf(s, f)' = CountsOf(s, f) /\ ImageOf(s, f)' = ImageOf(s, f)
    BY <1>1, <1>8, <1>12, FeedKept
  <2>2. counts' = CountsOf(s, f)' /\ image' = ImageOf(s, f)' /\ series' = feed'[s]
    BY <1>1, <1>7, <1>10, <1>11, <1>12, <2>1
  <2> QED BY <2>1, <2>2 DEF OpenAt
<1>14. DetectingInv'
  <2>1. /\ IsSequence(results)'
        /\ \A i \in 1 .. Len(results') :
             \E x \in 1 .. taken' - 1 : \E r \in 1 .. x : ResultOf(results[i], r, x)'
    BY <1>1, <1>2, <1>6, ResultsStay
  <2>2. s \in 1 .. f /\ f \in {taken'}
    BY <1>1, <1>6, <1>12
  <2> QED BY <1>13, <2>1, <2>2 DEF DetectingInv
<1> QED BY <1>3, <1>14 DEF DetectorInv

LEMMA EndSeriesStep ==
  ASSUME FeedsOrdered, SeriesInOrder, DetectorInv, Detector!EndSeries
  PROVE  DetectorInv'
<1> DEFINE new == [series |-> series.series, scan |-> ScanOf(series),
                   counts |-> counts, image |-> image]
<1>1. /\ taken' = taken + 1 /\ feed' = feed /\ feed[taken + 1].kind = "end"
      /\ series' = NoSeries /\ results' = Append(results, new)
      /\ Detector!Joins("end") /\ ~Detector!Refused
  BY SameOperators DEF Detector!EndSeries, Detector!Joins, Detector!Batch, Detector!NoSeries, NoSeries
<1>2. PlacingInv /\ DetectingInv
  BY DEF DetectorInv
<1>3. PlacingInv' /\ taken + 1 \in 1 .. scanned
  BY <1>1, <1>2, JoinPlaced
<1>4. PICK e \in {taken} : \E s \in 1 .. e :
           OpenAt(s, e) /\ feed[e + 1].series = feed[s].series /\ ~ParseFails(feed[s])
  BY <1>1, <1>3, OpenFor
<1>5. PICK s \in 1 .. e :
           OpenAt(s, e) /\ feed[e + 1].series = feed[s].series /\ ~ParseFails(feed[s])
  BY <1>4
<1>6. e \in Nat /\ e = taken
  BY <1>2, <1>4 DEF PlacingInv
<1>7. Series(s, e) /\ counts = CountsOf(s, e) /\ image = ImageOf(s, e) /\ series = feed[s]
  BY <1>5 DEF OpenAt
<1>8. ResultOf(new, s, e)
  <2>1. /\ new.series = feed[s].series /\ new.scan = ScanOf(feed[s])
        /\ new.counts = CountsOf(s, e) /\ new.image = ImageOf(s, e)
    BY <1>7
  <2> HIDE DEF new
  <2> QED BY <1>1, <1>5, <1>6, <1>7, <2>1 DEF ResultOf
<1>9. PICK r : r = new
  OBVIOUS
<1>10. ResultOf(r, s, e)' /\ e \in 1 .. taken' - 1
  <2>1. ResultOf(r, s, e)
    BY <1>8, <1>9
  <2>2. ResultOf(r, s, e)'
    BY <1>1, <2>1, FeedKept
  <2>3. e \in 1 .. taken' - 1
    BY <1>1, <1>6
  <2> QED BY <2>2, <2>3
<1>11. PICK S : results \in Seq(S)
  BY <1>2 DEF DetectingInv, IsSequence
<1>12. /\ results' \in Seq(S \cup {new}) /\ Len(results') = Len(results) + 1
       /\ \A i \in 1 .. Len(results) : results'[i] = results[i]
       /\ results'[Len(results) + 1] = new /\ Len(results) \in Nat
  <2>1. results \in Seq(S \cup {new}) /\ new \in S \cup {new}
    BY <1>11
  <2> HIDE DEF new
  <2> QED BY <1>1, <2>1, AppendProperties
<1> HIDE DEF new
<1>13. ASSUME NEW i \in 1 .. Len(results')
       PROVE  \E x \in 1 .. taken' - 1 : \E q \in 1 .. x : ResultOf(results[i], q, x)'
  <2>1. CASE i \in 1 .. Len(results)
    <3>1. PICK y : y = results[i]
      OBVIOUS
    <3>2. \E x \in 1 .. taken - 1 : \E q \in 1 .. x : ResultOf(y, q, x)
      BY <1>2, <2>1, <3>1 DEF DetectingInv
    <3>3. \E x \in 1 .. taken' - 1 : \E q \in 1 .. x : ResultOf(y, q, x)'
      BY <1>1, <1>2, <1>6, <3>2, ResultsKept
    <3>4. results'[i] = y
      BY <1>12, <2>1, <3>1
    <3>5. \A x, q : ResultOf(y, q, x)' => ResultOf(results[i], q, x)'
      BY <3>4 DEF ResultOf
    <3> QED BY <3>3, <3>5
  <2>2. CASE i = Len(results) + 1
    <3>1. results'[i] = r
      BY <1>9, <1>12, <2>2
    <3>2. ResultOf(results[i], s, e)'
      BY <1>10, <3>1 DEF ResultOf
    <3> QED BY <1>10, <3>2
  <2> QED BY <1>12, <2>1, <2>2
<1>14. IsSequence(results)'
  BY <1>12 DEF IsSequence
<1>15. series' = NoSeries'
  BY <1>1 DEF NoSeries
<1>16. DetectingInv'
  BY <1>13, <1>14, <1>15 DEF DetectingInv
<1> QED BY <1>3, <1>16 DEF DetectorInv

LEMMA FeedStays ==
  ASSUME [Next]_vars
  PROVE  feed' = feed
BY DEF Next, vars, host, Begin, Add, Drop, Copy, Copied, Encode, Complete, Take, Run

LEMMA DetectorNext ==
  ASSUME FeedsOrdered, SeriesInOrder, DetectorInv, [ConsumersNext]_allVars
  PROVE  DetectorInv'
<1>1. ASSUME UNCHANGED detectorVars, feed' = feed
      PROVE  DetectorInv'
  BY <1>1, PlacingFrame, DetectingFrame DEF detectorVars, DetectorInv
<1>2. CASE Encodes
  <2>1. UNCHANGED detectorVars /\ [Next]_vars
    BY <1>2 DEF Encodes
  <2> QED BY <1>1, <2>1, FeedStays
<1>3. CASE Detects
  <2>1. Detector!Next
    BY <1>3 DEF Detects
  <2>2. CASE Detector!Place BY <2>2, PlaceStep
  <2>3. CASE Detector!Refuse
    <3>1. UNCHANGED <<feed, scanned, scanSeries, scanShape, positions, taken, series, counts, image,
                      results>>
      BY <2>3 DEF Detector!Refuse, Detector!scanVars, Detector!detectorVars
    <3> QED BY <3>1, PlacingFrame, DetectingFrame DEF DetectorInv
  <2>4. CASE Detector!BeginSeries BY <2>4, BeginSeriesStep
  <2>5. CASE Detector!Integrate BY <2>5, IntegrateStep
  <2>6. CASE Detector!EndSeries BY <2>6, EndSeriesStep
  <2> QED BY <2>1, <2>2, <2>3, <2>4, <2>5, <2>6 DEF Detector!Next
<1>4. CASE UNCHANGED allVars
  <2>1. UNCHANGED detectorVars /\ feed' = feed
    BY <1>4 DEF allVars, vars, host
  <2> QED BY <1>1, <2>1
<1> QED BY <1>2, <1>3, <1>4 DEF ConsumersNext

\* The largest of the ids below the next one.
LEMMA LargestBelow ==
  ASSUME NEW got, NEW next, UpTo(got, next), got # {}
  PROVE  Max(got) = next - 1
<1>1. next - 1 \in got /\ next \in Nat /\ got \in SUBSET Nat /\ \A id \in got : id < next
  <2>1. next \in Nat /\ got \in SUBSET Nat /\ \A id \in got : id < next
    BY DEF UpTo
  <2>2. PICK id \in got : TRUE
    OBVIOUS
  <2>3. id \in Nat /\ id < next
    BY <2>1, <2>2
  <2>4. next # 0
    BY <2>1, <2>3
  <2> QED BY <2>1, <2>4 DEF UpTo
<1>2. \A id \in got : id <= next - 1
  BY <1>1
<1>3. \A x \in got : (\A id \in got : x >= id) => x = next - 1
  BY <1>1, <1>2
<1> QED BY <1>1, <1>2, <1>3 DEF Max

\* What the feed delivers of a series that has a result.
LEMMA DeliveredIs ==
  ASSUME FeedsOrdered, SeriesInOrder, DetectorInv, NEW e \in 1 .. taken - 1, NEW s \in 1 .. e,
         Series(s, e), feed[e + 1].kind = "end", feed[e + 1].series = feed[s].series
  PROVE  Detector!Delivered(feed[s].series) = Got(s, e)
<1> DEFINE n == feed[s].series
           mine == {q \in DOMAIN feed : feed[q].kind = "images" /\ feed[q].series = n}
<1>1. /\ feed \in Feeds /\ Len(feed) \in Nat /\ DOMAIN feed = 1 .. Len(feed)
      /\ taken \in Nat /\ scanned \in Nat /\ taken <= scanned /\ scanned <= Len(feed)
      /\ PlacingInv
  <2>1. feed \in Feeds /\ scanned \in 0 .. Len(feed) /\ taken \in 0 .. scanned /\ PlacingInv
    BY DEF DetectorInv, PlacingInv
  <2> QED BY <2>1, BatchesOf
<1>2. e \in Nat /\ s \in Nat /\ e + 1 \in 1 .. Len(feed) /\ s \in 1 .. Len(feed) /\ e + 1 <= scanned
  BY <1>1
<1>3. ASSUME NEW q \in mine
      PROVE  q \in s + 1 .. e
  <2>1. q \in 1 .. Len(feed) /\ feed[q].kind = "images" /\ feed[q].series = n /\ q \in Nat
    BY <1>1
  <2>2. ~(e + 1 < q)
    <3>1. feed[e + 1].series = feed[q].series
      BY <2>1
    <3> QED BY <1>1, <1>2, <2>1, <3>1, BatchesOf
  <2>3. q # e + 1
    BY <2>1
  <2>4. ASSUME q <= s PROVE FALSE
    <3>1. q \in 1 .. scanned
      BY <1>1, <1>2, <2>1, <2>4
    <3>2. PICK r \in 1 .. q - 1 : StartOf(r, feed[q].series)
      BY <1>1, <2>1, <3>1 DEF PlacingInv
    <3>3. r \in 1 .. Len(feed) /\ feed[r].kind = "start" /\ feed[r].series = feed[s].series
          /\ feed[s].kind = "start"
      BY <1>2, <2>1, <3>2 DEF StartOf, Series
    <3>4. r = s
      BY <1>1, <1>2, <3>3, BatchesOf
    <3> QED BY <1>2, <2>1, <2>4, <3>4
  <2> QED BY <1>2, <2>1, <2>2, <2>3, <2>4
<1>4. ASSUME NEW q \in s + 1 .. e
      PROVE  q \in mine
  <2>1. q \in DOMAIN feed
    BY <1>1, <1>2
  <2> QED BY <2>1 DEF Series
<1>5. mine = s + 1 .. e
  BY <1>3, <1>4
<1>6. Detector!Delivered(n) = UNION {{p} \X DOMAIN feed[p].ids : p \in mine}
  BY DEF Detector!Delivered
<1> HIDE DEF mine, n
<1>7. Detector!Delivered(n) = Got(s, e)
  BY <1>5, <1>6 DEF Got
<1> QED BY <1>7 DEF n

LEMMA ResultIsExact ==
  ASSUME FeedsOrdered, SeriesInOrder, DetectorInv, NEW r, NEW e \in 1 .. taken - 1, NEW s \in 1 .. e,
         ResultOf(r, s, e)
  PROVE  LET held == Detector!IdsOf(Detector!Delivered(r.series))
             below == IF held = {} THEN {} ELSE 0 .. Detector!Max(held)
         IN /\ r.counts.received = Detector!Cardinality(Detector!Delivered(r.series))
            /\ r.counts.placed = Detector!Cardinality({id \in held : id < Detector!Size(r.scan)})
            /\ r.counts.missing = Detector!Cardinality(below \ held)
            /\ r.counts.gaps = Detector!Cardinality({id \in held : id # 0 /\ id - 1 \notin held})
            /\ r.image = [p \in DOMAIN Detector!Blank(r.scan) |->
                            LET id == p[1] * r.scan[2] + p[2]
                            IN IF id \in held THEN id ELSE Detector!Empty]
<1> DEFINE got == Held(s, e)
           next == NextOf(s, e)
<1>1. /\ Series(s, e) /\ feed[e + 1].kind = "end" /\ feed[e + 1].series = feed[s].series
      /\ r.series = feed[s].series /\ r.scan = ScanOf(feed[s])
      /\ r.counts = CountsOf(s, e) /\ r.image = ImageOf(s, e)
  BY DEF ResultOf
<1>2. Detector!Delivered(r.series) = Got(s, e)
  BY <1>1, DeliveredIs
<1>3. Detector!IdsOf(Detector!Delivered(r.series)) = got
  BY <1>2 DEF Held
<1>4. UpTo(got, next)
  <2>1. feed \in Feeds /\ e <= Len(feed)
    <3>1. feed \in Feeds /\ scanned \in 0 .. Len(feed) /\ taken \in 0 .. scanned
      BY DEF DetectorInv, PlacingInv
    <3>2. Len(feed) \in Nat
      BY <3>1, BatchesOf
    <3> QED BY <3>1, <3>2
  <2> QED BY <1>1, <2>1, HeldUpTo
<1>5. 0 .. next - 1 = IF got = {} THEN {} ELSE 0 .. Max(got)
  <2>1. CASE got = {}
    <3>1. next = 0
      BY <1>4, <2>1 DEF UpTo
    <3> QED BY <2>1, <3>1
  <2>2. CASE got # {}
    <3>1. Max(got) = next - 1
      BY <1>4, <2>2, LargestBelow
    <3> QED BY <2>2, <3>1
  <2> QED BY <2>1, <2>2
<1>6. /\ r.counts.received = Cardinality(Got(s, e))
      /\ r.counts.placed = Cardinality(Inside(got, Size(r.scan)))
      /\ r.counts.gaps = Cardinality(Gaps(got))
      /\ r.counts.missing = Cardinality((0 .. next - 1) \ got)
  BY <1>1 DEF CountsOf
<1>7. r.image = ImageIn(got, r.scan)
  BY <1>1 DEF ImageOf
<1> HIDE DEF got, next
<1>8. /\ r.counts.received = Detector!Cardinality(Got(s, e))
      /\ r.counts.placed = Detector!Cardinality({id \in got : id < Detector!Size(r.scan)})
      /\ r.counts.missing = Detector!Cardinality((IF got = {} THEN {} ELSE 0 .. Detector!Max(got)) \ got)
      /\ r.counts.gaps = Detector!Cardinality({id \in got : id # 0 /\ id - 1 \notin got})
      /\ r.image = [p \in DOMAIN Detector!Blank(r.scan) |->
                            LET id == p[1] * r.scan[2] + p[2]
                            IN IF id \in got THEN id ELSE Detector!Empty]
  <2>1. r.counts.received = Detector!Cardinality(Got(s, e))
    BY <1>6, SameCardinality
  <2>2. r.counts.placed = Detector!Cardinality({id \in got : id < Detector!Size(r.scan)})
    <3>1. Inside(got, Size(r.scan)) = {id \in got : id < Detector!Size(r.scan)}
      BY SameOperators DEF Inside
    <3> QED BY <1>6, <3>1, SameCardinality
  <2>3. r.counts.missing = Detector!Cardinality((IF got = {} THEN {} ELSE 0 .. Detector!Max(got)) \ got)
    <3>1. Detector!Max(got) = Max(got)
      BY SameOperators
    <3> QED BY <1>5, <1>6, <3>1, SameCardinality
  <2>4. r.counts.gaps = Detector!Cardinality({id \in got : id # 0 /\ id - 1 \notin got})
    <3>1. Gaps(got) = {id \in got : id # 0 /\ id - 1 \notin got}
      BY DEF Gaps
    <3> QED BY <1>6, <3>1, SameCardinality
  <2>5. r.image = [p \in DOMAIN Detector!Blank(r.scan) |->
                            LET id == p[1] * r.scan[2] + p[2]
                            IN IF id \in got THEN id ELSE Detector!Empty]
    BY <1>7 DEF ImageIn
  <2> QED BY <2>1, <2>2, <2>3, <2>4, <2>5
<1> QED BY <1>2, <1>3, <1>8

\* The result of a series says what its images say, whatever the batches before were and wherever
\* they failed, and however far the operators are apart (processing.py: scan_positions, counted,
\* integrate; VirtualDetectorOp clears the series' state at START).
THEOREM ResultsAreExact ==
  FeedsOrdered /\ SeriesInOrder => (ConsumersSpec => []ResultsExact)
<1> SUFFICES ASSUME FeedsOrdered, SeriesInOrder PROVE ConsumersSpec => []ResultsExact
  OBVIOUS
<1>1. ConsumersInit => DetectorInv
  BY DetectorInit
<1>2. DetectorInv /\ [ConsumersNext]_allVars => DetectorInv'
  BY DetectorNext
<1>3. DetectorInv => ResultsExact
  <2> SUFFICES ASSUME DetectorInv PROVE ResultsExact
    OBVIOUS
  <2>1. DOMAIN results = 1 .. Len(results)
    <3>1. PICK S : results \in Seq(S)
      BY DEF DetectorInv, DetectingInv, IsSequence
    <3> QED BY <3>1
  <2>2. \A i \in DOMAIN results :
          \E e \in 1 .. taken - 1 : \E s \in 1 .. e : ResultOf(results[i], s, e)
    BY <2>1 DEF DetectorInv, DetectingInv
  <2> QED BY <2>2, ResultIsExact DEF ResultsExact, Detector!ResultsExact
<1> QED BY <1>1, <1>2, <1>3, PTL DEF ConsumersSpec

-----------------------------------------------------------------------------
(* What the encoder makes of a series: whole, or with a hole.               *)

Total(s) == Positions(feed[s])

\* Images of a series are missing before one of its images, or one is outside its scan.
Holed(s, e) ==
  \E id \in Held(s, e) : id >= Total(s) \/ \E j \in 0 .. id - 1 : j \notin Held(s, e)

LEMMA TotalIs ==
  ASSUME NEW s, ~ParseFails(feed[s])
  PROVE  Total(s) \in Nat
<1> DEFINE start == feed[s]
<1>1. Size(ScanOf(start)) \in Nat
  <2>1. ScanOf(start) \in (Nat \ {0}) \X (Nat \ {0})
    BY ScansPositive
  <2>2. \A a, b \in Nat \ {0} : a * b \in Nat
    OBVIOUS
  <2> QED BY <2>1, <2>2 DEF Size
<1>2. ASSUME NEW n \in 1 .. start.images, n * n = start.images
      PROVE  start.images \in Nat
  <2>1. n \in Nat \/ n \in Int
    OBVIOUS
  <2>2. n * n \in Nat
    OBVIOUS
  <2> QED BY <1>2, <2>2
<1> QED BY <1>1, <1>2 DEF Total, Positions

\* The images that come later.
LEMMA HeldLater ==
  ASSUME FeedsOrdered, SeriesInOrder, feed \in Feeds, NEW e \in Nat, e <= Len(feed),
         NEW f \in 0 .. e, NEW s \in 1 .. f, Series(s, e)
  PROVE  /\ Series(s, f) /\ Held(s, f) \subseteq Held(s, e) /\ NextOf(s, f) <= NextOf(s, e)
         /\ \A id \in Held(s, e) \ Held(s, f) : id >= NextOf(s, f)
<1> DEFINE P(x) == /\ Held(s, f) \subseteq Held(s, x) /\ NextOf(s, f) <= NextOf(s, x)
                   /\ \A id \in Held(s, x) \ Held(s, f) : id >= NextOf(s, f)
           Bad == {x \in f .. e : ~P(x)}
<1>1. Len(feed) \in Nat /\ s \in Nat /\ f \in Nat /\ s <= f /\ f <= e
  BY BatchesOf
<1>2. ASSUME NEW x \in f .. e PROVE Series(s, x) /\ s \in 1 .. x /\ x \in Nat /\ x <= Len(feed)
  <2>1. s \in 1 .. x /\ x \in Nat /\ x <= Len(feed)
    BY <1>1
  <2>2. \A q \in s + 1 .. x : q \in s + 1 .. e
    BY <1>1
  <2> QED BY <2>1, <2>2 DEF Series
<1>3. ASSUME NEW x \in f .. e PROVE NextOf(s, x) \in Nat
  <2>1. UpTo(Held(s, x), NextOf(s, x))
    BY <1>2, HeldUpTo
  <2> QED BY <2>1 DEF UpTo
<1>4. P(f)
  <2>1. f \in f .. e
    BY <1>1
  <2> QED BY <1>3, <2>1
<1>5. ASSUME NEW x \in f .. e - 1, P(x)
      PROVE  P(x + 1)
  <2> DEFINE is == feed[x + 1].ids
  <2>1. x \in f .. e /\ x + 1 \in f .. e /\ x \in Nat
    BY <1>1
  <2>2. Series(s, x + 1) /\ s \in 1 .. x /\ x + 1 <= Len(feed)
    BY <1>2, <2>1
  <2>3. Ascending(is) /\ NextOf(s, x) <= Head(is)
    BY <2>1, <2>2, FollowsOn
  <2>4. Held(s, x + 1) = Held(s, x) \cup Ided(is) /\ NextOf(s, x + 1) = Last(is) + 1
    BY <2>1, <2>2, <2>3, GotGrows
  <2>5. /\ \A id \in Ided(is) : Head(is) <= id /\ id \in Nat
        /\ Head(is) \in Nat /\ Last(is) \in Nat /\ Head(is) <= Last(is)
    BY <2>3, IdedFacts
  <2>6. NextOf(s, f) \in Nat /\ NextOf(s, x) \in Nat
    BY <1>1, <1>3, <2>1
  <2>7. NextOf(s, f) <= Last(is) + 1 /\ \A id \in Ided(is) : id >= NextOf(s, f)
    BY <1>5, <2>3, <2>5, <2>6
  <2> HIDE DEF is
  <2> QED BY <1>5, <2>4, <2>7
<1>6. Bad = {}
  <2> SUFFICES ASSUME Bad # {} PROVE FALSE
    OBVIOUS
  <2>1. PICK x \in Bad : \A y \in Bad : x <= y
    <3>1. Bad \in SUBSET Nat
      BY <1>1
    <3> HIDE DEF Bad
    <3> QED BY <3>1, LeastExists
  <2>2. x \in f .. e /\ ~P(x)
    OBVIOUS
  <2>3. x # f
    <3> HIDE DEF P
    <3> QED BY <2>2, <1>4
  <2>4. x - 1 \in f .. e - 1 /\ x - 1 \in f .. e /\ (x - 1) + 1 = x /\ ~(x <= x - 1)
    BY <2>2, <2>3, <1>1
  <2> HIDE DEF P
  <2>5. P(x - 1)
    BY <2>1, <2>4
  <2>6. P((x - 1) + 1)
    BY <2>4, <2>5, <1>5
  <2> QED BY <2>2, <2>4, <2>6
<1>7. e \in f .. e /\ f \in f .. e
  BY <1>1
<1>8. P(e)
  <2> HIDE DEF P
  <2> QED BY <1>6, <1>7
<1>9. Series(s, f)
  BY <1>2, <1>7
<1> QED BY <1>8, <1>9

LEMMA HoledStays ==
  ASSUME FeedsOrdered, SeriesInOrder, feed \in Feeds, NEW e \in Nat, e <= Len(feed),
         NEW f \in 0 .. e, NEW s \in 1 .. f, Series(s, e), Holed(s, f)
  PROVE  Holed(s, e)
<1>1. /\ Series(s, f) /\ Held(s, f) \subseteq Held(s, e)
      /\ \A id \in Held(s, e) \ Held(s, f) : id >= NextOf(s, f)
  BY HeldLater
<1>2. PICK id \in Held(s, f) : id >= Total(s) \/ \E j \in 0 .. id - 1 : j \notin Held(s, f)
  BY DEF Holed
<1>3. UpTo(Held(s, f), NextOf(s, f))
  <2>1. f \in Nat /\ f <= Len(feed)
    BY BatchesOf
  <2> QED BY <1>1, <2>1, HeldUpTo
<1>4. id \in Nat /\ id < NextOf(s, f) /\ NextOf(s, f) \in Nat /\ id \in Held(s, e)
  BY <1>1, <1>2, <1>3 DEF UpTo
<1>5. ASSUME NEW j \in 0 .. id - 1, j \notin Held(s, f) PROVE j \notin Held(s, e)
  BY <1>1, <1>4, <1>5
<1> QED BY <1>2, <1>4, <1>5 DEF Holed

LEMMA HoledNotWhole ==
  ASSUME NEW s, NEW e, Held(s, e) \in SUBSET Nat, Total(s) \in Nat, Holed(s, e)
  PROVE  Held(s, e) # 0 .. Total(s) - 1
<1> SUFFICES ASSUME Held(s, e) = 0 .. Total(s) - 1 PROVE FALSE
  OBVIOUS
<1>1. PICK id \in Held(s, e) : id >= Total(s) \/ \E j \in 0 .. id - 1 : j \notin Held(s, e)
  BY DEF Holed
<1>2. id \in 0 .. Total(s) - 1
  BY <1>1
<1>3. \A j \in 0 .. id - 1 : j \in 0 .. Total(s) - 1
  BY <1>2
<1> QED BY <1>1, <1>2, <1>3

\* A batch without a hole that follows, and one that does not.
LEMMA FollowingWhole ==
  ASSUME FeedsOrdered, SeriesInOrder, feed \in Feeds, NEW e \in Nat, e + 1 <= Len(feed),
         NEW s \in 1 .. e, Series(s, e + 1), Held(s, e) = 0 .. NextOf(s, e) - 1,
         Head(feed[e + 1].ids) = NextOf(s, e),
         Last(feed[e + 1].ids) - Head(feed[e + 1].ids) + 1 = Len(feed[e + 1].ids)
  PROVE  Held(s, e + 1) = 0 .. NextOf(s, e + 1) - 1
<1> DEFINE is == feed[e + 1].ids
           n == NextOf(s, e)
           l == Last(is)
           m == Len(is)
<1>1. Ascending(is)
  BY FollowsOn
<1>2. Held(s, e + 1) = Held(s, e) \cup Ided(is) /\ NextOf(s, e + 1) = l + 1
  BY <1>1, GotGrows
<1>3. m \in Nat \ {0} /\ n \in Nat /\ l \in Nat /\ l - n + 1 = m
  BY <1>1, Climbing, IdedFacts
<1>4. \A j \in 1 .. m : is[j] = n + j - 1
  BY <1>1, Consecutive
<1> HIDE DEF is, n, l, m
<1>5. Ided(is) = n .. l
  <2>1. Ided(is) = {is[i] : i \in 1 .. m}
    BY DEF Ided, m
  <2>2. \A j \in 1 .. m : is[j] \in n .. l
    BY <1>3, <1>4
  <2>3. \A k \in n .. l : k - n + 1 \in 1 .. m /\ is[k - n + 1] = k
    <3> SUFFICES ASSUME NEW k \in n .. l PROVE k - n + 1 \in 1 .. m /\ is[k - n + 1] = k
      OBVIOUS
    <3>1. k - n + 1 \in 1 .. m
      BY <1>3
    <3>2. is[k - n + 1] = n + (k - n + 1) - 1
      BY <1>4, <3>1
    <3>3. n + (k - n + 1) - 1 = k
      BY <1>3
    <3> QED BY <3>1, <3>2, <3>3
  <2> QED BY <2>1, <2>2, <2>3
<1>6. Held(s, e) = 0 .. n - 1
  BY DEF n
<1>7. (0 .. n - 1) \cup (n .. l) = 0 .. (l + 1) - 1
  BY <1>3
<1> QED BY <1>2, <1>5, <1>6, <1>7

LEMMA UnfollowedHoled ==
  ASSUME FeedsOrdered, SeriesInOrder, feed \in Feeds, NEW e \in Nat, e + 1 <= Len(feed),
         NEW s \in 1 .. e, Series(s, e + 1), Total(s) \in Nat,
         ~(/\ Head(feed[e + 1].ids) = NextOf(s, e)
           /\ Last(feed[e + 1].ids) - Head(feed[e + 1].ids) + 1 = Len(feed[e + 1].ids)
           /\ Last(feed[e + 1].ids) < Total(s))
  PROVE  Holed(s, e + 1)
<1> DEFINE is == feed[e + 1].ids
           n == NextOf(s, e)
           got == Held(s, e)
           h == Head(is)
           l == Last(is)
<1>1. Ascending(is) /\ n <= h
  BY FollowsOn
<1>2. Held(s, e + 1) = got \cup Ided(is)
  BY <1>1, GotGrows
<1>3. UpTo(got, n)
  <2>1. Series(s, e) /\ e <= Len(feed)
    BY SeriesShrinks, BatchesOf
  <2> QED BY <2>1, HeldUpTo
<1>4. n \in Nat /\ got \in SUBSET Nat /\ \A id \in got : id < n
  BY <1>3 DEF UpTo
<1>5. /\ IsFiniteSet(Ided(is)) /\ Cardinality(Ided(is)) = Len(is) /\ Ided(is) \in SUBSET Nat
      /\ \A id \in Ided(is) : h <= id /\ id <= l
      /\ h \in Ided(is) /\ l \in Ided(is) /\ h \in Nat /\ l \in Nat /\ h <= l
  BY <1>1, IdedFacts
<1> HIDE DEF is, n, got, h, l
<1>6. CASE h # n
  <2>1. n \in 0 .. h - 1 /\ n \notin got /\ n \notin Ided(is)
    BY <1>1, <1>4, <1>5, <1>6
  <2>2. h \in got \cup Ided(is)
    BY <1>5
  <2> QED BY <1>2, <2>1, <2>2 DEF Holed
<1>7. CASE l - h + 1 # Len(is)
  <2>1. Ided(is) # h .. l
    <3>1. h \in Int /\ l \in Int /\ ~(h > l)
      BY <1>5
    <3>2. Cardinality(h .. l) = l - h + 1
      BY <3>1, FS_Interval
    <3> QED BY <1>5, <1>7, <3>2
  <2>2. PICK j \in h .. l : j \notin Ided(is)
    <3>1. \A id \in Ided(is) : id \in h .. l
      BY <1>5
    <3> QED BY <2>1, <3>1
  <2>3. j # l
    BY <1>5, <2>2
  <2>4. j \in 0 .. l - 1 /\ j \notin got
    BY <1>1, <1>4, <1>5, <2>2, <2>3
  <2>5. l \in got \cup Ided(is)
    BY <1>5
  <2> QED BY <1>2, <2>2, <2>4, <2>5 DEF Holed
<1>8. CASE ~(l < Total(s))
  <2>1. l >= Total(s)
    BY <1>5, <1>8
  <2> QED BY <1>2, <1>5, <2>1 DEF Holed
<1> QED BY <1>6, <1>7, <1>8 DEF is, n, h, l

\* The batches whose images the encoder has taken.
Upto == IF at \in {"add", "copy", "full", "end"} THEN pos - 1 ELSE pos

\* It encodes an unbroken series, of which nothing is missing so far...
OpenAs(s, e) ==
  /\ Series(s, e) /\ Total(s) \in Nat
  /\ encoder.series = feed[s].series /\ encoder.total = Total(s)
  /\ nextId = NextOf(s, e) /\ Held(s, e) = 0 .. NextOf(s, e) - 1

\* ...and every image taken of it is encoded, staged or still to be copied.
CountInv ==
  /\ first \in Nat /\ staged \in 0 .. Chunk /\ encoder.received = first
  /\ at \notin {"copy", "full"} => nextId = first + staged
  /\ at \in {"copy", "full"} =>
       /\ todo \in Seq(Nat) /\ Follows(Batch.ids)
       /\ first + staged + Len(todo) = Last(Batch.ids) + 1

OpenInv ==
  Encoding /\ at # "failed" =>
    /\ \E e \in {Upto} : \E s \in 1 .. e : OpenAs(s, e)
    /\ CountInv
    /\ at # "end" => open = encoder.series
    /\ at \in {"add", "copy", "full"} => Batch.series = encoder.series
    /\ at = "end" => Batch.kind # "images"

BeginInv == Beginning => open = Batch.series /\ ~ParseFails(Batch)

\* What is kept was whole at its boundary, and what was dropped had a hole or was not.
WholeAs(n, s, e) ==
  /\ feed[s].series = n /\ Series(s, e) /\ feed[e + 1].kind # "images" /\ Total(s) \in Nat
  /\ Held(s, e) = 0 .. Total(s) - 1

DroppedAs(n, s, e) ==
  /\ feed[s].series = n /\ Series(s, e) /\ Total(s) \in Nat
  /\ \/ Holed(s, e)
     \/ feed[e + 1].kind # "images" /\ Held(s, e) # 0 .. Total(s) - 1

SettledInv ==
  /\ \A n \in Kept \cup closed : \E e \in 1 .. Len(feed) - 1 : \E s \in 1 .. e : WholeAs(n, s, e)
  /\ \A n \in dropped : \E e \in 1 .. Len(feed) : \E s \in 1 .. e : DroppedAs(n, s, e)

AgreeInv == AccountInv /\ OpenInv /\ BeginInv /\ SettledInv

LEMMA AsKept ==
  ASSUME NEW s, NEW e, feed' = feed
  PROVE  /\ Total(s)' = Total(s) /\ (Holed(s, e)' <=> Holed(s, e))
         /\ \A n : WholeAs(n, s, e)' <=> WholeAs(n, s, e)
         /\ \A n : DroppedAs(n, s, e)' <=> DroppedAs(n, s, e)
         /\ nextId' = nextId /\ encoder'.series = encoder.series /\ encoder'.total = encoder.total
              => (OpenAs(s, e)' <=> OpenAs(s, e))
<1>1. Total(s)' = Total(s)
  BY DEF Total
<1>2. /\ Series(s, e)' <=> Series(s, e)
      /\ Held(s, e)' = Held(s, e) /\ NextOf(s, e)' = NextOf(s, e)
  BY FeedKept
<1>3. Holed(s, e)' <=> Holed(s, e)
  BY <1>1, <1>2 DEF Holed
<1>4. \A n : WholeAs(n, s, e)' <=> WholeAs(n, s, e)
  BY <1>1, <1>2 DEF WholeAs
<1>5. \A n : DroppedAs(n, s, e)' <=> DroppedAs(n, s, e)
  BY <1>1, <1>2, <1>3 DEF DroppedAs
<1>6. nextId' = nextId /\ encoder'.series = encoder.series /\ encoder'.total = encoder.total
        => (OpenAs(s, e)' <=> OpenAs(s, e))
  BY <1>1, <1>2 DEF OpenAs
<1> QED BY <1>1, <1>3, <1>4, <1>5, <1>6

\* Most steps settle nothing, and leave the open series alone.
LEMMA SettledFrame ==
  ASSUME SettledInv, feed' = feed, Kept' = Kept, closed' = closed, dropped' = dropped
  PROVE  SettledInv'
BY AsKept DEF SettledInv

LEMMA OpenFrame ==
  ASSUME \E e \in {Upto} : \E s \in 1 .. e : OpenAs(s, e), feed' = feed, Upto' = Upto,
         nextId' = nextId, encoder'.series = encoder.series, encoder'.total = encoder.total
  PROVE  \E e \in {Upto'} : \E s \in 1 .. e : OpenAs(s, e)'
<1>1. PICK e \in {Upto} : \E s \in 1 .. e : OpenAs(s, e)
  OBVIOUS
<1>2. PICK s \in 1 .. e : OpenAs(s, e)
  BY <1>1
<1>3. OpenAs(s, e)'
  BY <1>2, AsKept
<1> QED BY <1>3

LEMMA AgreeInit == FeedsOrdered /\ Init => AgreeInv
<1> SUFFICES ASSUME FeedsOrdered, Init PROVE AgreeInv
  OBVIOUS
<1>1. /\ at = "idle" /\ encoder = NoSeries /\ datasets = <<>> /\ closed = {} /\ dropped = {}
  BY DEF Init
<1>2. ~Encoding /\ ~Beginning /\ Kept = {}
  BY <1>1 DEF Encoding, Beginning, Kept
<1> QED BY <1>1, <1>2, AccountInit DEF AgreeInv, OpenInv, BeginInv, SettledInv

LEMMA TakeAgrees ==
  ASSUME FeedsOrdered, SeriesInOrder, AgreeInv, AccountInv', NEW st \in Streams, Take(st)
  PROVE  AgreeInv'
<1> DEFINE batch == feed[pos + 1]
<1>1. /\ at = "idle" /\ pos < Len(feed) /\ pos' = pos + 1 /\ feed' = feed
      /\ encoder' = encoder /\ first' = first /\ nextId' = nextId /\ staged' = staged
      /\ datasets' = datasets /\ closed' = closed /\ dropped' = dropped
      /\ open' = IF batch.kind = "end" \/ Raises(batch) THEN 0 ELSE batch.series
      /\ at' = IF Raises(batch) THEN "failed"
               ELSE CASE batch.kind = "start"  -> Superseded
                      [] batch.kind = "images" -> IF encoder = NoSeries THEN "idle" ELSE "add"
                      [] OTHER                 -> IF encoder = NoSeries THEN "idle" ELSE "end"
  BY DEF Take, ids, sink
<1>2. AccountInv /\ OpenInv /\ SettledInv /\ AccountInv'
  BY DEF AgreeInv
<1>3. Kept' = Kept /\ (Encoding' <=> Encoding) /\ Batch' = batch
  BY <1>1 DEF Kept, Encoding, NoSeries, Batch
<1>4. SettledInv'
  BY <1>1, <1>2, <1>3, SettledFrame
<1>5. pos \in Nat /\ Len(feed) \in Nat /\ feed \in Feeds /\ pos + 1 \in 1 .. Len(feed)
  BY <1>1, <1>2, AccountFeed DEF AccountInv, AccountTypes
<1>6. ASSUME ~Raises(batch), batch.kind = "start"
      PROVE  /\ ~ParseFails(batch) /\ open' = batch.series
             /\ at' = IF Encoding THEN "end" ELSE "begin"
  BY <1>1, <1>6 DEF Raises, Superseded, Encoding
<1>7. ASSUME ~Raises(batch), batch.kind = "images"
      PROVE  open = batch.series /\ open' = batch.series /\ at' = IF Encoding THEN "add" ELSE "idle"
  BY <1>1, <1>7 DEF Raises, Encoding
<1>8. ASSUME ~Raises(batch), batch.kind # "start", batch.kind # "images"
      PROVE  at' = IF Encoding THEN "end" ELSE "idle"
  BY <1>1, <1>8 DEF Encoding
<1>9. Raises(batch) => at' = "failed"
  BY <1>1
<1>10. BeginInv'
  <2> SUFFICES ASSUME Beginning' PROVE open' = batch.series /\ ~ParseFails(batch)
    BY <1>3 DEF BeginInv
  <2>1. at' \in {"begin", "end"} /\ (at' = "end" => batch.kind = "start")
    BY <1>3 DEF Beginning
  <2>2. ~Raises(batch) /\ batch.kind = "start"
    BY <2>1, <1>7, <1>8, <1>9
  <2> QED BY <2>2, <1>6
<1>11. OpenInv'
  <2> SUFFICES ASSUME Encoding, at' # "failed" PROVE OpenInv'
    BY <1>3 DEF OpenInv
  <2>1. /\ \E e \in {Upto} : \E s \in 1 .. e : OpenAs(s, e)
        /\ CountInv /\ open = encoder.series
    BY <1>1, <1>2 DEF OpenInv
  <2>2. ~Raises(batch)
    BY <1>9
  <2>3. at' \in {"end", "add"} /\ (at' = "add" <=> batch.kind = "images")
    BY <2>2, <1>6, <1>7, <1>8
  <2>4. Upto' = Upto
    BY <1>1, <1>5, <2>3 DEF Upto
  <2>5. \E e \in {Upto'} : \E s \in 1 .. e : OpenAs(s, e)'
    BY <1>1, <2>1, <2>4, OpenFrame
  <2>6. CountInv'
    BY <1>1, <2>1, <2>3 DEF CountInv
  <2>7. at' = "add" => open' = encoder'.series /\ batch.series = encoder'.series
    BY <1>1, <1>7, <2>1, <2>2, <2>3
  <2> QED BY <1>3, <2>3, <2>5, <2>6, <2>7 DEF OpenInv
<1> QED BY <1>2, <1>4, <1>10, <1>11 DEF AgreeInv

LEMMA BeginAgrees ==
  ASSUME FeedsOrdered, SeriesInOrder, AgreeInv, AccountInv', Begin
  PROVE  AgreeInv'
<1>1. /\ at = "begin" /\ at' = "idle" /\ feed' = feed /\ pos' = pos /\ open' = open
      /\ encoder' = [series |-> Batch.series, total |-> Positions(Batch), received |-> 0, got |-> {}]
      /\ staged' = 0 /\ first' = 0 /\ nextId' = 0
      /\ datasets' = datasets /\ closed' = closed /\ dropped' = dropped
  BY DEF Begin, sink
<1>2. AccountInv /\ AtInv /\ AccountTypes /\ BeginInv /\ SettledInv
  BY DEF AgreeInv, AccountInv
<1>3. Kept' = Kept
  BY <1>1 DEF Kept
<1>4. SettledInv'
  BY <1>1, <1>2, <1>3, SettledFrame
<1>5. BeginInv'
  BY <1>1 DEF BeginInv, Beginning
<1>6. pos \in Nat \ {0} /\ Batch = feed[pos] /\ Batch.kind = "start" /\ pos \in 1 .. Len(feed)
      /\ feed \in Feeds
  BY <1>1, <1>2, AccountFeed DEF AccountTypes, AtInv, Batch
<1>7. open = Batch.series /\ ~ParseFails(Batch)
  BY <1>1, <1>2 DEF BeginInv, Beginning
<1>8. encoder'.series = feed[pos].series /\ encoder'.total = Total(pos) /\ encoder'.received = 0
      /\ Total(pos) \in Nat
  BY <1>1, <1>6, <1>7, TotalIs DEF Total
<1>9. PICK s : s = pos
  OBVIOUS
<1>10. OpenAs(s, s)'
  <2>1. Series(s, s)
    BY <1>6, <1>9 DEF Series
  <2>2. Held(s, s) = {} /\ NextOf(s, s) = 0
    BY <1>6, <1>9, GotNone
  <2>3. Series(s, s)' /\ Held(s, s)' = {} /\ NextOf(s, s)' = 0
    BY <1>1, <2>1, <2>2, FeedKept
  <2>4. Total(s)' = Total(s) /\ feed'[s] = feed[s]
    BY <1>1, AsKept
  <2>5. {} = 0 .. 0 - 1
    OBVIOUS
  <2> QED BY <1>1, <1>8, <1>9, <2>3, <2>4, <2>5 DEF OpenAs
<1>11. s \in 1 .. s /\ s \in {Upto'}
  BY <1>1, <1>6, <1>9 DEF Upto
<1>12. CountInv'
  BY <1>1, <1>8, EncoderAssumption DEF CountInv
<1>13. OpenInv'
  <2>1. open' = encoder'.series
    BY <1>1, <1>6, <1>7, <1>8
  <2> QED BY <1>1, <1>10, <1>11, <1>12, <2>1 DEF OpenInv
<1> QED BY <1>4, <1>5, <1>13 DEF AgreeInv

LEMMA AddAgrees ==
  ASSUME FeedsOrdered, SeriesInOrder, AgreeInv, AccountInv', Add
  PROVE  AgreeInv'
<1>1. /\ at = "add" /\ Follows(Batch.ids) /\ todo' = Batch.ids /\ at' = "copy"
      /\ feed' = feed /\ pos' = pos /\ open' = open /\ encoder' = encoder /\ staged' = staged
      /\ first' = first /\ nextId' = nextId
      /\ datasets' = datasets /\ closed' = closed /\ dropped' = dropped
  BY DEF Add, sink, ids
<1>2. AccountInv /\ AtInv /\ AccountTypes /\ OpenInv /\ SettledInv
  BY DEF AgreeInv, AccountInv
<1>3. Kept' = Kept /\ Batch' = Batch
  BY <1>1 DEF Kept, Batch
<1>4. SettledInv'
  BY <1>1, <1>2, <1>3, SettledFrame
<1>5. BeginInv'
  BY <1>1 DEF BeginInv, Beginning
<1>6. Encoding /\ Batch.kind = "images"
  BY <1>1, <1>2 DEF AtInv
<1>7. /\ \E e \in {Upto} : \E s \in 1 .. e : OpenAs(s, e)
      /\ CountInv /\ open = encoder.series /\ Batch.series = encoder.series
  BY <1>1, <1>2, <1>6 DEF OpenInv
<1>8. Upto' = Upto
  BY <1>1 DEF Upto
<1>9. \E e \in {Upto'} : \E s \in 1 .. e : OpenAs(s, e)'
  BY <1>1, <1>7, <1>8, OpenFrame
<1>10. Ascending(Batch.ids)
  <2>1. pos \in 1 .. Len(feed) /\ feed \in Feeds /\ Batch = feed[pos]
    BY <1>1, <1>2, AccountFeed DEF AccountTypes, Batch
  <2> QED BY <1>6, <2>1, BatchesOf
<1>11. CountInv'
  <2> DEFINE is == Batch.ids
  <2>1. Head(is) = nextId /\ Last(is) - Head(is) + 1 = Len(is)
    BY <1>1 DEF Follows
  <2>2. Head(is) \in Nat /\ Last(is) \in Nat /\ Len(is) \in Nat /\ is \in Seq(Nat)
    BY <1>10, IdedFacts, Climbing DEF Ascending
  <2>3. nextId = first + staged /\ first \in Nat /\ staged \in 0 .. Chunk /\ encoder.received = first
    BY <1>1, <1>7 DEF CountInv
  <2>4. first + staged + Len(is) = Last(is) + 1
    <3> HIDE DEF is
    <3> QED BY <2>1, <2>2, <2>3, EncoderAssumption
  <2>5. Follows(Batch.ids)'
    BY <1>1, <1>3 DEF Follows
  <2> QED BY <1>1, <1>3, <2>2, <2>3, <2>4, <2>5 DEF CountInv
<1>12. OpenInv'
  BY <1>1, <1>3, <1>7, <1>9, <1>11 DEF OpenInv
<1> QED BY <1>4, <1>5, <1>12 DEF AgreeInv

\* The series that is dropped has a hole.
LEMMA DropAgrees ==
  ASSUME FeedsOrdered, SeriesInOrder, AgreeInv, AccountInv', Drop
  PROVE  AgreeInv'
<1>1. /\ at = "add" /\ ~Follows(Batch.ids) /\ at' = "idle" /\ encoder' = NoSeries
      /\ feed' = feed /\ pos' = pos /\ datasets' = datasets /\ closed' = closed
      /\ dropped' = dropped \cup {encoder.series}
  BY DEF Drop
<1>2. AccountInv /\ AtInv /\ AccountTypes /\ OpenInv /\ SettledInv
  BY DEF AgreeInv, AccountInv
<1>3. Kept' = Kept /\ ~Encoding'
  BY <1>1 DEF Kept, Encoding, NoSeries
<1>4. BeginInv' /\ OpenInv'
  BY <1>1, <1>3 DEF BeginInv, Beginning, OpenInv
<1>5. Encoding /\ Batch.kind = "images"
  BY <1>1, <1>2 DEF AtInv
<1>6. /\ \E e \in {Upto} : \E s \in 1 .. e : OpenAs(s, e)
      /\ Batch.series = encoder.series
  BY <1>1, <1>2, <1>5 DEF OpenInv
<1>7. PICK e \in {Upto} : \E s \in 1 .. e : OpenAs(s, e)
  BY <1>6
<1>8. PICK s \in 1 .. e : OpenAs(s, e)
  BY <1>7
<1>9. /\ pos \in 1 .. Len(feed) /\ pos = e + 1 /\ e \in Nat /\ e + 1 \in 1 .. Len(feed)
      /\ feed \in Feeds /\ Batch = feed[e + 1] /\ Len(feed) \in Nat
  BY <1>1, <1>2, <1>7, AccountFeed DEF AccountTypes, Batch, Upto
<1>10. /\ Series(s, e) /\ Total(s) \in Nat
       /\ encoder.series = feed[s].series /\ encoder.total = Total(s)
       /\ nextId = NextOf(s, e)
  BY <1>8 DEF OpenAs
<1>11. Series(s, e + 1)
  BY <1>5, <1>6, <1>9, <1>10, SeriesGrows
<1>12. Holed(s, e + 1)
  <2>1. ~(/\ Head(feed[e + 1].ids) = NextOf(s, e)
           /\ Last(feed[e + 1].ids) - Head(feed[e + 1].ids) + 1 = Len(feed[e + 1].ids)
           /\ Last(feed[e + 1].ids) < Total(s))
    BY <1>1, <1>9, <1>10 DEF Follows
  <2> QED BY <1>9, <1>10, <1>11, <2>1, UnfollowedHoled
<1>13. PICK f : f = e + 1
  OBVIOUS
<1>14. DroppedAs(encoder.series, s, f)
  <2>1. Series(s, f) /\ Holed(s, f)
    BY <1>11, <1>12, <1>13
  <2> QED BY <1>10, <2>1 DEF DroppedAs
<1>15. SettledInv'
  <2>1. PICK n : n = encoder.series
    OBVIOUS
  <2>2. DroppedAs(n, s, f)' /\ f \in 1 .. Len(feed') /\ s \in 1 .. f
    <3>1. DroppedAs(n, s, f)
      BY <1>14, <2>1
    <3>2. DroppedAs(n, s, f)'
      BY <1>1, <3>1, AsKept
    <3>3. f \in 1 .. Len(feed') /\ s \in 1 .. f
      BY <1>1, <1>9, <1>13
    <3> QED BY <3>2, <3>3
  <2>3. \A m \in dropped' : m \in dropped \/ m = n
    BY <1>1, <2>1
  <2>4. ASSUME NEW m \in dropped'
        PROVE  \E x \in 1 .. Len(feed') : \E r \in 1 .. x : DroppedAs(m, r, x)'
    <3>1. CASE m = n
      BY <2>2, <3>1
    <3>2. CASE m \in dropped
      BY <1>1, <1>2, <3>2, AsKept DEF SettledInv
    <3> QED BY <2>3, <3>1, <3>2
  <2>5. \A m \in Kept' \cup closed' :
          \E x \in 1 .. Len(feed') - 1 : \E r \in 1 .. x : WholeAs(m, r, x)'
    BY <1>1, <1>2, <1>3, AsKept DEF SettledInv
  <2> QED BY <2>4, <2>5 DEF SettledInv
<1> QED BY <1>4, <1>15 DEF AgreeInv

LEMMA CopyAgrees ==
  ASSUME FeedsOrdered, SeriesInOrder, AgreeInv, AccountInv', Copy
  PROVE  AgreeInv'
<1> DEFINE n == Min({Len(todo), Chunk - staged})
<1>1. /\ at = "copy" /\ todo # <<>> /\ staged' = staged + n
      /\ todo' = SubSeq(todo, n + 1, Len(todo)) /\ at' \in {"copy", "full"}
      /\ feed' = feed /\ pos' = pos /\ open' = open /\ encoder' = encoder
      /\ first' = first /\ nextId' = nextId
      /\ datasets' = datasets /\ closed' = closed /\ dropped' = dropped
  BY DEF Copy, sink, ids
<1>2. AccountInv /\ AtInv /\ AccountTypes /\ OpenInv /\ SettledInv
  BY DEF AgreeInv, AccountInv
<1>3. Kept' = Kept /\ Batch' = Batch
  BY <1>1 DEF Kept, Batch
<1>4. SettledInv'
  BY <1>1, <1>2, <1>3, SettledFrame
<1>5. BeginInv'
  BY <1>1 DEF BeginInv, Beginning
<1>6. Encoding /\ Batch.kind = "images"
  BY <1>1, <1>2 DEF AtInv
<1>7. /\ \E e \in {Upto} : \E s \in 1 .. e : OpenAs(s, e)
      /\ CountInv /\ open = encoder.series /\ Batch.series = encoder.series
  BY <1>1, <1>2, <1>6 DEF OpenInv
<1>8. Upto' = Upto
  BY <1>1 DEF Upto
<1>9. \E e \in {Upto'} : \E s \in 1 .. e : OpenAs(s, e)'
  BY <1>1, <1>7, <1>8, OpenFrame
<1>10. CountInv'
  <2>1. /\ first \in Nat /\ staged \in 0 .. Chunk /\ encoder.received = first
        /\ todo \in Seq(Nat) /\ Follows(Batch.ids)
        /\ first + staged + Len(todo) = Last(Batch.ids) + 1
    BY <1>1, <1>7 DEF CountInv
  <2>2. Len(todo) \in Nat /\ Chunk \in Nat
    BY <2>1, EncoderAssumption
  <2>3. n \in 0 .. Len(todo) /\ staged + n \in 0 .. Chunk
    <3>1. n = IF Len(todo) <= Chunk - staged THEN Len(todo) ELSE Chunk - staged
      BY <2>1, <2>2, LesserOf
    <3> QED BY <2>1, <2>2, <3>1
  <2> HIDE DEF n
  <2>4. todo' \in Seq(Nat) /\ Len(todo') = Len(todo) - n
    <3> DEFINE lo == n + 1
               hi == Len(todo)
    <3>1. lo \in Int /\ hi \in Int /\ \A i \in lo .. hi : todo[i] \in Nat
      BY <2>1, <2>2, <2>3
    <3>2. (IF lo <= hi THEN hi - lo + 1 ELSE 0) = Len(todo) - n
      BY <2>2, <2>3
    <3>3. todo' = SubSeq(todo, lo, hi)
      BY <1>1
    <3> HIDE DEF lo, hi
    <3>4. /\ SubSeq(todo, lo, hi) \in Seq(Nat)
          /\ Len(SubSeq(todo, lo, hi)) = (IF lo <= hi THEN hi - lo + 1 ELSE 0)
      BY <3>1, SubSeqProperties
    <3> QED BY <3>2, <3>3, <3>4
  <2>5. first' + staged' + Len(todo') = Last(Batch.ids) + 1
    <3> DEFINE a == Last(Batch.ids) + 1
    <3>1. first + staged + Len(todo) = a
      BY <2>1
    <3> HIDE DEF a
    <3>2. first' = first /\ staged' = staged + n /\ Len(todo') = Len(todo) - n
      BY <1>1, <2>4 DEF n
    <3>3. first + (staged + n) + (Len(todo) - n) = a
      BY <2>1, <2>2, <2>3, <3>1
    <3>4. first' + staged' + Len(todo') = a
      BY <3>2, <3>3
    <3> QED BY <3>4 DEF a
  <2>6. Follows(Batch.ids)'
    BY <1>1, <1>3, <2>1 DEF Follows
  <2> QED BY <1>1, <1>3, <2>1, <2>3, <2>4, <2>5, <2>6 DEF CountInv
<1>11. OpenInv'
  BY <1>1, <1>3, <1>7, <1>9, <1>10 DEF OpenInv
<1> QED BY <1>4, <1>5, <1>11 DEF AgreeInv

\* The batch continued the series, and all of it is staged or encoded.
LEMMA CopiedAgrees ==
  ASSUME FeedsOrdered, SeriesInOrder, AgreeInv, AccountInv', Copied
  PROVE  AgreeInv'
<1>1. /\ at = "copy" /\ todo = <<>> /\ nextId' = Last(Batch.ids) + 1 /\ at' = "idle"
      /\ feed' = feed /\ pos' = pos /\ open' = open /\ encoder' = encoder
      /\ first' = first /\ staged' = staged
      /\ datasets' = datasets /\ closed' = closed /\ dropped' = dropped
  BY DEF Copied, sink
<1>2. AccountInv /\ AtInv /\ AccountTypes /\ OpenInv /\ SettledInv
  BY DEF AgreeInv, AccountInv
<1>3. Kept' = Kept
  BY <1>1 DEF Kept
<1>4. SettledInv'
  BY <1>1, <1>2, <1>3, SettledFrame
<1>5. BeginInv'
  BY <1>1 DEF BeginInv, Beginning
<1>6. Encoding /\ Batch.kind = "images"
  BY <1>1, <1>2 DEF AtInv
<1>7. /\ \E e \in {Upto} : \E s \in 1 .. e : OpenAs(s, e)
      /\ CountInv /\ open = encoder.series /\ Batch.series = encoder.series
  BY <1>1, <1>2, <1>6 DEF OpenInv
<1>8. /\ first \in Nat /\ staged \in 0 .. Chunk /\ encoder.received = first
      /\ Follows(Batch.ids) /\ first + staged + Len(todo) = Last(Batch.ids) + 1
  BY <1>1, <1>7 DEF CountInv
<1>9. PICK e \in {Upto} : \E s \in 1 .. e : OpenAs(s, e)
  BY <1>7
<1>10. PICK s \in 1 .. e : OpenAs(s, e)
  BY <1>9
<1>11. /\ pos \in 1 .. Len(feed) /\ pos = e + 1 /\ e \in Nat /\ e + 1 \in 1 .. Len(feed)
       /\ feed \in Feeds /\ Batch = feed[e + 1] /\ Len(feed) \in Nat
  BY <1>1, <1>2, <1>9, AccountFeed DEF AccountTypes, Batch, Upto
<1>12. /\ Series(s, e) /\ Total(s) \in Nat
       /\ encoder.series = feed[s].series /\ encoder.total = Total(s)
       /\ nextId = NextOf(s, e) /\ Held(s, e) = 0 .. NextOf(s, e) - 1
  BY <1>10 DEF OpenAs
<1>13. Series(s, e + 1)
  BY <1>6, <1>7, <1>11, <1>12, SeriesGrows
<1>14. Held(s, e + 1) = 0 .. NextOf(s, e + 1) - 1
  <2>1. Head(feed[e + 1].ids) = NextOf(s, e)
    BY <1>8, <1>11, <1>12 DEF Follows
  <2>2. Last(feed[e + 1].ids) - Head(feed[e + 1].ids) + 1 = Len(feed[e + 1].ids)
    BY <1>8, <1>11 DEF Follows
  <2> QED BY <1>11, <1>12, <1>13, <2>1, <2>2, FollowingWhole
<1>15. NextOf(s, e + 1) = Last(feed[e + 1].ids) + 1
  <2>1. Ascending(feed[e + 1].ids)
    BY <1>6, <1>11, BatchesOf
  <2> QED BY <1>11, <2>1, GotGrows
<1>16. PICK f : f = e + 1
  OBVIOUS
<1>17. OpenAs(s, f)'
  <2>1. /\ Series(s, f)' <=> Series(s, f)
        /\ Held(s, f)' = Held(s, f) /\ NextOf(s, f)' = NextOf(s, f) /\ Total(s)' = Total(s)
    BY <1>1, FeedKept, AsKept
  <2>2. nextId' = NextOf(s, f)' /\ Held(s, f)' = 0 .. NextOf(s, f)' - 1 /\ Series(s, f)'
    BY <1>1, <1>11, <1>13, <1>14, <1>15, <1>16, <2>1
  <2> QED BY <1>1, <1>12, <2>1, <2>2 DEF OpenAs
<1>18. f \in {Upto'} /\ s \in 1 .. f
  BY <1>1, <1>11, <1>16 DEF Upto
<1>19. CountInv'
  <2>1. nextId' = first' + staged'
    <3>1. Len(todo) = 0
      BY <1>1
    <3> QED BY <1>1, <1>8, <3>1
  <2> QED BY <1>1, <1>8, <2>1 DEF CountInv
<1>20. OpenInv'
  BY <1>1, <1>7, <1>17, <1>18, <1>19 DEF OpenInv
<1> QED BY <1>4, <1>5, <1>20 DEF AgreeInv

LEMMA RunAgrees ==
  ASSUME AgreeInv, AccountInv',
         UNCHANGED <<feed, pos, at, open, todo, encoder, staged, first, nextId, datasets, closed, dropped>>
  PROVE  AgreeInv'
<1>1. Kept' = Kept /\ Batch' = Batch /\ (Encoding' <=> Encoding) /\ Upto' = Upto
      /\ (Beginning' <=> Beginning)
  BY DEF Kept, Batch, Encoding, NoSeries, Upto, Beginning
<1>2. OpenInv /\ BeginInv /\ SettledInv
  BY DEF AgreeInv
<1>3. SettledInv'
  BY <1>1, <1>2, SettledFrame
<1>4. BeginInv'
  BY <1>1, <1>2 DEF BeginInv
<1>5. OpenInv'
  <2> SUFFICES ASSUME Encoding, at # "failed" PROVE OpenInv'
    BY <1>1 DEF OpenInv
  <2>1. \E e \in {Upto'} : \E s \in 1 .. e : OpenAs(s, e)'
    BY <1>1, <1>2, OpenFrame DEF OpenInv
  <2>2. CountInv'
    BY <1>1, <1>2 DEF OpenInv, CountInv, Follows
  <2> QED BY <1>1, <1>2, <2>1, <2>2 DEF OpenInv
<1> QED BY <1>3, <1>4, <1>5 DEF AgreeInv

LEMMA EncodeAgrees ==
  ASSUME FeedsOrdered, SeriesInOrder, AgreeInv, AccountInv', Encode
  PROVE  AgreeInv'
<1> DEFINE new == {<<first + i - 1, staging[i]>> : i \in 1 .. staged}
<1>1. /\ at \in {"full", "end"} /\ at' = IF at = "full" THEN "copy" ELSE "end"
      /\ encoder' = [encoder EXCEPT !.received = @ + staged, !.got = @ \cup new]
      /\ first' = first + staged /\ staged' = 0
      /\ feed' = feed /\ pos' = pos /\ open' = open /\ todo' = todo /\ nextId' = nextId
      /\ datasets' = datasets /\ closed' = closed /\ dropped' = dropped
  BY DEF Encode, sink
<1> HIDE DEF new
<1>2. AccountInv /\ AtInv /\ AccountTypes /\ OpenInv /\ BeginInv /\ SettledInv
  BY DEF AgreeInv, AccountInv
<1>3. Kept' = Kept /\ Batch' = Batch
  BY <1>1 DEF Kept, Batch
<1>4. SettledInv'
  BY <1>1, <1>2, <1>3, SettledFrame
<1>5. BeginInv'
  BY <1>1, <1>2, <1>3 DEF BeginInv, Beginning
<1>6. Encoding
  BY <1>1, <1>2 DEF AtInv
<1>7. /\ encoder'.series = encoder.series /\ encoder'.total = encoder.total
      /\ encoder'.received = encoder.received + staged
  <2>1. PICK s, t, r, g : s = encoder.series /\ t = encoder.total /\ r = encoder.received
                          /\ g = encoder.got
    OBVIOUS
  <2>2. encoder \in [series : {s}, total : {t}, received : {r}, got : {g}]
    <3>1. encoder = [series |-> s, total |-> t, received |-> r, got |-> g]
      BY <1>2, <1>6, <2>1, Zenon DEF AccountTypes
    <3> QED BY <3>1
  <2>3. encoder' \in [series : {s}, total : {t}, received : {r + staged}, got : {g \cup new}]
    BY <1>1, <2>2
  <2> QED BY <2>1, <2>3
<1>8. /\ \E e \in {Upto} : \E s \in 1 .. e : OpenAs(s, e)
      /\ CountInv
  BY <1>1, <1>2, <1>6 DEF OpenInv
<1>9. Upto' = Upto
  BY <1>1 DEF Upto
<1>10. \E e \in {Upto'} : \E s \in 1 .. e : OpenAs(s, e)'
  BY <1>1, <1>7, <1>8, <1>9, OpenFrame
<1>11. first \in Nat /\ staged \in 0 .. Chunk /\ encoder.received = first /\ Chunk \in Nat
  BY <1>8, EncoderAssumption DEF CountInv
<1>12. /\ first' \in Nat /\ staged' \in 0 .. Chunk /\ encoder'.received = first'
       /\ first' + staged' = first + staged
  BY <1>1, <1>7, <1>11
<1>13. CountInv'
  <2>1. CASE at = "full"
    <3>1. /\ todo \in Seq(Nat) /\ Follows(Batch.ids)
          /\ first + staged + Len(todo) = Last(Batch.ids) + 1
      BY <1>8, <2>1 DEF CountInv
    <3>2. first' + staged' + Len(todo') = Last(Batch.ids) + 1
      BY <1>1, <1>12, <3>1
    <3>3. Follows(Batch.ids)'
      BY <1>1, <1>3, <1>7, <3>1 DEF Follows
    <3> QED BY <1>1, <1>3, <1>12, <2>1, <3>1, <3>2, <3>3 DEF CountInv
  <2>2. CASE at = "end"
    <3>1. nextId = first + staged
      BY <1>8, <2>2 DEF CountInv
    <3>2. nextId' = first' + staged' /\ at' = "end"
      BY <1>1, <1>12, <2>2, <3>1
    <3> QED BY <1>12, <3>2 DEF CountInv
  <2> QED BY <1>1, <2>1, <2>2
<1>14. OpenInv'
  <2>1. /\ at # "end" => open = encoder.series /\ Batch.series = encoder.series
        /\ at = "end" => Batch.kind # "images"
    BY <1>1, <1>2, <1>6 DEF OpenInv
  <2>2. (at' = "end" <=> at = "end") /\ at' \in {"copy", "end"}
    BY <1>1
  <2> QED BY <1>1, <1>3, <1>7, <1>10, <1>13, <2>1, <2>2 DEF OpenInv
<1> QED BY <1>4, <1>5, <1>14 DEF AgreeInv

\* What is kept or closed was, or is the series that ends.
LEMMA CompleteKeeps ==
  ASSUME IsSequence(datasets), Complete
  PROVE  /\ Kept' \cup closed' \subseteq Kept \cup closed \cup {encoder.series}
         /\ encoder.received # encoder.total => Kept' = Kept /\ closed' = closed
<1> DEFINE all == Append(datasets, encoder)
           over == IF Keep = 0 \/ Len(all) <= Keep THEN 0 ELSE Len(all) - Keep
           T == {datasets[i] : i \in DOMAIN datasets} \cup {encoder}
<1>1. encoder.received # encoder.total => datasets' = datasets /\ closed' = closed
  BY DEF Complete
<1>2. encoder.received = encoder.total =>
        /\ datasets' = SubSeq(all, over + 1, Len(all))
        /\ closed' = closed \cup {all[i].series : i \in 1 .. over}
  BY DEF Complete
<1>3. ASSUME encoder.received = encoder.total
      PROVE  Kept' \cup closed' \subseteq Kept \cup closed \cup {encoder.series}
  <2>1. datasets \in Seq(T)
    <3>1. PICK S : datasets \in Seq(S)
      BY DEF IsSequence
    <3>2. DOMAIN datasets = 1 .. Len(datasets) /\ Len(datasets) \in Nat
      BY <3>1
    <3>3. datasets = [i \in 1 .. Len(datasets) |-> datasets[i]]
      BY <3>1
    <3> QED BY <3>2, <3>3
  <2>2. encoder \in T
    OBVIOUS
  <2>3. \A d \in T : d.series \in Kept \cup {encoder.series}
    BY DEF Kept
  <2> HIDE DEF T
  <2>4. /\ all \in Seq(T) /\ Len(all) = Len(datasets) + 1 /\ Len(datasets) \in Nat
    BY <2>1, <2>2, AppendProperties
  <2>5. over \in 0 .. Len(all)
    BY <2>4, EncoderAssumption
  <2>6. \A i \in 1 .. Len(all) : all[i] \in T
    <3> HIDE DEF all
    <3> QED BY <2>4
  <2> HIDE DEF all, over
  <2>7. datasets' \in Seq(T)
    <3> DEFINE lo == over + 1
               hi == Len(all)
    <3>1. lo \in Int /\ hi \in Int /\ \A i \in lo .. hi : all[i] \in T
      BY <2>4, <2>5, <2>6
    <3>2. datasets' = SubSeq(all, lo, hi)
      BY <1>2, <1>3
    <3> HIDE DEF lo, hi
    <3>3. SubSeq(all, lo, hi) \in Seq(T)
      BY <3>1, SubSeqProperties
    <3> QED BY <3>2, <3>3
  <2>8. \A i \in DOMAIN datasets' : datasets'[i] \in T
    BY <2>7
  <2>9. Kept' \subseteq Kept \cup {encoder.series}
    BY <2>3, <2>8 DEF Kept
  <2>10. \A i \in 1 .. over : all[i] \in T
    BY <2>4, <2>5, <2>6
  <2>11. closed' \subseteq closed \cup Kept \cup {encoder.series}
    BY <1>2, <1>3, <2>3, <2>10
  <2> QED BY <2>9, <2>11
<1>4. encoder.received # encoder.total => Kept' = Kept
  BY <1>1 DEF Kept
<1> QED BY <1>1, <1>3, <1>4

LEMMA CompleteAgrees ==
  ASSUME FeedsOrdered, SeriesInOrder, AgreeInv, AccountInv', Complete
  PROVE  AgreeInv'
<1>1. /\ at = "end" /\ staged = 0 /\ encoder' = NoSeries /\ feed' = feed /\ pos' = pos /\ open' = open
      /\ at' = IF Batch.kind = "start" THEN "begin" ELSE "idle"
      /\ encoder.received = encoder.total => dropped' = dropped
      /\ encoder.received # encoder.total => dropped' = dropped \cup {encoder.series}
  BY DEF Complete
<1>2. AccountInv /\ AtInv /\ AccountTypes /\ OpenInv /\ BeginInv /\ SettledInv
  BY DEF AgreeInv, AccountInv
<1>3. ~Encoding' /\ Batch' = Batch /\ Encoding
  BY <1>1, <1>2 DEF Encoding, NoSeries, Batch, AtInv
<1>4. OpenInv'
  BY <1>3 DEF OpenInv
<1>5. BeginInv'
  <2>1. Beginning' => Beginning
    BY <1>1, <1>3 DEF Beginning
  <2> QED BY <1>1, <1>2, <1>3, <2>1 DEF BeginInv
<1>6. /\ \E e \in {Upto} : \E s \in 1 .. e : OpenAs(s, e)
      /\ CountInv /\ Batch.kind # "images"
  BY <1>1, <1>2, <1>3 DEF OpenInv
<1>7. PICK e \in {Upto} : \E s \in 1 .. e : OpenAs(s, e)
  BY <1>6
<1>8. PICK s \in 1 .. e : OpenAs(s, e)
  BY <1>7
<1>9. /\ pos = e + 1 /\ e \in Nat /\ e + 1 \in 1 .. Len(feed)
      /\ feed \in Feeds /\ Batch = feed[e + 1] /\ Len(feed) \in Nat
  BY <1>1, <1>2, <1>7, AccountFeed DEF AccountTypes, Batch, Upto
<1>10. /\ Series(s, e) /\ Total(s) \in Nat
       /\ encoder.series = feed[s].series /\ encoder.total = Total(s)
       /\ nextId = NextOf(s, e) /\ Held(s, e) = 0 .. NextOf(s, e) - 1
  BY <1>8 DEF OpenAs
<1>11. encoder.received = NextOf(s, e) /\ NextOf(s, e) \in Nat
  <2>1. first \in Nat /\ encoder.received = first /\ nextId = first + staged
    BY <1>1, <1>6 DEF CountInv
  <2> QED BY <1>1, <1>10, <2>1
<1>12. e \in 1 .. Len(feed) - 1 /\ s \in 1 .. e /\ e \in 1 .. Len(feed)
  BY <1>9
<1>13. PICK n : n = encoder.series
  OBVIOUS
<1>14. IsSequence(datasets)
  BY <1>2 DEF AccountTypes
<1>15. /\ Kept' \cup closed' \subseteq Kept \cup closed \cup {n}
       /\ encoder.received # encoder.total => Kept' = Kept /\ closed' = closed
  BY <1>13, <1>14, CompleteKeeps
<1>16. CASE encoder.received = encoder.total
  <2>1. WholeAs(n, s, e)
    <3>1. Held(s, e) = 0 .. Total(s) - 1
      BY <1>10, <1>11, <1>16
    <3>2. feed[e + 1].kind # "images"
      BY <1>6, <1>9
    <3> QED BY <1>10, <1>13, <3>1, <3>2 DEF WholeAs
  <2>2. WholeAs(n, s, e)'
    BY <1>1, <2>1, AsKept
  <2>3. ASSUME NEW m \in Kept' \cup closed'
        PROVE  \E x \in 1 .. Len(feed') - 1 : \E r \in 1 .. x : WholeAs(m, r, x)'
    <3>1. CASE m = n
      BY <1>1, <1>12, <2>2, <3>1
    <3>2. CASE m \in Kept \cup closed
      BY <1>1, <1>2, <3>2, AsKept DEF SettledInv
    <3> QED BY <1>15, <3>1, <3>2
  <2>4. \A m \in dropped' : \E x \in 1 .. Len(feed') : \E r \in 1 .. x : DroppedAs(m, r, x)'
    BY <1>1, <1>2, <1>16, AsKept DEF SettledInv
  <2>5. SettledInv'
    BY <2>3, <2>4 DEF SettledInv
  <2> QED BY <1>4, <1>5, <2>5 DEF AgreeInv
<1>17. CASE encoder.received # encoder.total
  <2>1. DroppedAs(n, s, e)
    <3>1. Held(s, e) # 0 .. Total(s) - 1
      <4> DEFINE a == NextOf(s, e)
                 b == Total(s)
      <4>1. a \in Nat /\ b \in Nat /\ a # b
        BY <1>10, <1>11, <1>17
      <4> HIDE DEF a, b
      <4>2. CASE a < b
        <5>1. a \in 0 .. b - 1 /\ a \notin 0 .. a - 1
          BY <4>1, <4>2
        <5> QED BY <1>10, <5>1 DEF a, b
      <4>3. CASE b < a
        <5>1. b \in 0 .. a - 1 /\ b \notin 0 .. b - 1
          BY <4>1, <4>3
        <5> QED BY <1>10, <5>1 DEF a, b
      <4> QED BY <4>1, <4>2, <4>3
    <3>2. feed[e + 1].kind # "images"
      BY <1>6, <1>9
    <3> QED BY <1>10, <1>13, <3>1, <3>2 DEF DroppedAs
  <2>2. DroppedAs(n, s, e)'
    BY <1>1, <2>1, AsKept
  <2>3. ASSUME NEW m \in dropped'
        PROVE  \E x \in 1 .. Len(feed') : \E r \in 1 .. x : DroppedAs(m, r, x)'
    <3>1. CASE m = n
      BY <1>1, <1>12, <2>2, <3>1
    <3>2. CASE m \in dropped
      BY <1>1, <1>2, <3>2, AsKept DEF SettledInv
    <3> QED BY <1>1, <1>13, <1>17, <3>1, <3>2
  <2>4. \A m \in Kept' \cup closed' :
          \E x \in 1 .. Len(feed') - 1 : \E r \in 1 .. x : WholeAs(m, r, x)'
    BY <1>1, <1>2, <1>15, <1>17, AsKept DEF SettledInv
  <2>5. SettledInv'
    BY <2>3, <2>4 DEF SettledInv
  <2> QED BY <1>4, <1>5, <2>5 DEF AgreeInv
<1> QED BY <1>16, <1>17

LEMMA AgreeNext ==
  ASSUME FeedsOrdered, SeriesRise, SeriesInOrder, AgreeInv, [Next]_vars
  PROVE  AgreeInv'
<1>1. AccountInv'
  BY AccountNext DEF AgreeInv
<1>2. CASE Begin BY <1>1, <1>2, BeginAgrees
<1>3. CASE Add BY <1>1, <1>3, AddAgrees
<1>4. CASE Drop BY <1>1, <1>4, DropAgrees
<1>5. CASE Copy BY <1>1, <1>5, CopyAgrees
<1>6. CASE Copied BY <1>1, <1>6, CopiedAgrees
<1>7. CASE Encode BY <1>1, <1>7, EncodeAgrees
<1>8. CASE Complete BY <1>1, <1>8, CompleteAgrees
<1>9. CASE \E st \in Streams : Take(st) BY <1>1, <1>9, TakeAgrees
<1>10. CASE (\E st \in Streams : Run(st)) \/ UNCHANGED vars
  <2>1. UNCHANGED <<feed, pos, at, open, todo, encoder, staged, first, nextId, datasets, closed, dropped>>
    BY <1>10 DEF Run, vars, host, ids, sink
  <2> QED BY <1>1, <2>1, RunAgrees
<1> QED BY <1>2, <1>3, <1>4, <1>5, <1>6, <1>7, <1>8, <1>9, <1>10 DEF Next

-----------------------------------------------------------------------------
(* The two consumers agree.                                                 *)

\* Without a gap the ids are all of those below the next one.
LEMMA NoGaps ==
  ASSUME NEW got, NEW next, UpTo(got, next), Gaps(got) = {}
  PROVE  got = 0 .. next - 1
<1>1. next \in Nat /\ got \in SUBSET Nat /\ (\A id \in got : id < next) /\ (next # 0 => next - 1 \in got)
  BY DEF UpTo
<1>2. ASSUME NEW m \in 0 .. next - 1, m \notin got PROVE FALSE
  <2> DEFINE later == {id \in got : id > m}
  <2>1. next - 1 \in later
    <3>1. next # 0 /\ m \in Nat /\ next - 1 # m
      BY <1>1, <1>2
    <3>2. next - 1 > m /\ next - 1 \in got
      BY <1>1, <1>2, <3>1
    <3> QED BY <3>2
  <2>2. PICK id \in later : \A k \in later : id <= k
    <3>1. later \in SUBSET Nat /\ later # {}
      BY <1>1, <2>1
    <3> HIDE DEF later
    <3> QED BY <3>1, LeastExists
  <2>3. id \in got /\ id > m /\ id \in Nat /\ m \in Nat
    BY <1>1, <2>2
  <2>4. id - 1 \notin got
    <3> SUFFICES ASSUME id - 1 \in got PROVE FALSE
      OBVIOUS
    <3>1. id - 1 # m
      BY <1>2
    <3>2. id - 1 > m
      BY <2>3, <3>1
    <3>3. id - 1 \in later
      BY <3>2
    <3>4. id <= id - 1
      BY <2>2, <3>3
    <3> QED BY <2>3, <3>4
  <2>5. id \in Gaps(got)
    BY <2>3, <2>4 DEF Gaps
  <2> QED BY <2>5
<1>3. \A id \in got : id \in 0 .. next - 1
  BY <1>1
<1> QED BY <1>2, <1>3

\* What the validator asks of the counts of a series.
LEMMA ValidWhole ==
  ASSUME FeedsOrdered, SeriesInOrder, feed \in Feeds, NEW e \in Nat, e <= Len(feed),
         NEW s \in 1 .. e, Series(s, e), Total(s) \in Nat
  PROVE  (CountsOf(s, e).received = Total(s) /\ CountsOf(s, e).gaps = 0)
           <=> Held(s, e) = 0 .. Total(s) - 1
<1> DEFINE got == Held(s, e)
           next == NextOf(s, e)
           t == Total(s)
<1>1. UpTo(got, next) /\ Cardinality(Got(s, e)) = Cardinality(got)
  BY HeldUpTo
<1>2. CountsOf(s, e).received = Cardinality(got) /\ CountsOf(s, e).gaps = Cardinality(Gaps(got))
  BY <1>1 DEF CountsOf
<1>3. next \in Nat /\ got \in SUBSET Nat /\ IsFiniteSet(got)
  BY <1>1 DEF UpTo
<1> HIDE DEF got, next, t
<1>4. ASSUME NEW n \in Nat PROVE Cardinality(0 .. n - 1) = n
  <2>1. 0 \in Int /\ n - 1 \in Int /\ (0 > n - 1 => n = 0) /\ (n - 1) - 0 + 1 = n
    OBVIOUS
  <2> QED BY <2>1, FS_Interval
<1>5. t \in Nat
  BY DEF t
<1>6. ASSUME Cardinality(got) = t, Cardinality(Gaps(got)) = 0 PROVE got = 0 .. t - 1
  <2>1. IsFiniteSet(Gaps(got))
    <3>1. Gaps(got) \in SUBSET got
      BY DEF Gaps
    <3> QED BY <1>3, <3>1, FS_Subset
  <2>2. Gaps(got) = {}
    BY <1>6, <2>1, FS_EmptySet
  <2>3. got = 0 .. next - 1
    BY <1>1, <2>2, NoGaps
  <2>4. next = t
    BY <1>3, <1>4, <1>6, <2>3
  <2> QED BY <2>3, <2>4
<1>7. ASSUME got = 0 .. t - 1 PROVE Cardinality(got) = t /\ Cardinality(Gaps(got)) = 0
  <2>1. Cardinality(got) = t
    BY <1>4, <1>5, <1>7
  <2>2. Gaps(got) = {}
    BY <1>5, <1>7 DEF Gaps
  <2> QED BY <2>1, <2>2, FS_EmptySet
<1>8. (Cardinality(got) = t /\ Cardinality(Gaps(got)) = 0) <=> got = 0 .. t - 1
  BY <1>6, <1>7
<1> QED BY <1>2, <1>8 DEF got, t

LEMMA ExpectedIs ==
  ASSUME FeedsOrdered, SeriesInOrder, feed \in Feeds, NEW s \in 1 .. Len(feed),
         feed[s].kind = "start"
  PROVE  Expected(feed[s].series) = Total(s)
<1> DEFINE n == feed[s].series
           m == CHOOSE x \in ToSet(feed) : x.kind = "start" /\ x.series = n
<1>1. DOMAIN feed = 1 .. Len(feed)
  BY BatchesOf
<1>2. feed[s] \in ToSet(feed)
  BY <1>1 DEF ToSet
<1>3. m \in ToSet(feed) /\ m.kind = "start" /\ m.series = n
  BY <1>2
<1> HIDE DEF m
<1>4. PICK p \in 1 .. Len(feed) : m = feed[p]
  BY <1>1, <1>3 DEF ToSet
<1>5. p = s
  BY <1>3, <1>4, BatchesOf
<1> QED BY <1>4, <1>5 DEF Expected, Total, m

\* A series has one boundary.
LEMMA OneBoundary ==
  ASSUME NEW s \in Nat, NEW e \in Nat, NEW f \in Nat, Series(s, e), Series(s, f),
         feed[e + 1].kind # "images", feed[f + 1].kind # "images"
  PROVE  e = f
<1>1. ~(e < f)
  <2> SUFFICES ASSUME e < f PROVE FALSE
    OBVIOUS
  <2>1. e + 1 \in s + 1 .. f
    BY DEF Series
  <2> QED BY <2>1 DEF Series
<1>2. ~(f < e)
  <2> SUFFICES ASSUME f < e PROVE FALSE
    OBVIOUS
  <2>1. f + 1 \in s + 1 .. e
    BY DEF Series
  <2> QED BY <2>1 DEF Series
<1> QED BY <1>1, <1>2

LEMMA ResultAgrees ==
  ASSUME FeedsOrdered, SeriesInOrder, DetectorInv, SettledInv, OnceInv,
         NEW r, NEW e \in 1 .. taken - 1, NEW s \in 1 .. e, ResultOf(r, s, e),
         r.series \in Kept \cup closed \cup dropped
  PROVE  Validates(r, Expected(r.series)) <=> r.series \in Kept \cup closed
<1> DEFINE n == r.series
<1>1. /\ feed \in Feeds /\ Len(feed) \in Nat /\ taken \in Nat /\ taken <= scanned
      /\ scanned <= Len(feed) /\ scanned \in Nat /\ PlacingInv
  <2>1. feed \in Feeds /\ scanned \in 0 .. Len(feed) /\ taken \in 0 .. scanned /\ PlacingInv
    BY DEF DetectorInv, PlacingInv
  <2> QED BY <2>1, BatchesOf
<1>2. /\ e \in Nat /\ s \in Nat /\ e <= Len(feed) /\ s \in 1 .. Len(feed) /\ s \in 1 .. scanned
      /\ e + 1 \in 1 .. Len(feed)
  BY <1>1
<1>3. /\ Series(s, e) /\ feed[e + 1].kind = "end" /\ n = feed[s].series
      /\ r.counts = CountsOf(s, e) /\ feed[s].kind = "start"
  BY DEF ResultOf, Series
<1>4. Total(s) \in Nat
  <2>1. ~ParseFails(feed[s])
    BY <1>1, <1>2, <1>3 DEF PlacingInv
  <2> QED BY <2>1, TotalIs
<1>5. Expected(n) = Total(s)
  BY <1>1, <1>2, <1>3, ExpectedIs
<1>6. Validates(r, Expected(n)) <=> Held(s, e) = 0 .. Total(s) - 1
  <2>1. Validates(r, Expected(n)) <=> CountsOf(s, e).received = Total(s) /\ CountsOf(s, e).gaps = 0
    BY <1>3, <1>5 DEF Validates
  <2> QED BY <1>1, <1>2, <1>3, <1>4, <2>1, ValidWhole
<1>7. ASSUME n \in Kept \cup closed PROVE Held(s, e) = 0 .. Total(s) - 1
  <2>1. PICK f \in 1 .. Len(feed) - 1 : \E q \in 1 .. f : WholeAs(n, q, f)
    BY <1>7 DEF SettledInv
  <2>2. PICK q \in 1 .. f : WholeAs(n, q, f)
    BY <2>1
  <2>3. /\ feed[q].series = n /\ Series(q, f) /\ feed[f + 1].kind # "images"
        /\ Held(q, f) = 0 .. Total(q) - 1 /\ feed[q].kind = "start"
    BY <2>2 DEF WholeAs, Series
  <2>4. q = s
    <3>1. q \in 1 .. Len(feed)
      BY <1>1
    <3> QED BY <1>1, <1>2, <1>3, <2>3, <3>1, BatchesOf
  <2>5. f = e
    <3>1. f \in Nat /\ feed[e + 1].kind # "images"
      BY <1>3
    <3> QED BY <1>2, <1>3, <2>3, <2>4, <3>1, OneBoundary
  <2> QED BY <2>3, <2>4, <2>5
<1>8. ASSUME n \in dropped PROVE Held(s, e) # 0 .. Total(s) - 1
  <2>1. PICK f \in 1 .. Len(feed) : \E q \in 1 .. f : DroppedAs(n, q, f)
    BY <1>8 DEF SettledInv
  <2>2. PICK q \in 1 .. f : DroppedAs(n, q, f)
    BY <2>1
  <2>3. /\ feed[q].series = n /\ Series(q, f) /\ feed[q].kind = "start"
        /\ \/ Holed(q, f)
           \/ feed[f + 1].kind # "images" /\ Held(q, f) # 0 .. Total(q) - 1
    BY <2>2 DEF DroppedAs, Series
  <2>4. q = s
    <3>1. q \in 1 .. Len(feed)
      BY <1>1
    <3> QED BY <1>1, <1>2, <1>3, <2>3, <3>1, BatchesOf
  <2>5. CASE Holed(q, f)
    <3>1. f <= e
      <4> SUFFICES ASSUME e < f PROVE FALSE
        BY <1>2
      <4>1. e + 1 \in q + 1 .. f
        BY <1>2, <2>4
      <4>2. feed[e + 1].kind = "images"
        BY <2>3, <4>1 DEF Series
      <4> QED BY <1>3, <4>2
    <3>2. f \in 0 .. e /\ s \in 1 .. f
      BY <1>2, <2>4, <3>1
    <3>3. Holed(s, e)
      BY <1>1, <1>2, <1>3, <2>4, <2>5, <3>2, HoledStays
    <3>4. Held(s, e) \in SUBSET Nat
      BY <1>1, <1>2, <1>3, HeldUpTo DEF UpTo
    <3> QED BY <1>4, <3>3, <3>4, HoledNotWhole
  <2>6. CASE feed[f + 1].kind # "images" /\ Held(q, f) # 0 .. Total(q) - 1
    <3>1. f \in Nat /\ feed[e + 1].kind # "images"
      BY <1>3
    <3>2. f = e
      BY <1>2, <1>3, <2>3, <2>4, <2>6, <3>1, OneBoundary
    <3> QED BY <2>4, <2>6, <3>2
  <2> QED BY <2>3, <2>5, <2>6
<1> HIDE DEF n
<1>9. n \in dropped => n \notin Kept \cup closed
  BY DEF OnceInv
<1>10. Validates(r, Expected(n)) <=> n \in Kept \cup closed
  BY <1>6, <1>7, <1>8, <1>9 DEF n
<1> QED BY <1>10 DEF n

\* The two consumers agree on every series that both have finished, in whatever order they get
\* there: the encoder keeps, and later closes, the series that validate for the detector, and
\* drops the others (ans_encoding.py: add, end, _drop; processing.py: VirtualDetectorOp).
THEOREM ConsumersAlwaysAgree ==
  FeedsOrdered /\ SeriesRise /\ SeriesInOrder => (ConsumersSpec => []ConsumersAgree)
<1> SUFFICES ASSUME FeedsOrdered, SeriesRise, SeriesInOrder PROVE ConsumersSpec => []ConsumersAgree
  OBVIOUS
<1> DEFINE Both == DetectorInv /\ AgreeInv
<1>1. ConsumersInit => Both
  BY DetectorInit, AgreeInit DEF ConsumersInit
<1>2. Both /\ [ConsumersNext]_allVars => Both'
  <2> SUFFICES ASSUME DetectorInv, AgreeInv, [ConsumersNext]_allVars PROVE DetectorInv' /\ AgreeInv'
    OBVIOUS
  <2>1. [Next]_vars
    BY DEF ConsumersNext, Encodes, Detects, allVars
  <2>2. DetectorInv'
    BY DetectorNext
  <2>3. AgreeInv'
    BY <2>1, AgreeNext
  <2> QED BY <2>2, <2>3
<1>3. Both /\ SeriesAccounted => ConsumersAgree
  <2> SUFFICES ASSUME DetectorInv, AgreeInv, SeriesAccounted PROVE ConsumersAgree
    OBVIOUS
  <2>1. SettledInv /\ OnceInv
    BY DEF AgreeInv, AccountInv
  <2>2. DOMAIN results = 1 .. Len(results)
    <3>1. PICK S : results \in Seq(S)
      BY DEF DetectorInv, DetectingInv, IsSequence
    <3> QED BY <3>1
  <2>3. \A i \in DOMAIN results :
          \E e \in 1 .. taken - 1 : \E s \in 1 .. e : ResultOf(results[i], s, e)
    BY <2>2 DEF DetectorInv, DetectingInv
  <2>4. ASSUME NEW i \in DOMAIN results, results[i].series \in Kept \cup closed \cup dropped
        PROVE  Validates(results[i], Expected(results[i].series)) <=> results[i].series \in Kept \cup closed
    <3>1. PICK e \in 1 .. taken - 1 : \E s \in 1 .. e : ResultOf(results[i], s, e)
      BY <2>3
    <3>2. PICK s \in 1 .. e : ResultOf(results[i], s, e)
      BY <3>1
    <3> QED BY <2>1, <2>4, <3>2, ResultAgrees
  <2> QED BY <2>4 DEF ConsumersAgree
<1>4. ConsumersSpec => []SeriesAccounted
  BY SeriesAreAccounted
<1> HIDE DEF Both
<1> QED BY <1>1, <1>2, <1>3, <1>4, PTL DEF ConsumersSpec
=============================================================================
