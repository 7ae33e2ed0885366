------------------------------ MODULE AnsEncoder ------------------------------
(***************************************************************************)
(* The ANS encoder (algorithms/ans_encoding.py, called by processing.py     *)
(* AnsEncoderOp): every activation copies its images into a staging chunk   *)
(* on its own CUDA stream and goes on; a full chunk is encoded by a later   *)
(* activation, behind the events of the copies.  The batches are those of   *)
(* SeriesMessages.                                                          *)
(***************************************************************************)
EXTENDS SeriesMessages, SequencesExt, FiniteSetsExt

CONSTANTS
  Streams,     \* CUDA streams the runtime may give an activation
  Feeds,       \* the batches of a run
  Chunk,       \* CHUNK
  Keep         \* encoder.keep (0: all)

ASSUME EncoderAssumption == Chunk \in Nat \ {0} /\ Keep \in Nat

VARIABLES
  feed, pos,
  cur,         \* the activation's stream
  at,          \* "idle", "end", "begin", "add", "copy", "full" or "failed"
  open,        \* the operator's series, 0 for none
  todo,        \* ids of the batch still to be copied
  encoder,     \* the series being encoded, or NoSeries
  buffer, shape, staging,   \* the staging chunk: its allocation, image shape and contents
  staged, first, nextId,
  copies,      \* copies whose events the next encode waits for
  queue,       \* copies that each stream has still to carry out
  datasets,    \* series kept, oldest first
  closed, dropped,
  stray        \* history: a copy of a dropped series ran into the chunk of a later one

host == <<feed, pos, cur, at, open, todo>>
ids  == <<first, nextId>>
sink == <<datasets, closed, dropped>>
vars == <<host, encoder, buffer, shape, staging, staged, ids, copies, queue, sink, stray>>

NoSeries == [series |-> 0]
Blank == [i \in 1 .. Chunk |-> <<0, 0>>]

Init ==
  /\ feed \in Feeds /\ pos = 0 /\ cur = (CHOOSE st \in Streams : TRUE)
  /\ at = "idle" /\ open = 0 /\ todo = <<>>
  /\ encoder = NoSeries /\ buffer = 0 /\ shape = 0 /\ staging = Blank
  /\ staged = 0 /\ first = 0 /\ nextId = 0 /\ copies = {}
  /\ queue = [st \in Streams |-> <<>>]
  /\ datasets = <<>> /\ closed = {} /\ dropped = {} /\ stray = FALSE

\* series_scan: the announced scan, a square of the announced images, or the configured scan.
Positions(start) ==
  IF ~Announced(start) /\ \E n \in 1 .. start.images : n * n = start.images
  THEN start.images
  ELSE Size(ScanOf(start))

Batch == feed[pos]

\* Mutation: a START replaces the series before it.
Superseded_Lost == "begin"

\* A START ends a series that had no END.
Superseded == IF encoder = NoSeries THEN "begin" ELSE "end"

\* AnsEncoderOp.compute raises on what parse_start refuses, on what has no START, and on images of
\* another shape (between batches the open series' shape is that of the chunk begun last).
Raises(batch) ==
  IF batch.kind = "start" THEN ParseFails(batch)
  ELSE \/ open = 0 \/ open # batch.series
       \/ batch.kind = "images" /\ batch.shape # shape

\* AnsEncoderOp.compute begins on some stream.
Take(st) ==
  /\ at = "idle" /\ pos < Len(feed)
  /\ LET batch == feed[pos + 1]
     IN /\ at' = IF Raises(batch) THEN "failed"
                 ELSE CASE batch.kind = "start"  -> Superseded
                        [] batch.kind = "images" -> IF encoder = NoSeries THEN "idle" ELSE "add"
                        [] OTHER                 -> IF encoder = NoSeries THEN "idle" ELSE "end"
        /\ open' = IF batch.kind = "end" \/ Raises(batch) THEN 0 ELSE batch.series
  /\ pos' = pos + 1
  /\ cur' = st
  /\ UNCHANGED <<feed, todo, encoder, buffer, shape, staging, staged, ids, copies, queue, sink, stray>>

\* start; the staging chunk is used again by a series of the same shape.
Begin ==
  /\ at = "begin"
  /\ encoder' = [series |-> Batch.series, total |-> Positions(Batch), received |-> 0, got |-> {}]
  /\ staged' = 0 /\ first' = 0 /\ nextId' = 0 /\ copies' = {}
  /\ IF shape = Batch.shape
     THEN UNCHANGED <<buffer, shape, staging>>
     ELSE buffer' = buffer + 1 /\ shape' = Batch.shape /\ staging' = Blank
  /\ at' = "idle"
  /\ UNCHANGED <<feed, pos, cur, open, todo, queue, sink, stray>>

\* Only the first and the last id of a batch are read.
Follows(is) == Head(is) = nextId /\ Last(is) - Head(is) + 1 = Len(is) /\ Last(is) < encoder.total

Add ==
  /\ at = "add" /\ Follows(Batch.ids)
  /\ todo' = Batch.ids
  /\ at' = "copy"
  /\ UNCHANGED <<feed, pos, cur, open, encoder, buffer, shape, staging, staged, ids, copies, queue,
                 sink, stray>>

\* _drop
Drop ==
  /\ at = "add" /\ ~Follows(Batch.ids)
  /\ dropped' = dropped \cup {encoder.series}
  /\ encoder' = NoSeries /\ staged' = 0 /\ copies' = {}
  /\ at' = "idle"
  /\ UNCHANGED <<feed, pos, cur, open, todo, buffer, shape, staging, ids, queue, datasets, closed, stray>>

Copy ==
  /\ at = "copy" /\ todo # <<>>
  /\ LET n == Min({Len(todo), Chunk - staged})
         c == [series |-> encoder.series, into |-> buffer, slot |-> staged, ids |-> SubSeq(todo, 1, n)]
     IN /\ queue' = [queue EXCEPT ![cur] = Append(@, c)]
        /\ copies' = copies \cup {c}
        /\ staged' = staged + n
        /\ todo' = SubSeq(todo, n + 1, Len(todo))
        /\ at' = IF staged + n = Chunk THEN "full" ELSE "copy"
  /\ UNCHANGED <<feed, pos, cur, open, encoder, buffer, shape, staging, ids, sink, stray>>

Copied ==
  /\ at = "copy" /\ todo = <<>>
  /\ nextId' = Last(Batch.ids) + 1
  /\ at' = "idle"
  /\ UNCHANGED <<feed, pos, cur, open, todo, encoder, buffer, shape, staging, staged, first, copies,
                 queue, sink, stray>>

\* The GPU carries out the next copy of a stream.
Run(st) ==
  /\ queue[st] # <<>>
  /\ LET c == Head(queue[st])
     IN /\ staging' = [i \in 1 .. Chunk |->
                         IF c.into = buffer /\ i - c.slot \in 1 .. Len(c.ids)
                         THEN <<c.series, c.ids[i - c.slot]>> ELSE staging[i]]
        /\ stray' = (stray \/ (c.into = buffer /\ encoder # NoSeries /\ c.series # encoder.series))
  /\ queue' = [queue EXCEPT ![st] = Tail(@)]
  /\ UNCHANGED <<host, encoder, buffer, shape, staged, ids, copies, sink>>

\* Mutation: the encode runs behind its own stream alone.
CopiesDone_Own == queue[cur] = <<>>

CopiesDone == queue[cur] = <<>> /\ \A st \in Streams : ToSet(queue[st]) \cap copies = {}

\* _encode; LiveEncoder.add puts the chunk at `first` and waits for it.
Encode ==
  /\ at = "full" \/ (at = "end" /\ staged > 0)
  /\ CopiesDone
  /\ encoder' = [encoder EXCEPT !.received = @ + staged,
                                !.got = @ \cup {<<first + i - 1, staging[i]>> : i \in 1 .. staged}]
  /\ first' = first + staged /\ staged' = 0 /\ copies' = {}
  /\ at' = IF at = "full" THEN "copy" ELSE "end"
  /\ UNCHANGED <<feed, pos, cur, open, todo, buffer, shape, staging, nextId, queue, sink, stray>>

\* end, and ResidentSeries.complete: an incomplete series is not kept, and of the others the latest.
Complete ==
  /\ at = "end" /\ staged = 0
  /\ IF encoder.received = encoder.total
     THEN LET all  == Append(datasets, encoder)
              over == IF Keep = 0 \/ Len(all) <= Keep THEN 0 ELSE Len(all) - Keep
          IN /\ datasets' = SubSeq(all, over + 1, Len(all))
             /\ closed' = closed \cup {all[i].series : i \in 1 .. over}
             /\ UNCHANGED dropped
     ELSE dropped' = dropped \cup {encoder.series} /\ UNCHANGED <<datasets, closed>>
  /\ encoder' = NoSeries
  /\ at' = IF Batch.kind = "start" THEN "begin" ELSE "idle"
  /\ UNCHANGED <<feed, pos, cur, open, todo, buffer, shape, staging, staged, ids, copies, queue, stray>>

Next ==
  \/ Begin \/ Add \/ Drop \/ Copy \/ Copied \/ Encode \/ Complete
  \/ \E st \in Streams : Take(st) \/ Run(st)

Spec == Init /\ [][Next]_vars

-----------------------------------------------------------------------------
\* The batches of a run as the receivers publish them: the detector gives every series a new
\* number, and the images of a batch ascend (add looks only at its first and its last id).
Ascending(is) == is \in Seq(Nat) /\ is # <<>> /\ \A j \in 1 .. Len(is) - 1 : is[j] < is[j + 1]

FeedsOrdered ==
  \A f \in Feeds :
    /\ Len(f) \in Nat /\ DOMAIN f = 1 .. Len(f)
    /\ \A p \in 1 .. Len(f) :
         f[p].series \in Nat \ {0} /\ (f[p].kind = "images" => Ascending(f[p].ids))
    /\ \A p, q \in 1 .. Len(f) :
         f[p].kind = "start" /\ f[q].kind = "start" /\ f[p].series = f[q].series => p = q

\* The detector's numbers rise.
SeriesRise ==
  \A f \in Feeds : \A p, q \in 1 .. Len(f) :
    f[p].kind = "start" /\ f[q].kind = "start" /\ p < q => f[p].series < f[q].series

\* It sends the images of a series once, in their order, and nothing of a series behind its END.
SeriesInOrder ==
  \A f \in Feeds : \A p, q \in 1 .. Len(f) :
    p < q /\ f[p].series = f[q].series =>
      /\ f[p].kind # "end"
      /\ f[p].kind = "images" /\ f[q].kind = "images" => Last(f[p].ids) < Head(f[q].ids)

\* A kept series is whole: every position of its scan holds its own image, although the copies
\* ran on several streams and the chunk was used before (ans_encoding.py:48).  Excepted is a
\* copy of a dropped series that is still under way when a later series stages into the same
\* chunk: _drop forgets its event (ans_encoding.py:107), so nothing orders it.
KeptExact ==
  ~stray => \A i \in 1 .. Len(datasets) :
    datasets[i].got = {<<k, <<datasets[i].series, k>>>> : k \in 0 .. (datasets[i].total - 1)}
=============================================================================
