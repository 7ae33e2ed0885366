------------------------------- MODULE H5Writer ------------------------------
(***************************************************************************)
(* H5WriterOp: the callback compresses the images of a batch into a staging *)
(* slot and queues jobs; one writer thread makes every HDF5 call.  END is   *)
(* held until the series' files are closed.  The state of the thread and    *)
(* what the data files of nxmx_writer.cpp hold are modelled; file contents  *)
(* are, per image position, the series whose image it is.                  *)
(***************************************************************************)
EXTENDS Integers, Sequences, FiniteSets, SequencesExt

CONSTANTS
  Slots,          \* staging_batches
  ImagesPerFile,
  Series,         \* per series: the name its pattern yields, the announced number
                  \* of images, and whether enable_h5_writer lets it be written
  Plans,          \* the batches of a run
  MayFail,        \* whether GPU compression and HDF5 calls may fail
  MayStop         \* whether the session may be asked to stop

ASSUME WriterAssumption ==
  /\ Slots \in Nat \ {0} /\ ImagesPerFile \in Nat \ {0}
  /\ MayFail \in BOOLEAN /\ MayStop \in BOOLEAN
  /\ 0 \notin DOMAIN Series
  /\ \A s \in DOMAIN Series : Series[s].images \in Nat /\ Series[s].write \in BOOLEAN
  /\ \A p \in Plans : Len(p) \in Nat /\ \A i \in 1 .. Len(p) :
       /\ p[i].series \in DOMAIN Series \cup {0} /\ p[i].ids \in Seq(Nat)
       /\ p[i].start \in BOOLEAN /\ p[i].end \in BOOLEAN
       /\ p[i].series = 0 => p[i].ids = <<>> /\ ~p[i].start /\ ~p[i].end

VARIABLES
  plan, next,          \* the input edge
  stage,               \* where the callback is
  active,              \* series between its START and its END, 0 outside
  free, slots, jobs,   \* the staging ring and the queue, under mutex_
  endsPushed, endsDone, error,
  thread, job, at,     \* the writer thread, its job, images of it written
  series, file,        \* its series (0: none) and open data file
  disk,                \* data files under temporary and final names
  handed,              \* history: the last batch whose images were queued
  stop

callVars  == <<plan, next, stage, active, endsPushed, handed, stop>>
diskVars  == <<series, file, disk>>
vars == <<callVars, free, slots, jobs, endsDone, error, thread, job, at, diskVars>>

-----------------------------------------------------------------------------
(* Data files.  A file is the sequence of its positions.                    *)

Fill    == 0      \* never written: reads as the fill value
Absent  == <<>>
NoFile  == [number |-> 0, temp |-> FALSE, written |-> 0]

FileOf(id)   == (id \div ImagesPerFile) + 1
Position(id) == (id % ImagesPerFile) + 1
DataFiles(s) == 1 .. ((Series[s].images + ImagesPerFile - 1) \div ImagesPerFile)
ImagesIn(s, n) ==
  LET left == Series[s].images - (n - 1) * ImagesPerFile
  IN IF left < ImagesPerFile THEN left ELSE ImagesPerFile

Written == {s \in DOMAIN Series : Series[s].write}
Paths == {<<Series[s].name, n>> : s \in Written, n \in UNION {DataFiles(s) : s \in Written}}
Path(s, n) == <<Series[s].name, n>>

\* DataFile::close makes a new file visible under its final name.
Closed(d, s, f) ==
  IF f.number = 0 \/ ~f.temp THEN d
  ELSE LET p == Path(s, f.number)
       IN [temp  |-> [d.temp EXCEPT ![p] = Absent],
           final |-> [d.final EXCEPT ![p] = d.temp[p]]]

\* DataFile::open reopens a file that exists, and creates others.
Reopens(d, s, n) == d.final[Path(s, n)] # Absent
Opened(d, s, n) ==
  IF Reopens(d, s, n) THEN d
  ELSE [d EXCEPT !.temp[Path(s, n)] = [i \in 1 .. ImagesIn(s, n) |-> Fill]]
OpenFile(d, s, n) == [number |-> n, temp |-> ~Reopens(d, s, n), written |-> 0]

\* The file an image goes to, and the disk it finds there.
Switched(id) ==
  LET n == FileOf(id)
      d == Closed(disk, series, file)
  IN IF file.number = n THEN <<file, disk>>
     ELSE <<OpenFile(d, series, n), Opened(d, series, n)>>

\* H5Dwrite_chunk fails beyond the extent of the dataset it finds.
Fits(f, d, id) ==
  Position(id) <= Len((IF f.temp THEN d.temp ELSE d.final)[Path(series, f.number)])

Stored(f, d, id) ==
  LET p == Path(series, f.number)
  IN IF f.temp THEN [d EXCEPT !.temp[p][Position(id)] = series]
     ELSE [d EXCEPT !.final[p][Position(id)] = series]

-----------------------------------------------------------------------------
(* H5WriterOp::compute                                                      *)

Batch == plan[next]
Push(kind, slot) == Append(jobs, [kind |-> kind, series |-> Batch.series, slot |-> slot])

\* A batch that needs no staging: READY, no images, or a series not written.
NeedsSlot == Batch.ids # <<>> /\ Series[Batch.series].write

Matches == Batch.series = 0 \/ Batch.start \/ Batch.series = active

\* A callback first looks for a failure of the thread, then at START.
Enter ==
  /\ stage = "idle" /\ next <= Len(plan) /\ ~stop
  /\ IF error \/ ~Matches
     THEN stage' = "failed" /\ UNCHANGED <<active, jobs>>
     ELSE /\ stage' = IF NeedsSlot THEN "images" ELSE "staged"
          /\ IF Batch.start
             THEN active' = Batch.series /\ jobs' = Push("start", 0)
             ELSE UNCHANGED <<active, jobs>>
  /\ UNCHANGED <<plan, next, free, slots, endsPushed, endsDone, error,
                 thread, job, at, diskVars, handed, stop>>

Staging == stage \in {"images", "waiting"}
Ending  == stage \in {"ending", "held"}

\* No slot is free, or END is not written: the callback waits, and from now on looks
\* for a stop first whenever it wakes up.
Await ==
  /\ ~error
  /\ \/ stage = "images" /\ free = <<>> /\ stage' = "waiting"
     \/ stage = "ending" /\ endsDone < endsPushed /\ stage' = "held"
  /\ UNCHANGED <<plan, next, active, free, slots, jobs, endsPushed, endsDone, error,
                 thread, job, at, diskVars, handed, stop>>

\* Take a free slot, compress into it, queue it.
Stage ==
  /\ Staging /\ ~error
  /\ free # <<>>
  /\ free' = Tail(free)
  /\ slots' = [slots EXCEPT ![Head(free)] = Batch.ids]
  /\ jobs' = Push("batch", Head(free))
  /\ handed' = next
  /\ stage' = "staged"
  /\ UNCHANGED <<plan, next, active, endsPushed, endsDone, error,
                 thread, job, at, diskVars, stop>>

\* The slot is not given back when compression cannot be enqueued: the run fails.
CompressFails ==
  /\ MayFail /\ Staging /\ ~error
  /\ free # <<>>
  /\ free' = Tail(free)
  /\ slots' = [slots EXCEPT ![Head(free)] = Batch.ids]
  /\ stage' = "failed"
  /\ UNCHANGED <<plan, next, active, jobs, endsPushed, endsDone, error,
                 thread, job, at, diskVars, handed, stop>>

PushEnd ==
  /\ stage = "staged" /\ Batch.end
  /\ jobs' = Push("end", 0)
  /\ endsPushed' = endsPushed + 1
  /\ active' = 0
  /\ stage' = "ending"
  /\ UNCHANGED <<plan, next, free, slots, endsDone, error,
                 thread, job, at, diskVars, handed, stop>>

\* Mutation: END is held for the jobs, not for their success.
EndWritten_Anyhow == endsDone >= endsPushed

EndWritten == endsDone >= endsPushed /\ ~error

\* The window is released, and the callback returns.
Release ==
  /\ \/ stage = "staged" /\ ~Batch.end
     \/ Ending /\ EndWritten
  /\ next' = next + 1
  /\ stage' = "idle"
  /\ UNCHANGED <<plan, active, free, slots, jobs, endsPushed, endsDone, error,
                 thread, job, at, diskVars, handed, stop>>

FailWait ==
  /\ (Staging \/ Ending) /\ error
  /\ stage' = "failed"
  /\ UNCHANGED <<plan, next, active, free, slots, jobs, endsPushed, endsDone, error,
                 thread, job, at, diskVars, handed, stop>>

AbandonWait ==
  /\ stop /\ stage \in {"waiting", "held"}
  /\ stage' = "abandoned"
  /\ UNCHANGED <<plan, next, active, free, slots, jobs, endsPushed, endsDone, error,
                 thread, job, at, diskVars, handed, stop>>

RequestStop ==
  /\ MayStop /\ ~stop
  /\ stop' = TRUE
  /\ UNCHANGED <<plan, next, stage, active, free, slots, jobs, endsPushed, endsDone,
                 error, thread, job, at, diskVars, handed>>

Over == \/ stage \in {"failed", "abandoned"}
        \/ stage = "idle" /\ (stop \/ next > Len(plan))

\* Mutation: stop() clears the queue.
StopQueue_Dropped == <<[kind |-> "stop", series |-> 0, slot |-> 0]>>

StopQueue == Append(jobs, [kind |-> "stop", series |-> 0, slot |-> 0])

\* H5WriterOp::stop, once no callback runs any more.
Stop ==
  /\ Over /\ stage # "stopped"
  /\ jobs' = StopQueue
  /\ stage' = "stopped"
  /\ UNCHANGED <<plan, next, active, free, slots, endsPushed, endsDone,
                 error, thread, job, at, diskVars, handed, stop>>

-----------------------------------------------------------------------------
(* H5WriterOp::writer_loop                                                  *)

NoJob == [kind |-> "none", series |-> 0, slot |-> 0]

Take ==
  /\ thread = "wait" /\ jobs # <<>>
  /\ job' = Head(jobs) /\ jobs' = Tail(jobs) /\ at' = 0
  /\ thread' = "work"
  /\ UNCHANGED <<callVars, free, slots, endsDone, error, diskVars>>

Idle == thread' = "wait" /\ job' = NoJob

\* START closes a series that was left without END, then writes the master file.
StartSeries ==
  /\ thread = "work" /\ job.kind = "start"
  /\ IF error THEN UNCHANGED diskVars
     ELSE /\ disk' = Closed(disk, series, file)
          /\ series' = job.series /\ file' = NoFile
  /\ Idle
  /\ UNCHANGED <<callVars, free, slots, jobs, endsDone, error, at>>

\* Closing the old files or writing the new master file fails.
StartFails ==
  /\ MayFail /\ thread = "work" /\ job.kind = "start" /\ ~error
  /\ \/ file.number # 0 /\ UNCHANGED <<series, disk>>
     \/ /\ disk' = Closed(disk, series, file)
        /\ series' = job.series
  /\ file' = NoFile
  /\ error' = TRUE
  /\ Idle
  /\ UNCHANGED <<callVars, free, slots, jobs, endsDone, at>>

\* The next image of the batch, dropped or written; a full file is closed.
WriteImage ==
  /\ thread = "work" /\ job.kind = "batch" /\ ~error
  /\ at < Len(slots[job.slot])
  /\ LET id == slots[job.slot][at + 1]
         f  == Switched(id)[1]
         d  == Stored(f, Switched(id)[2], id)
     IN IF id >= Series[series].images
        THEN UNCHANGED <<file, disk>>
        ELSE /\ Fits(f, Switched(id)[2], id)
             /\ IF f.written + 1 = ImagesIn(series, f.number)
                THEN file' = NoFile /\ disk' = Closed(d, series, f)
                ELSE file' = [f EXCEPT !.written = @ + 1] /\ disk' = d
  /\ at' = at + 1
  /\ UNCHANGED <<callVars, free, slots, jobs, endsDone, error, thread, job, series>>

\* Mutation: a failed batch keeps its slot.
FreeAfterFailure_Kept == free

FreeAfterFailure == Append(free, job.slot)

\* A step of writing an image throws: the compressed image is empty, or closing the
\* previous file, opening, writing or closing this one fails.
WriteFails ==
  /\ thread = "work" /\ job.kind = "batch" /\ ~error
  /\ at < Len(slots[job.slot])
  /\ LET id == slots[job.slot][at + 1]
         f  == Switched(id)[1]
         opened == Switched(id)[2]
         stored == Stored(f, opened, id)
     IN /\ id < Series[series].images
        /\ \/ MayFail /\ UNCHANGED <<file, disk>>
           \/ MayFail /\ file.number # f.number /\ file' = NoFile /\ UNCHANGED disk
           \/ MayFail /\ file.number # f.number
              /\ file' = NoFile /\ disk' = Closed(disk, series, file)
           \/ (MayFail \/ ~Fits(f, opened, id)) /\ file' = f /\ disk' = opened
           \/ MayFail /\ Fits(f, opened, id)
              /\ f.written + 1 = ImagesIn(series, f.number)
              /\ file' = NoFile /\ disk' = stored
  /\ error' = TRUE
  /\ free' = FreeAfterFailure
  /\ Idle
  /\ UNCHANGED <<callVars, slots, jobs, endsDone, at, series>>

\* After the last image, or at once after a failure, the slot is free.
FinishBatch ==
  /\ thread = "work" /\ job.kind = "batch"
  /\ error \/ at = Len(slots[job.slot])
  /\ free' = Append(free, job.slot)
  /\ Idle
  /\ UNCHANGED <<callVars, slots, jobs, endsDone, error, at, diskVars>>

\* Mutation: only the failure path counts the END.
DoneAfter_Failed == endsDone

DoneAfter == endsDone + 1

EndSeries ==
  /\ thread = "work" /\ job.kind = "end"
  /\ IF error \/ series = 0 THEN UNCHANGED diskVars
     ELSE disk' = Closed(disk, series, file) /\ file' = NoFile /\ series' = 0
  /\ endsDone' = DoneAfter
  /\ Idle
  /\ UNCHANGED <<callVars, free, slots, jobs, error, at>>

EndFails ==
  /\ MayFail /\ thread = "work" /\ job.kind = "end"
  /\ ~error /\ file.number # 0
  /\ file' = NoFile
  /\ error' = TRUE
  /\ endsDone' = endsDone + 1
  /\ Idle
  /\ UNCHANGED <<callVars, free, slots, jobs, at, series, disk>>

\* The thread exits, and closes the files of an unfinished series; a failure to do
\* so is only logged.
Exit ==
  /\ thread = "work" /\ job.kind = "stop"
  /\ \/ disk' = Closed(disk, series, file)
     \/ MayFail /\ UNCHANGED disk
  /\ file' = NoFile /\ series' = 0
  /\ thread' = "exited" /\ job' = NoJob
  /\ UNCHANGED <<callVars, free, slots, jobs, endsDone, error, at>>

-----------------------------------------------------------------------------
\* No file of an earlier run is there.
Init ==
  /\ plan \in Plans /\ next = 1
  /\ stage = "idle" /\ active = 0
  /\ free = [i \in 1 .. Slots |-> i] /\ slots = [i \in 1 .. Slots |-> <<>>]
  /\ jobs = <<>> /\ endsPushed = 0 /\ endsDone = 0 /\ error = FALSE
  /\ thread = "wait" /\ job = NoJob /\ at = 0
  /\ series = 0 /\ file = NoFile
  /\ disk = [temp |-> [p \in Paths |-> Absent], final |-> [p \in Paths |-> Absent]]
  /\ handed = 0 /\ stop = FALSE

Callback == \/ Enter \/ Await \/ Stage \/ CompressFails \/ PushEnd
            \/ Release \/ FailWait \/ AbandonWait
Writer   == \/ Take \/ StartSeries \/ StartFails \/ WriteImage \/ WriteFails
            \/ FinishBatch \/ EndSeries \/ EndFails \/ Exit

Done == thread = "exited" /\ UNCHANGED vars

Next == Callback \/ Stop \/ Writer \/ RequestStop \/ Done

Spec == Init /\ [][Next]_vars

\* The callback's partition, the runtime that stops the operator, and the thread.
FairSpec == Spec /\ WF_vars(Callback) /\ WF_vars(Stop) /\ WF_vars(Writer)

-----------------------------------------------------------------------------
\* The jobs that are not done: the thread's, and those in the queue.
Pending == IF thread = "work" THEN <<job>> \o jobs ELSE jobs

\* Where a slot can be: free, or with a batch that is not written yet.
Hands == {<<"free", i>> : i \in 1 .. Len(free)}
         \cup {<<"batch", i>> : i \in {i \in 1 .. Len(Pending) : Pending[i].kind = "batch"}}

SlotIn(hand) == IF hand[1] = "free" THEN free[hand[2]] ELSE Pending[hand[2]].slot

TypeOK ==
  /\ next \in 1 .. Len(plan) + 1
  /\ stage \in {"idle", "images", "waiting", "staged", "ending", "held",
               "failed", "abandoned", "stopped"}
  /\ active \in DOMAIN Series \cup {0} /\ series \in DOMAIN Series \cup {0}
  /\ endsPushed \in Nat /\ endsDone \in 0 .. endsPushed
  /\ error \in BOOLEAN /\ stop \in BOOLEAN
  /\ thread \in {"wait", "work", "exited"}
  /\ job.kind \in {"none", "start", "batch", "end", "stop"}
  /\ \A i \in DOMAIN jobs : jobs[i].kind \in {"start", "batch", "end", "stop"}
  /\ \A p \in Paths : \A side \in {disk.temp, disk.final} :
       \A i \in DOMAIN side[p] : side[p][i] \in Written \cup {Fill}

\* No slot is lost or in two hands, whichever step fails: unless the run fails for
\* a compression that could not be enqueued, every slot is free, queued or at the
\* thread.  Otherwise the callback would wait for a slot for ever, or compress
\* into one the thread is writing from.
StagingConserved ==
  /\ \A g, h \in Hands : SlotIn(g) = SlotIn(h) => g = h
  /\ stage \in {"idle", "staged"} \/ Staging \/ Ending => {SlotIn(h) : h \in Hands} = 1 .. Slots

\* The images of a series among the first n batches that belong in its files.
Images(s, n) ==
  {id \in UNION {ToSet(plan[i].ids) : i \in {i \in 1 .. n : plan[i].series = s}} :
     id < Series[s].images}

InFile(side, s, id) ==
  LET content == side[Path(s, FileOf(id))]
  IN Position(id) <= Len(content) /\ content[Position(id)] = s

EndReleased == Ending /\ stage' = "idle"

\* "END waits until the series' files are closed, and a write failure fails the
\* run" (docs/holoscan_basic_ingest.md): when the callback releases END, every
\* image it was given is in a file with its final name, and none is in progress.
EndMeansStored ==
  [][EndReleased /\ Batch.series \in Written =>
       /\ \A id \in Images(Batch.series, next) : InFile(disk.final, Batch.series, id)
       /\ \A n \in DataFiles(Batch.series) : disk.temp[Path(Batch.series, n)] = Absent]_vars

\* "Queued batches are written before the thread exits": whatever the moment of the
\* stop, no image that was queued is missing unless a failure was reported.
QueuedBatchesWritten ==
  thread = "exited" /\ ~error =>
    \A s \in Written : \A id \in Images(s, handed) :
      InFile(disk.final, s, id) \/ InFile(disk.temp, s, id)

\* Neither a stop nor a failure leaves the callback waiting for the thread or the
\* runtime joining it: the thread exits.
ThreadExits == <>(thread = "exited")

\* "Existing files with the same names are overwritten. ... Unwritten positions read
\* as the fill value": the files a released END leaves hold no image of an earlier
\* series.
NoEarlierImages ==
  [][EndReleased /\ Batch.series \in Written =>
       \A n \in DataFiles(Batch.series) :
         ToSet(disk.final[Path(Batch.series, n)]) \subseteq {Fill, Batch.series}]_vars
=============================================================================
