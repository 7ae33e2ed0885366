---------------------------- MODULE H5WriterProofs ---------------------------
(***************************************************************************)
(* Proofs about H5Writer, for every number of staging slots, every set of  *)
(* series and plans, and every failure and stop the model allows.          *)
(*                                                                         *)
(* Each part of the invariant speaks of Pending, the thread's job followed *)
(* by the queue: taking a job leaves it as it is, finishing one drops its  *)
(* head and the callback appends to it.                                    *)
(***************************************************************************)
EXTENDS H5Writer, SequenceTheorems, TLAPS

-----------------------------------------------------------------------------
(* The invariant: types, and what is in the queue.                          *)

Job == [kind : {"start", "batch", "end", "stop"},
        series : DOMAIN Series \cup {0}, slot : 0 .. Slots]

Needs(i) == plan[i].ids # <<>> /\ Series[plan[i].series].write

Running == {"idle", "images", "waiting", "staged", "ending", "held"}

PlanInv ==
  /\ plan \in Plans /\ next \in Nat \ {0} /\ next <= Len(plan) + 1
  /\ stage \in Running \cup {"failed", "abandoned", "stopped"}
  /\ stage \in Running \ {"idle"} => next <= Len(plan)
  /\ active \in DOMAIN Series \cup {0}
  /\ Staging => active = Batch.series /\ active \in Written

\* A batch in the queue has a slot and is of a series that is written.
BatchJobs(q) == \A i \in 1 .. Len(q) : q[i].kind = "batch" => q[i].slot \in 1 .. Slots /\ q[i].series \in Written

StopLast(q, st) == \A i \in 1 .. Len(q) : q[i].kind = "stop" => i = Len(q) /\ st = "stopped"

QueueInv ==
  /\ free \in Seq(1 .. Slots) /\ slots \in [1 .. Slots -> Seq(Nat)] /\ at \in Nat
  /\ jobs \in Seq(Job)
  /\ thread \in {"wait", "work", "exited"}
  /\ thread = "work" => job \in Job
  /\ thread = "exited" => jobs = <<>> /\ stage = "stopped"
  /\ BatchJobs(Pending)
  /\ StopLast(Pending, stage)

-----------------------------------------------------------------------------
(* The invariant: the slots.                                                *)

\* No slot is twice in the ring fr, twice in the queue q, or in both.
Once(fr, q) ==
  /\ \A i, k \in 1 .. Len(fr) : fr[i] = fr[k] => i = k
  /\ \A i, k \in 1 .. Len(q) :
       q[i].kind = "batch" /\ q[k].kind = "batch" /\ q[i].slot = q[k].slot => i = k
  /\ \A i \in 1 .. Len(fr), k \in 1 .. Len(q) : q[k].kind = "batch" => q[k].slot # fr[i]

Covered(fr, q) ==
  \A x \in 1 .. Slots : \/ \E i \in 1 .. Len(fr) : fr[i] = x
                        \/ \E k \in 1 .. Len(q) : q[k].kind = "batch" /\ q[k].slot = x

SlotInv == Once(free, Pending) /\ (stage \in Running => Covered(free, Pending))

StagingInv == PlanInv /\ QueueInv /\ SlotInv

USE DEF Staging, Ending

-----------------------------------------------------------------------------
(* The invariant: what is written.                                          *)

\* Different series that are written have different names: their pattern holds $id.
DistinctNames == \A s, t \in Written : Series[s].name = Series[t].name => s = t

Turns == {"start", "end", "stop"}

\* Before its job i the thread, which is in series s0 now, will be in series s.
Reaches(q, s0, i, s) ==
  \/ /\ \A l \in 1 .. i - 1 : q[l].kind \notin Turns
     /\ s = s0
  \/ \E k \in 1 .. i - 1 :
       /\ q[k].kind \in Turns
       /\ \A l \in k + 1 .. i - 1 : q[l].kind \notin Turns
       /\ s = IF q[k].kind = "start" THEN q[k].series ELSE 0

\* The callback and the thread agree on the series of every batch.
SeriesInv ==
  /\ series \in DOMAIN Series \cup {0}
  /\ \A i \in 1 .. Len(Pending) :
       Pending[i].kind = "batch" => Reaches(Pending, series, i, Pending[i].series)
  /\ stage \in Running /\ active # 0 => Reaches(Pending, series, Len(Pending) + 1, active)

\* END is in the queue at most once, last, while the callback waits for it.
EndInv ==
  /\ endsPushed \in Nat /\ endsDone \in Nat
  /\ stage \in {"idle", "staged"} \/ Staging =>
       endsDone = endsPushed /\ \A i \in 1 .. Len(Pending) : Pending[i].kind # "end"
  /\ Ending =>
       \/ /\ endsDone + 1 = endsPushed /\ Pending # <<>>
          /\ \A i \in 1 .. Len(Pending) : Pending[i].kind = "end" <=> i = Len(Pending)
       \/ /\ endsDone = endsPushed /\ Pending = <<>>
          /\ ~error => file = NoFile

\* A batch after the last one that was queued has nothing to write.
HandedInv ==
  /\ handed \in Nat /\ handed <= next /\ handed <= Len(plan)
  /\ \A i \in handed + 1 .. next - 1 : ~Needs(i)
  /\ stage = "staged" \/ Ending => handed = next \/ ~Needs(next)

Contents == Seq(DOMAIN Series \cup {Fill})
Disk == [temp : [Paths -> Contents], final : [Paths -> Contents]]
File == [number : Nat, temp : BOOLEAN, written : Nat]

\* Only the open file of the thread's series can be under a temporary name, and a
\* file that is under its temporary name is not under its final one.
FileOK(d, s, f) ==
  /\ f.number = 0 => f = NoFile
  /\ f.number # 0 => /\ s \in Written /\ f.number \in DataFiles(s)
                     /\ f.temp => d.final[Path(s, f.number)] = Absent
  /\ \A p \in Paths : d.temp[p] # Absent => f.number # 0 /\ f.temp /\ p = Path(s, f.number)

FileInv ==
  /\ disk \in Disk /\ file \in File
  /\ thread # "exited" => FileOK(disk, series, file)

OnDisk(d, s, id) == InFile(d.temp, s, id) \/ InFile(d.final, s, id)

\* Image m of batch i waits in the queue.
Waits(i, m) ==
  \E j \in 1 .. Len(Pending) :
    /\ Pending[j].kind = "batch" /\ Pending[j].series = plan[i].series
    /\ slots[Pending[j].slot] = plan[i].ids
    /\ j = 1 /\ thread = "work" => at < m

DataInv ==
  \A i \in 1 .. handed : plan[i].series \in Written =>
    \A m \in 1 .. Len(plan[i].ids) :
      plan[i].ids[m] < Series[plan[i].series].images =>
        OnDisk(disk, plan[i].series, plan[i].ids[m]) \/ Waits(i, m)

WritingInv == EndInv /\ HandedInv /\ (~error => SeriesInv /\ FileInv /\ DataInv)

-----------------------------------------------------------------------------
(* Queues.                                                                  *)

\* r is q with j at its end.
Appended(q, j, r) ==
  /\ r \in Seq(Job) /\ j \in Job /\ Len(q) \in Nat
  /\ Len(r) = Len(q) + 1
  /\ \A i \in 1 .. Len(q) : r[i] = q[i]
  /\ r[Len(q) + 1] = j

\* r is q without its head.
Dropped(q, r) ==
  /\ r \in Seq(Job) /\ Len(q) \in Nat \ {0}
  /\ Len(r) = Len(q) - 1
  /\ \A i \in 1 .. Len(r) : r[i] = q[i + 1]

\* What Head and Tail give.
LEMMA HeadAndTail ==
  ASSUME NEW S, NEW s \in Seq(S), s # <<>>
  PROVE  /\ Len(s) \in Nat \ {0} /\ Head(s) = s[1] /\ Head(s) \in S
         /\ Tail(s) \in Seq(S) /\ Len(Tail(s)) = Len(s) - 1
         /\ \A i \in 1 .. Len(Tail(s)) : Tail(s)[i] = s[i + 1]
<1>1. Len(s) \in Nat \ {0}
  BY EmptySeq
<1>2. Head(s) = s[1]
  OBVIOUS
<1> QED BY <1>1, <1>2, HeadTailProperties

\* The jobs that are pending, in terms of the thread and the queue.
LEMMA PendingType ==
  ASSUME QueueInv
  PROVE  /\ Pending \in Seq(Job) /\ Len(Pending) \in Nat /\ Len(jobs) \in Nat
         /\ thread # "work" => Pending = jobs
         /\ thread = "work" => /\ Len(Pending) = Len(jobs) + 1 /\ Pending[1] = job
                               /\ \A i \in 1 .. Len(jobs) : Pending[i + 1] = jobs[i]
<1>1. jobs \in Seq(Job) /\ Len(jobs) \in Nat
  BY LenProperties DEF QueueInv
<1>2. CASE thread # "work"
  BY <1>1, <1>2 DEF Pending
<1>3. CASE thread = "work"
  <2>1. <<job>> \in Seq(Job) /\ Len(<<job>>) = 1 /\ <<job>>[1] = job
    BY <1>3 DEF QueueInv
  <2>2. Pending = <<job>> \o jobs
    BY <1>3 DEF Pending
  <2>3. Pending \in Seq(Job) /\ Len(Pending) = 1 + Len(jobs)
    BY <1>1, <2>1, <2>2, ConcatProperties
  <2>4. \A i \in 1 .. 1 + Len(jobs) : Pending[i] = IF i <= 1 THEN job ELSE jobs[i - 1]
    BY <1>1, <2>1, <2>2, ConcatProperties
  <2> QED BY <1>1, <1>3, <2>3, <2>4
<1> QED BY <1>2, <1>3

\* The callback's push appends to them.
LEMMA PendingPush ==
  ASSUME QueueInv, NEW j \in Job, jobs' = Append(jobs, j), UNCHANGED <<thread, job>>
  PROVE  Appended(Pending, j, Pending') /\ jobs' \in Seq(Job)
<1>1. jobs \in Seq(Job) /\ Len(jobs) \in Nat
  BY LenProperties DEF QueueInv
<1>2. /\ jobs' \in Seq(Job) /\ Len(jobs') = Len(jobs) + 1
      /\ \A i \in 1 .. Len(jobs) : jobs'[i] = jobs[i]
      /\ jobs'[Len(jobs) + 1] = j
  BY <1>1, AppendProperties
<1>3. CASE thread # "work"
  <2>1. Pending = jobs /\ Pending' = jobs'
    BY <1>3 DEF Pending
  <2> QED BY <1>1, <1>2, <2>1 DEF Appended
<1>4. CASE thread = "work"
  <2>1. <<job>> \in Seq(Job) /\ Len(<<job>>) = 1 /\ <<job>>[1] = job
    BY <1>4 DEF QueueInv
  <2>2. Pending = <<job>> \o jobs /\ Pending' = <<job>> \o jobs'
    BY <1>4 DEF Pending
  <2>3. /\ Len(Pending) = 1 + Len(jobs)
        /\ \A i \in 1 .. 1 + Len(jobs) : Pending[i] = IF i <= 1 THEN job ELSE jobs[i - 1]
    BY <1>1, <2>1, <2>2, ConcatProperties
  <2>4. /\ Pending' \in Seq(Job) /\ Len(Pending') = 1 + Len(jobs')
        /\ \A i \in 1 .. 1 + Len(jobs') : Pending'[i] = IF i <= 1 THEN job ELSE jobs'[i - 1]
    BY <1>2, <2>1, <2>2, ConcatProperties
  <2>5. ASSUME NEW i \in 1 .. Len(Pending) PROVE Pending'[i] = Pending[i]
    BY <1>1, <1>2, <2>3, <2>4
  <2> QED BY <1>1, <1>2, <2>3, <2>4, <2>5 DEF Appended
<1> QED BY <1>2, <1>3, <1>4

\* The thread's taking of a job changes nothing, and its finishing one drops it.
LEMMA PendingTake ==
  ASSUME QueueInv, Take
  PROVE  Pending' = Pending /\ job' \in Job /\ jobs' \in Seq(Job)
<1>1. jobs \in Seq(Job) /\ jobs # <<>> /\ thread = "wait" /\ thread' = "work"
      /\ job' = Head(jobs) /\ jobs' = Tail(jobs)
  BY DEF QueueInv, Take
<1>2. /\ Len(jobs) \in Nat \ {0} /\ job' = jobs[1] /\ job' \in Job
      /\ jobs' \in Seq(Job) /\ Len(jobs') = Len(jobs) - 1
      /\ \A i \in 1 .. Len(jobs') : jobs'[i] = jobs[i + 1]
  BY <1>1, HeadAndTail
<1>3. Pending = jobs /\ Pending' = <<job'>> \o jobs'
  BY <1>1 DEF Pending
<1>4. <<job'>> \in Seq(Job) /\ Len(<<job'>>) = 1 /\ <<job'>>[1] = job'
  BY <1>2
<1>5. /\ Pending' \in Seq(Job) /\ Len(Pending') = 1 + Len(jobs')
      /\ \A i \in 1 .. 1 + Len(jobs') : Pending'[i] = IF i <= 1 THEN job' ELSE jobs'[i - 1]
  BY <1>2, <1>3, <1>4, ConcatProperties
<1>6. Len(Pending') = Len(jobs)
  BY <1>2, <1>5
<1>7. ASSUME NEW i \in 1 .. Len(jobs) PROVE Pending'[i] = jobs[i]
  <2>1. CASE i = 1
    BY <1>2, <1>5, <2>1
  <2>2. CASE i > 1
    <3>1. i \in 1 .. 1 + Len(jobs') /\ i - 1 \in 1 .. Len(jobs') /\ ~(i <= 1)
      BY <1>2, <2>2
    <3>2. Pending'[i] = jobs'[i - 1]
      BY <1>5, <3>1
    <3>3. jobs'[i - 1] = jobs[(i - 1) + 1]
      BY <1>2, <3>1
    <3> QED BY <3>2, <3>3
  <2> QED BY <1>2, <2>1, <2>2
<1>8. Pending' = jobs
  BY <1>1, <1>5, <1>6, <1>7, SeqEqual
<1> QED BY <1>2, <1>3, <1>8

\* The end of the job of the thread drops the head of what is pending.
LEMMA PendingFinish ==
  ASSUME QueueInv, thread = "work", thread' # "work", UNCHANGED jobs
  PROVE  Dropped(Pending, Pending') /\ Pending[1] = job /\ Pending' = jobs /\ job \in Job
<1>1. /\ Len(jobs) \in Nat /\ Len(Pending) = Len(jobs) + 1 /\ Pending[1] = job
      /\ \A i \in 1 .. Len(jobs) : Pending[i + 1] = jobs[i]
  BY PendingType
<1>2. Pending' = jobs /\ jobs \in Seq(Job) /\ job \in Job
  BY DEF Pending, QueueInv
<1> QED BY <1>1, <1>2 DEF Dropped

-----------------------------------------------------------------------------
(* The slots, and how each kind of step moves them.                         *)

\* A job that is not a batch holds no slot.
LEMMA SlotsPushOther ==
  ASSUME NEW fr \in Seq(1 .. Slots), NEW q, NEW j, NEW r, Appended(q, j, r), j.kind # "batch"
  PROVE  (Once(fr, q) => Once(fr, r)) /\ (Covered(fr, q) => Covered(fr, r))
<1>1. Len(q) \in Nat /\ Len(r) = Len(q) + 1 /\ r[Len(q) + 1] = j
      /\ \A i \in 1 .. Len(q) : r[i] = q[i]
  BY DEF Appended
<1>2. \A i \in 1 .. Len(r) : r[i].kind = "batch" => i \in 1 .. Len(q) /\ r[i] = q[i]
  BY <1>1
<1>3. Once(fr, q) => Once(fr, r)
  BY <1>2 DEF Once
<1>4. 1 .. Len(q) \subseteq 1 .. Len(r)
  BY <1>1
<1>5. Covered(fr, q) => Covered(fr, r)
  BY <1>1, <1>4 DEF Covered
<1> QED BY <1>3, <1>5

\* Finishing a job that is not a batch moves no slot.
LEMMA SlotsFinishOther ==
  ASSUME NEW fr \in Seq(1 .. Slots), NEW q, NEW r, Dropped(q, r), q[1].kind # "batch"
  PROVE  (Once(fr, q) => Once(fr, r)) /\ (Covered(fr, q) => Covered(fr, r))
<1>1. Len(q) \in Nat \ {0} /\ Len(r) = Len(q) - 1 /\ \A i \in 1 .. Len(r) : r[i] = q[i + 1]
  BY DEF Dropped
<1>2. \A i \in 1 .. Len(r) : i + 1 \in 1 .. Len(q) /\ r[i] = q[i + 1]
  BY <1>1
<1>3. ASSUME Once(fr, q) PROVE Once(fr, r)
  <2>1. ASSUME NEW i \in 1 .. Len(r), NEW k \in 1 .. Len(r),
               r[i].kind = "batch", r[k].kind = "batch", r[i].slot = r[k].slot
        PROVE  i = k
    <3>1. i + 1 = k + 1
      BY <1>2, <1>3, <2>1 DEF Once
    <3> QED BY <3>1
  <2> QED BY <1>2, <1>3, <2>1 DEF Once
<1>4. ASSUME Covered(fr, q), NEW x \in 1 .. Slots
      PROVE  \/ \E i \in 1 .. Len(fr) : fr[i] = x
             \/ \E k \in 1 .. Len(r) : r[k].kind = "batch" /\ r[k].slot = x
  <2>1. CASE \E i \in 1 .. Len(fr) : fr[i] = x
    BY <2>1
  <2>2. CASE \E k \in 1 .. Len(q) : q[k].kind = "batch" /\ q[k].slot = x
    <3>1. PICK k \in 1 .. Len(q) : q[k].kind = "batch" /\ q[k].slot = x
      BY <2>2
    <3>2. k - 1 \in 1 .. Len(r) /\ (k - 1) + 1 = k
      BY <1>1, <3>1
    <3>3. r[k - 1] = q[k]
      BY <1>1, <3>2
    <3> QED BY <3>1, <3>2, <3>3
  <2> QED BY <1>4, <2>1, <2>2 DEF Covered
<1> QED BY <1>3, <1>4 DEF Covered

\* The head of the ring goes to the end of the queue, or to nobody.
LEMMA SlotsStage ==
  ASSUME NEW fr \in Seq(1 .. Slots), fr # <<>>, NEW q, NEW j, NEW r,
         Appended(q, j, r), j.kind = "batch", j.slot = Head(fr)
  PROVE  /\ Tail(fr) \in Seq(1 .. Slots)
         /\ Once(fr, q) => Once(Tail(fr), r)
         /\ Covered(fr, q) => Covered(Tail(fr), r)
<1> DEFINE t == Tail(fr)
<1>1. Len(q) \in Nat /\ Len(r) = Len(q) + 1 /\ r[Len(q) + 1] = j
      /\ \A i \in 1 .. Len(q) : r[i] = q[i]
  BY DEF Appended
<1>2. /\ Len(fr) \in Nat \ {0} /\ Head(fr) = fr[1] /\ t \in Seq(1 .. Slots)
      /\ Len(t) = Len(fr) - 1 /\ \A i \in 1 .. Len(t) : t[i] = fr[i + 1]
  BY HeadAndTail
<1> HIDE DEF t
<1>3. \A i \in 1 .. Len(t) : i + 1 \in 1 .. Len(fr) /\ i + 1 # 1 /\ t[i] = fr[i + 1]
  BY <1>2
<1>4. 1 \in 1 .. Len(fr) /\ Len(q) + 1 \in 1 .. Len(r)
  BY <1>1, <1>2
<1>5. ASSUME NEW k \in 1 .. Len(r)
      PROVE  \/ k \in 1 .. Len(q) /\ r[k] = q[k]
             \/ k = Len(q) + 1 /\ r[k].slot = fr[1]
  BY <1>1, <1>2
<1>6. ASSUME Once(fr, q) PROVE Once(t, r)
  <2>1. ASSUME NEW i \in 1 .. Len(t), NEW k \in 1 .. Len(t), t[i] = t[k] PROVE i = k
    <3>1. i + 1 = k + 1
      BY <1>3, <1>6, <2>1 DEF Once
    <3> QED BY <3>1
  <2>2. ASSUME NEW i \in 1 .. Len(r), NEW k \in 1 .. Len(r),
               r[i].kind = "batch", r[k].kind = "batch", r[i].slot = r[k].slot
        PROVE  i = k
    <3>1. CASE i \in 1 .. Len(q) /\ k \in 1 .. Len(q)
      BY <1>1, <1>6, <2>2, <3>1 DEF Once
    <3>2. CASE i \in 1 .. Len(q) /\ k \notin 1 .. Len(q)
      <4>1. r[i] = q[i] /\ r[k].slot = fr[1]
        BY <1>5, <3>2, <1>1
      <4> QED BY <4>1, <1>4, <1>6, <2>2, <3>2 DEF Once
    <3>3. CASE i \notin 1 .. Len(q) /\ k \in 1 .. Len(q)
      <4>1. r[k] = q[k] /\ r[i].slot = fr[1]
        BY <1>5, <3>3, <1>1
      <4> QED BY <4>1, <1>4, <1>6, <2>2, <3>3 DEF Once
    <3>4. CASE i \notin 1 .. Len(q) /\ k \notin 1 .. Len(q)
      BY <1>5, <3>4
    <3> QED BY <3>1, <3>2, <3>3, <3>4
  <2>3. ASSUME NEW i \in 1 .. Len(t), NEW k \in 1 .. Len(r), r[k].kind = "batch"
        PROVE  r[k].slot # t[i]
    <3>1. CASE k \in 1 .. Len(q) /\ r[k] = q[k]
      BY <1>3, <1>6, <2>3, <3>1 DEF Once
    <3>2. CASE r[k].slot = fr[1]
      BY <1>3, <1>4, <1>6, <3>2 DEF Once
    <3> QED BY <1>5, <3>1, <3>2
  <2> QED BY <2>1, <2>2, <2>3 DEF Once
<1>7. ASSUME Covered(fr, q), NEW x \in 1 .. Slots
      PROVE  \/ \E i \in 1 .. Len(t) : t[i] = x
             \/ \E k \in 1 .. Len(r) : r[k].kind = "batch" /\ r[k].slot = x
  <2>1. CASE \E i \in 1 .. Len(fr) : fr[i] = x
    <3>1. PICK i \in 1 .. Len(fr) : fr[i] = x
      BY <2>1
    <3>2. CASE i = 1
      BY <1>1, <1>2, <1>4, <3>1, <3>2
    <3>3. CASE i # 1
      <4>1. i - 1 \in 1 .. Len(t) /\ (i - 1) + 1 = i
        BY <1>2, <3>3
      <4>2. t[i - 1] = x
        BY <1>2, <4>1, <3>1
      <4> QED BY <4>1, <4>2
    <3> QED BY <3>2, <3>3
  <2>2. CASE \E k \in 1 .. Len(q) : q[k].kind = "batch" /\ q[k].slot = x
    <3>1. 1 .. Len(q) \subseteq 1 .. Len(r)
      BY <1>1
    <3> QED BY <1>1, <2>2, <3>1
  <2> QED BY <1>7, <2>1, <2>2 DEF Covered
<1>8. Covered(fr, q) => Covered(t, r)
  BY <1>7 DEF Covered
<1> QED BY <1>2, <1>6, <1>8 DEF t

\* A slot that is lost with a compression that fails is in no other hand.
LEMMA SlotsDrop ==
  ASSUME NEW fr \in Seq(1 .. Slots), fr # <<>>, NEW q
  PROVE  Tail(fr) \in Seq(1 .. Slots) /\ (Once(fr, q) => Once(Tail(fr), q))
<1> DEFINE t == Tail(fr)
<1>1. /\ Len(fr) \in Nat \ {0} /\ t \in Seq(1 .. Slots)
      /\ Len(t) = Len(fr) - 1 /\ \A i \in 1 .. Len(t) : t[i] = fr[i + 1]
  BY HeadAndTail
<1> HIDE DEF t
<1>2. \A i \in 1 .. Len(t) : i + 1 \in 1 .. Len(fr) /\ t[i] = fr[i + 1]
  BY <1>1
<1>3. ASSUME Once(fr, q) PROVE Once(t, q)
  <2>1. ASSUME NEW i \in 1 .. Len(t), NEW k \in 1 .. Len(t), t[i] = t[k] PROVE i = k
    <3>1. i + 1 = k + 1
      BY <1>2, <1>3, <2>1 DEF Once
    <3> QED BY <3>1
  <2> QED BY <1>2, <1>3, <2>1 DEF Once
<1> QED BY <1>1, <1>3 DEF t

\* The slot of the batch at the head of the queue goes back to the ring.
LEMMA SlotsFinish ==
  ASSUME NEW fr \in Seq(1 .. Slots), NEW q, NEW r, Dropped(q, r),
         q[1].kind = "batch", q[1].slot \in 1 .. Slots
  PROVE  /\ Append(fr, q[1].slot) \in Seq(1 .. Slots)
         /\ Once(fr, q) => Once(Append(fr, q[1].slot), r)
         /\ Covered(fr, q) => Covered(Append(fr, q[1].slot), r)
<1> DEFINE t == Append(fr, q[1].slot)
<1>1. Len(q) \in Nat \ {0} /\ Len(r) = Len(q) - 1 /\ \A i \in 1 .. Len(r) : r[i] = q[i + 1]
  BY DEF Dropped
<1>2. /\ Len(fr) \in Nat /\ t \in Seq(1 .. Slots) /\ Len(t) = Len(fr) + 1
      /\ \A i \in 1 .. Len(fr) : t[i] = fr[i]
      /\ t[Len(fr) + 1] = q[1].slot
  BY AppendProperties, LenProperties
<1> HIDE DEF t
<1>3. \A i \in 1 .. Len(r) : i + 1 \in 1 .. Len(q) /\ i + 1 # 1 /\ r[i] = q[i + 1]
  BY <1>1
<1>4. 1 \in 1 .. Len(q) /\ Len(fr) + 1 \in 1 .. Len(t)
  BY <1>1, <1>2
<1>5. ASSUME NEW i \in 1 .. Len(t)
      PROVE  \/ i \in 1 .. Len(fr) /\ t[i] = fr[i]
             \/ i = Len(fr) + 1 /\ t[i] = q[1].slot
  BY <1>2
<1>6. ASSUME Once(fr, q) PROVE Once(t, r)
  <2>1. ASSUME NEW i \in 1 .. Len(r), NEW k \in 1 .. Len(r),
               r[i].kind = "batch", r[k].kind = "batch", r[i].slot = r[k].slot
        PROVE  i = k
    <3>1. i + 1 = k + 1
      BY <1>3, <1>6, <2>1 DEF Once
    <3> QED BY <3>1
  <2>2. ASSUME NEW i \in 1 .. Len(t), NEW k \in 1 .. Len(t), t[i] = t[k]
        PROVE  i = k
    <3>1. CASE i \in 1 .. Len(fr) /\ k \in 1 .. Len(fr)
      BY <1>2, <1>6, <2>2, <3>1 DEF Once
    <3>2. CASE i \in 1 .. Len(fr) /\ k \notin 1 .. Len(fr)
      <4>1. t[i] = fr[i] /\ t[k] = q[1].slot
        BY <1>5, <3>2, <1>2
      <4> QED BY <4>1, <1>4, <1>6, <2>2, <3>2 DEF Once
    <3>3. CASE i \notin 1 .. Len(fr) /\ k \in 1 .. Len(fr)
      <4>1. t[k] = fr[k] /\ t[i] = q[1].slot
        BY <1>5, <3>3, <1>2
      <4> QED BY <4>1, <1>4, <1>6, <2>2, <3>3 DEF Once
    <3>4. CASE i \notin 1 .. Len(fr) /\ k \notin 1 .. Len(fr)
      BY <1>5, <3>4
    <3> QED BY <3>1, <3>2, <3>3, <3>4
  <2>3. ASSUME NEW i \in 1 .. Len(t), NEW k \in 1 .. Len(r), r[k].kind = "batch"
        PROVE  r[k].slot # t[i]
    <3>1. CASE i \in 1 .. Len(fr) /\ t[i] = fr[i]
      BY <1>3, <1>6, <2>3, <3>1 DEF Once
    <3>2. CASE t[i] = q[1].slot
      BY <1>3, <1>4, <1>6, <2>3, <3>2 DEF Once
    <3> QED BY <1>5, <3>1, <3>2
  <2> QED BY <2>1, <2>2, <2>3 DEF Once
<1>7. ASSUME Covered(fr, q), NEW x \in 1 .. Slots
      PROVE  \/ \E i \in 1 .. Len(t) : t[i] = x
             \/ \E k \in 1 .. Len(r) : r[k].kind = "batch" /\ r[k].slot = x
  <2>1. CASE \E k \in 1 .. Len(q) : q[k].kind = "batch" /\ q[k].slot = x
    <3>1. PICK k \in 1 .. Len(q) : q[k].kind = "batch" /\ q[k].slot = x
      BY <2>1
    <3>2. CASE k = 1
      BY <1>2, <1>4, <3>1, <3>2
    <3>3. CASE k # 1
      <4>1. k - 1 \in 1 .. Len(r) /\ (k - 1) + 1 = k
        BY <1>1, <3>3
      <4>2. r[k - 1] = q[k]
        BY <1>1, <4>1
      <4> QED BY <3>1, <4>1, <4>2
    <3> QED BY <3>2, <3>3
  <2>2. CASE \E i \in 1 .. Len(fr) : fr[i] = x
    <3>1. 1 .. Len(fr) \subseteq 1 .. Len(t)
      BY <1>2
    <3> QED BY <1>2, <2>2, <3>1
  <2> QED BY <1>7, <2>1, <2>2 DEF Covered
<1>8. Covered(fr, q) => Covered(t, r)
  BY <1>7 DEF Covered
<1> QED BY <1>2, <1>6, <1>8 DEF t

-----------------------------------------------------------------------------
(* Every step keeps StagingInv.                                             *)

\* The fields of the batch the callback is at.
LEMMA BatchFacts ==
  ASSUME PlanInv, next <= Len(plan)
  PROVE  /\ next \in 1 .. Len(plan) /\ Len(plan) \in Nat
         /\ Batch.series \in DOMAIN Series \cup {0} /\ Batch.ids \in Seq(Nat)
         /\ Batch.start \in BOOLEAN /\ Batch.end \in BOOLEAN
         /\ Batch.series = 0 => Batch.ids = <<>> /\ ~Batch.start /\ ~Batch.end
         /\ NeedsSlot => Batch.series \in Written
         /\ 0 \notin DOMAIN Series /\ 0 \notin Written
<1>1. Len(plan) \in Nat /\ next \in 1 .. Len(plan)
  BY WriterAssumption DEF PlanInv
<1>2. plan \in Plans
  BY DEF PlanInv
<1>3. /\ plan[next].series \in DOMAIN Series \cup {0} /\ plan[next].ids \in Seq(Nat)
      /\ plan[next].start \in BOOLEAN /\ plan[next].end \in BOOLEAN
      /\ plan[next].series = 0 => plan[next].ids = <<>> /\ ~plan[next].start /\ ~plan[next].end
  BY <1>1, <1>2, WriterAssumption
<1>4. 0 \notin DOMAIN Series /\ 0 \notin Written
  BY WriterAssumption DEF Written
<1> QED BY <1>1, <1>3, <1>4 DEF Batch, NeedsSlot, Written

\* Steps that leave the queue alone.
LEMMA QueueKept ==
  ASSUME QueueInv, UNCHANGED <<free, slots, jobs, thread, job>>, at' \in Nat,
         stage' = "stopped" <=> stage = "stopped"
  PROVE  QueueInv' /\ Pending' = Pending
<1>1. Pending' = Pending
  BY DEF Pending
<1>2. BatchJobs(Pending)' /\ StopLast(Pending, stage)'
  BY <1>1 DEF QueueInv, BatchJobs, StopLast
<1> QED BY <1>1, <1>2 DEF QueueInv

\* Pushes.
LEMMA QueuePushed ==
  ASSUME QueueInv, NEW j \in Job, jobs' = Append(jobs, j), UNCHANGED <<thread, job, at>>,
         free' \in Seq(1 .. Slots), slots' \in [1 .. Slots -> Seq(Nat)], stage # "stopped",
         j.kind = "batch" => j.slot \in 1 .. Slots /\ j.series \in Written,
         j.kind = "stop" => stage' = "stopped"
  PROVE  QueueInv' /\ Appended(Pending, j, Pending')
<1>1. Appended(Pending, j, Pending') /\ jobs' \in Seq(Job)
  BY PendingPush
<1>2. \A i \in 1 .. Len(Pending') : \/ i \in 1 .. Len(Pending) /\ Pending'[i] = Pending[i]
                                    \/ i = Len(Pending') /\ Pending'[i] = j
  BY <1>1 DEF Appended
<1>3. BatchJobs(Pending)'
  BY <1>2 DEF QueueInv, BatchJobs
<1>4. StopLast(Pending, stage)'
  BY <1>2 DEF QueueInv, StopLast
<1> QED BY <1>1, <1>3, <1>4 DEF QueueInv

\* The end of a job.
LEMMA QueueFinished ==
  ASSUME QueueInv, thread = "work",
         thread' \in {"wait", "exited"}, thread' = "exited" <=> job.kind = "stop",
         UNCHANGED <<jobs, slots, stage>>, free' \in Seq(1 .. Slots), at' \in Nat
  PROVE  /\ QueueInv' /\ Dropped(Pending, Pending') /\ Pending[1] = job /\ job \in Job
         /\ Pending' = jobs /\ Pending # <<>>
         /\ job.kind = "stop" => Pending' = <<>>
         /\ job.kind = "batch" => job.slot \in 1 .. Slots /\ job.series \in Written
<1>1. Dropped(Pending, Pending') /\ Pending[1] = job /\ Pending' = jobs /\ job \in Job
  BY PendingFinish
<1>2. /\ Len(Pending) \in Nat \ {0} /\ Len(Pending') = Len(Pending) - 1
      /\ \A i \in 1 .. Len(Pending') : Pending'[i] = Pending[i + 1]
  BY <1>1 DEF Dropped
<1>3. \A i \in 1 .. Len(Pending') : i + 1 \in 1 .. Len(Pending) /\ Pending'[i] = Pending[i + 1]
  BY <1>2
<1>4. BatchJobs(Pending)'
  BY <1>3 DEF QueueInv, BatchJobs
<1>5. StopLast(Pending, stage)'
  <2> SUFFICES ASSUME NEW i \in 1 .. Len(Pending'), Pending'[i].kind = "stop"
               PROVE  i = Len(Pending') /\ stage' = "stopped"
    BY DEF StopLast
  <2>1. i + 1 = Len(Pending) /\ stage = "stopped"
    BY <1>3 DEF QueueInv, StopLast
  <2> QED BY <1>2, <2>1
<1>6. 1 \in 1 .. Len(Pending)
  BY <1>2
<1>7. ASSUME job.kind = "stop" PROVE jobs = <<>> /\ stage = "stopped"
  <2>1. 1 = Len(Pending) /\ stage = "stopped"
    BY <1>1, <1>6, <1>7 DEF QueueInv, StopLast
  <2>2. jobs \in Seq(Job)
    BY DEF QueueInv
  <2>3. Len(jobs) = 0
    <3>1. Len(jobs) \in Nat /\ Len(Pending) = Len(jobs) + 1
      BY PendingType
    <3> QED BY <2>1, <3>1
  <2> QED BY <2>1, <2>2, <2>3, EmptySeq
<1>8. job.kind = "batch" => job.slot \in 1 .. Slots /\ job.series \in Written
  BY <1>1, <1>6 DEF QueueInv, BatchJobs
<1>9. QueueInv'
  BY <1>4, <1>5, <1>7 DEF QueueInv
<1>10. Pending # <<>>
  BY <1>2, EmptySeq, PendingType
<1> QED BY <1>1, <1>7, <1>8, <1>9, <1>10

\* At the start every slot is free.
LEMMA InitStaging == Init => StagingInv
<1> SUFFICES ASSUME Init PROVE StagingInv
  OBVIOUS
<1>1. Slots \in Nat \ {0} /\ 0 \notin DOMAIN Series
  BY WriterAssumption
<1>2. PlanInv
  <2>1. plan \in Plans /\ Len(plan) \in Nat /\ next = 1
    BY WriterAssumption DEF Init
  <2> QED BY <2>1 DEF Init, PlanInv, Running
<1>3. free \in Seq(1 .. Slots) /\ Len(free) = Slots /\ \A i \in 1 .. Slots : free[i] = i
  <2>1. free = [i \in 1 .. Slots |-> i]
    BY DEF Init
  <2>2. free \in [1 .. Slots -> 1 .. Slots]
    BY <2>1
  <2>3. free \in Seq(1 .. Slots)
    BY <1>1, <2>2
  <2>4. DOMAIN free = 1 .. Len(free) /\ Len(free) \in Nat
    BY <2>3, LenProperties
  <2>5. Len(free) = Slots
    BY <1>1, <2>2, <2>4
  <2> QED BY <2>1, <2>3, <2>5
<1>4. slots \in [1 .. Slots -> Seq(Nat)]
  BY DEF Init
<1>5. Pending = <<>> /\ Len(Pending) = 0
  BY DEF Init, Pending
<1>6. BatchJobs(Pending) /\ StopLast(Pending, stage)
  BY <1>5 DEF BatchJobs, StopLast
<1>7. QueueInv
  BY <1>3, <1>4, <1>6 DEF QueueInv, Init
<1>8. Once(free, Pending)
  BY <1>1, <1>3, <1>5 DEF Once
<1>9. Covered(free, Pending)
  BY <1>1, <1>3 DEF Covered
<1> QED BY <1>2, <1>7, <1>8, <1>9 DEF StagingInv, SlotInv

\* The steps of the callback and of stop().
LEMMA CallbackStaging ==
  ASSUME StagingInv, Callback \/ Stop \/ RequestStop \/ UNCHANGED vars
  PROVE  StagingInv'
<1> USE DEF StagingInv
<1>1. Len(plan) \in Nat /\ next \in Nat \ {0} /\ free \in Seq(1 .. Slots) /\ slots \in [1 .. Slots -> Seq(Nat)]
  BY WriterAssumption DEF PlanInv, QueueInv
<1>2. CASE Enter
  <2>1. stage = "idle" /\ next <= Len(plan) /\ stage' \in {"images", "staged", "failed"}
        /\ UNCHANGED <<plan, next, free, slots, thread, job, at>>
    BY <1>2 DEF Enter
  <2>2. PlanInv'
    <3>1. CASE stage' = "failed"
      BY <1>2, <2>1, <3>1 DEF Enter, PlanInv, Running
    <3>2. CASE stage' # "failed"
      <4>1. Matches /\ ~error /\ stage' = IF NeedsSlot THEN "images" ELSE "staged"
        BY <1>2, <2>1, <3>2 DEF Enter
      <4>2. active' = IF Batch.start THEN Batch.series ELSE active
        BY <1>2, <4>1 DEF Enter
      <4>3. NeedsSlot => active' = Batch.series /\ Batch.series \in Written
        BY <2>1, <4>1, <4>2, BatchFacts DEF Matches
      <4>4. active' \in DOMAIN Series \cup {0}
        BY <2>1, <4>2, BatchFacts DEF PlanInv
      <4> QED BY <2>1, <4>1, <4>3, <4>4 DEF PlanInv, Running, Batch
    <3> QED BY <3>1, <3>2
  <2>3. CASE jobs' = jobs
    <3>1. QueueInv' /\ Pending' = Pending
      BY <1>1, <2>1, <2>3, QueueKept DEF QueueInv
    <3> QED BY <2>1, <2>2, <3>1 DEF SlotInv, Running
  <2>4. CASE jobs' # jobs
    <3> DEFINE j == [kind |-> "start", series |-> Batch.series, slot |-> 0]
    <3>1. jobs' = Append(jobs, j)
      BY <1>2, <2>4 DEF Enter, Push
    <3>2. j \in Job
      BY <2>1, BatchFacts, WriterAssumption DEF Job
    <3>3. j.kind = "start"
      OBVIOUS
    <3> HIDE DEF j
    <3>4. QueueInv' /\ Appended(Pending, j, Pending')
      BY <1>1, <2>1, <3>1, <3>2, <3>3, QueuePushed
    <3>5. (Once(free, Pending) => Once(free, Pending')) /\ (Covered(free, Pending) => Covered(free, Pending'))
      BY <1>1, <3>3, <3>4, SlotsPushOther
    <3> QED BY <2>1, <2>2, <3>4, <3>5 DEF SlotInv, Running
  <2> QED BY <2>3, <2>4
<1>3. CASE Stage
  <2> DEFINE j == [kind |-> "batch", series |-> Batch.series, slot |-> Head(free)]
  <2>1. Staging /\ stage' = "staged" /\ free # <<>> /\ free' = Tail(free)
        /\ slots' = [slots EXCEPT ![Head(free)] = Batch.ids] /\ jobs' = Append(jobs, j)
        /\ UNCHANGED <<plan, next, active, thread, job, at>>
    BY <1>3 DEF Stage, Push
  <2>2. next <= Len(plan) /\ Batch.series \in Written
    BY <2>1 DEF PlanInv, Running
  <2>3. Head(free) \in 1 .. Slots
    BY <1>1, <2>1, HeadAndTail
  <2>4. j \in Job
    BY <2>2, <2>3, BatchFacts DEF Job
  <2>5. j.kind = "batch" /\ j.slot = Head(free) /\ j.series = Batch.series
    OBVIOUS
  <2> HIDE DEF j
  <2>6. /\ free' \in Seq(1 .. Slots)
        /\ \A r : Appended(Pending, j, r) =>
             /\ Once(free, Pending) => Once(free', r)
             /\ Covered(free, Pending) => Covered(free', r)
    <3>1. free' \in Seq(1 .. Slots)
      BY <1>1, <2>1, HeadAndTail
    <3> QED BY <1>1, <2>1, <2>5, <3>1, SlotsStage
  <2>7. slots' \in [1 .. Slots -> Seq(Nat)]
    <3>1. Batch.ids \in Seq(Nat)
      BY <2>2, BatchFacts
    <3> QED BY <1>1, <2>1, <2>3, <3>1
  <2>8. QueueInv' /\ Appended(Pending, j, Pending')
    BY <2>1, <2>2, <2>3, <2>4, <2>5, <2>6, <2>7, QueuePushed
  <2>9. PlanInv'
    BY <2>1, <2>2 DEF PlanInv, Running
  <2> QED BY <2>1, <2>6, <2>8, <2>9 DEF SlotInv, Running
<1>4. CASE CompressFails
  <2>1. Staging /\ stage' = "failed" /\ free # <<>> /\ free' = Tail(free)
        /\ slots' = [slots EXCEPT ![Head(free)] = Batch.ids]
        /\ UNCHANGED <<plan, next, active, jobs, thread, job, at>>
    BY <1>4 DEF CompressFails
  <2>2. next <= Len(plan)
    BY <2>1 DEF PlanInv, Running
  <2>3. Head(free) \in 1 .. Slots
    BY <1>1, <2>1, HeadAndTail
  <2>4. slots' \in [1 .. Slots -> Seq(Nat)]
    <3>1. Batch.ids \in Seq(Nat)
      BY <2>2, BatchFacts
    <3> QED BY <1>1, <2>1, <2>3, <3>1
  <2>5. free' \in Seq(1 .. Slots) /\ (Once(free, Pending) => Once(free', Pending))
    BY <1>1, <2>1, SlotsDrop
  <2>6. Pending' = Pending
    BY <2>1 DEF Pending
  <2>7. BatchJobs(Pending)' /\ StopLast(Pending, stage)'
    BY <2>1, <2>6 DEF QueueInv, BatchJobs, StopLast
  <2>8. QueueInv'
    BY <2>1, <2>4, <2>5, <2>7 DEF QueueInv
  <2>9. PlanInv'
    BY <2>1, <2>2 DEF PlanInv, Running
  <2> QED BY <2>1, <2>5, <2>6, <2>8, <2>9 DEF SlotInv, Running
<1>5. CASE PushEnd
  <2> DEFINE j == [kind |-> "end", series |-> Batch.series, slot |-> 0]
  <2>1. stage = "staged" /\ stage' = "ending" /\ jobs' = Append(jobs, j) /\ active' = 0
        /\ UNCHANGED <<plan, next, free, slots, thread, job, at>>
    BY <1>5 DEF PushEnd, Push
  <2>2. next <= Len(plan)
    BY <2>1 DEF PlanInv, Running
  <2>3. j \in Job
    BY <2>2, BatchFacts, WriterAssumption DEF Job
  <2>4. j.kind = "end"
    OBVIOUS
  <2> HIDE DEF j
  <2>5. QueueInv' /\ Appended(Pending, j, Pending')
    BY <1>1, <2>1, <2>3, <2>4, QueuePushed
  <2>6. (Once(free, Pending) => Once(free, Pending')) /\ (Covered(free, Pending) => Covered(free, Pending'))
    BY <1>1, <2>4, <2>5, SlotsPushOther
  <2>7. PlanInv'
    BY <2>1, <2>2 DEF PlanInv, Running
  <2> QED BY <2>1, <2>5, <2>6, <2>7 DEF SlotInv, Running
<1>6. CASE Await \/ Release \/ FailWait \/ AbandonWait \/ RequestStop \/ UNCHANGED vars
  <2>1. /\ UNCHANGED <<plan, active, free, slots, jobs, thread, job, at>>
        /\ \/ stage \in {"staged", "ending", "held"} /\ stage' = "idle" /\ next' = next + 1
           \/ stage \in Running /\ stage' \in {"failed", "abandoned"} /\ next' = next
           \/ stage = "images" /\ stage' = "waiting" /\ next' = next
           \/ stage = "ending" /\ stage' = "held" /\ next' = next
           \/ stage' = stage /\ next' = next
    BY <1>6 DEF Await, Running, Release, FailWait, AbandonWait, RequestStop, vars, callVars, diskVars
  <2>2. QueueInv' /\ Pending' = Pending
    BY <2>1, QueueKept DEF QueueInv, Running
  <2>3. PlanInv'
    <3>1. CASE stage \in {"staged", "ending", "held"} /\ stage' = "idle" /\ next' = next + 1
      BY <1>1, <2>1, <3>1 DEF PlanInv, Running
    <3>2. CASE stage \in Running /\ stage' \in {"failed", "abandoned"} /\ next' = next
      BY <2>1, <3>2 DEF PlanInv, Running
    <3>3. CASE stage = "images" /\ stage' = "waiting" /\ next' = next
      BY <2>1, <3>3 DEF PlanInv, Batch, Running
    <3>4. CASE stage = "ending" /\ stage' = "held" /\ next' = next
      BY <2>1, <3>4 DEF PlanInv, Running
    <3>5. CASE stage' = stage /\ next' = next
      BY <2>1, <3>5 DEF PlanInv, Batch
    <3> QED BY <2>1, <3>1, <3>2, <3>3, <3>4, <3>5
  <2>4. stage' \in Running => stage \in Running
    BY <2>1 DEF Running
  <2> QED BY <2>1, <2>2, <2>3, <2>4 DEF SlotInv
<1>7. CASE Stop
  <2> DEFINE j == [kind |-> "stop", series |-> 0, slot |-> 0]
  <2>1. stage # "stopped" /\ stage' = "stopped" /\ jobs' = Append(jobs, j)
        /\ UNCHANGED <<plan, next, active, free, slots, thread, job, at>>
    BY <1>7 DEF Stop, StopQueue
  <2>2. j \in Job
    BY WriterAssumption DEF Job
  <2>3. j.kind = "stop"
    OBVIOUS
  <2> HIDE DEF j
  <2>4. QueueInv' /\ Appended(Pending, j, Pending')
    BY <1>1, <2>1, <2>2, <2>3, QueuePushed
  <2>5. Once(free, Pending) => Once(free, Pending')
    BY <1>1, <2>3, <2>4, SlotsPushOther
  <2>6. PlanInv'
    BY <2>1 DEF PlanInv, Running
  <2> QED BY <2>1, <2>4, <2>5, <2>6 DEF SlotInv, Running
<1> QED BY <1>2, <1>3, <1>4, <1>5, <1>6, <1>7 DEF Callback

\* The steps of the thread.
LEMMA WriterStaging ==
  ASSUME StagingInv, Writer
  PROVE  StagingInv'
<1> USE DEF StagingInv
<1>1. UNCHANGED <<plan, next, stage, active, slots>>
  <2>1. UNCHANGED callVars
    BY DEF Writer, Take, StartSeries, StartFails, WriteImage, WriteFails, FinishBatch, EndSeries, EndFails, Exit
  <2>2. UNCHANGED slots
    BY DEF Writer, Take, StartSeries, StartFails, WriteImage, WriteFails, FinishBatch, EndSeries, EndFails, Exit
  <2> QED BY <2>1, <2>2 DEF callVars
<1>2. PlanInv'
  BY <1>1 DEF PlanInv, Batch
<1>3. at \in Nat /\ free \in Seq(1 .. Slots)
  BY DEF QueueInv
<1>4. CASE Take
  <2>1. Pending' = Pending /\ job' \in Job /\ jobs' \in Seq(Job)
    BY <1>4, PendingTake
  <2>2. thread' = "work" /\ at' = 0 /\ free' = free
    BY <1>4 DEF Take
  <2>3. BatchJobs(Pending)' /\ StopLast(Pending, stage)'
    BY <1>1, <2>1 DEF QueueInv, BatchJobs, StopLast
  <2>4. QueueInv'
    BY <1>1, <2>1, <2>2, <2>3 DEF QueueInv
  <2> QED BY <1>1, <1>2, <2>1, <2>2, <2>4 DEF SlotInv
<1>5. CASE WriteImage
  <2>1. UNCHANGED <<free, jobs, thread, job>> /\ at' = at + 1
    BY <1>5 DEF WriteImage
  <2>2. QueueInv' /\ Pending' = Pending
    BY <1>1, <1>3, <2>1, QueueKept
  <2> QED BY <1>1, <1>2, <2>1, <2>2 DEF SlotInv
<1>6. CASE StartSeries \/ StartFails \/ EndSeries \/ EndFails \/ Exit
  <2>1. /\ thread = "work" /\ thread' \in {"wait", "exited"}
        /\ thread' = "exited" <=> job.kind = "stop"
        /\ job.kind # "batch" /\ UNCHANGED <<jobs, free, at>>
    BY <1>6 DEF StartSeries, StartFails, EndSeries, EndFails, Exit, Idle
  <2>2. QueueInv' /\ Dropped(Pending, Pending') /\ Pending[1] = job
    BY <1>1, <1>3, <2>1, QueueFinished
  <2>3. (Once(free, Pending) => Once(free, Pending')) /\ (Covered(free, Pending) => Covered(free, Pending'))
    BY <1>3, <2>1, <2>2, SlotsFinishOther
  <2> QED BY <1>1, <1>2, <2>1, <2>2, <2>3 DEF SlotInv
<1>7. CASE WriteFails \/ FinishBatch
  <2>1. /\ thread = "work" /\ thread' = "wait" /\ job.kind = "batch"
        /\ free' = Append(free, job.slot) /\ UNCHANGED <<jobs, at>>
    BY <1>7 DEF WriteFails, FinishBatch, Idle, FreeAfterFailure
  <2>2. job = Pending[1] /\ job.slot \in 1 .. Slots /\ 1 \in 1 .. Len(Pending)
    <3>1. job = Pending[1] /\ 1 \in 1 .. Len(Pending)
      BY <2>1, PendingType
    <3> QED BY <2>1, <3>1 DEF QueueInv, BatchJobs
  <2>3. free' \in Seq(1 .. Slots)
    BY <1>3, <2>1, <2>2, AppendProperties
  <2>4. QueueInv' /\ Dropped(Pending, Pending')
    BY <1>1, <1>3, <2>1, <2>3, QueueFinished
  <2>5. (Once(free, Pending) => Once(free', Pending')) /\ (Covered(free, Pending) => Covered(free', Pending'))
    BY <1>3, <2>1, <2>2, <2>4, SlotsFinish
  <2> QED BY <1>1, <1>2, <2>4, <2>5 DEF SlotInv
<1> QED BY <1>4, <1>5, <1>6, <1>7 DEF Writer

\* Every step keeps the types and the slots.
LEMMA NextStaging == StagingInv /\ [Next]_vars => StagingInv'
  BY CallbackStaging, WriterStaging DEF Next, Done

\* The slots in hands are those of the ring and of the batches that are pending.
LEMMA SlotsInHands == StagingInv => StagingConserved
<1> SUFFICES ASSUME StagingInv PROVE StagingConserved
  OBVIOUS
<1>1. /\ Once(free, Pending)
      /\ stage \in Running => Covered(free, Pending)
      /\ \A i \in 1 .. Len(free) : free[i] \in 1 .. Slots
      /\ BatchJobs(Pending)
  BY ElementOfSeq DEF StagingInv, SlotInv, QueueInv
<1>2. ASSUME NEW h \in Hands
      PROVE  \/ \E i \in 1 .. Len(free) : h = <<"free", i>> /\ SlotIn(h) = free[i]
             \/ \E k \in 1 .. Len(Pending) :
                  Pending[k].kind = "batch" /\ h = <<"batch", k>> /\ SlotIn(h) = Pending[k].slot
  BY DEF Hands, SlotIn
<1>3. ASSUME NEW i \in 1 .. Len(free)
      PROVE  <<"free", i>> \in Hands /\ SlotIn(<<"free", i>>) = free[i]
  BY DEF Hands, SlotIn
<1>4. ASSUME NEW k \in 1 .. Len(Pending), Pending[k].kind = "batch"
      PROVE  <<"batch", k>> \in Hands /\ SlotIn(<<"batch", k>>) = Pending[k].slot
  BY <1>4 DEF Hands, SlotIn
<1>5. ASSUME NEW g \in Hands, NEW h \in Hands, SlotIn(g) = SlotIn(h) PROVE g = h
  <2>1. CASE \E i \in 1 .. Len(free) : g = <<"free", i>> /\ SlotIn(g) = free[i]
    <3>1. PICK i \in 1 .. Len(free) : g = <<"free", i>> /\ SlotIn(g) = free[i]
      BY <2>1
    <3>2. CASE \E k \in 1 .. Len(free) : h = <<"free", k>> /\ SlotIn(h) = free[k]
      BY <1>1, <1>5, <3>1, <3>2 DEF Once
    <3>3. CASE \E k \in 1 .. Len(Pending) : Pending[k].kind = "batch" /\ h = <<"batch", k>> /\ SlotIn(h) = Pending[k].slot
      BY <1>1, <1>5, <3>1, <3>3 DEF Once
    <3> QED BY <1>2, <3>2, <3>3
  <2>2. CASE \E k \in 1 .. Len(Pending) :
               Pending[k].kind = "batch" /\ g = <<"batch", k>> /\ SlotIn(g) = Pending[k].slot
    <3>1. PICK k \in 1 .. Len(Pending) : Pending[k].kind = "batch" /\ g = <<"batch", k>> /\ SlotIn(g) = Pending[k].slot
      BY <2>2
    <3>2. CASE \E i \in 1 .. Len(free) : h = <<"free", i>> /\ SlotIn(h) = free[i]
      BY <1>1, <1>5, <3>1, <3>2 DEF Once
    <3>3. CASE \E i \in 1 .. Len(Pending) : Pending[i].kind = "batch" /\ h = <<"batch", i>> /\ SlotIn(h) = Pending[i].slot
      BY <1>1, <1>5, <3>1, <3>3 DEF Once
    <3> QED BY <1>2, <3>2, <3>3
  <2> QED BY <1>2, <2>1, <2>2
<1>6. ASSUME stage \in Running PROVE {SlotIn(h) : h \in Hands} = 1 .. Slots
  <2>1. ASSUME NEW h \in Hands PROVE SlotIn(h) \in 1 .. Slots
    BY <1>1, <1>2 DEF BatchJobs
  <2>2. ASSUME NEW x \in 1 .. Slots PROVE \E h \in Hands : SlotIn(h) = x
    <3>1. CASE \E i \in 1 .. Len(free) : free[i] = x
      BY <1>3, <3>1
    <3>2. CASE \E k \in 1 .. Len(Pending) : Pending[k].kind = "batch" /\ Pending[k].slot = x
      BY <1>4, <3>2
    <3> QED BY <1>1, <1>6, <3>1, <3>2 DEF Covered
  <2> QED BY <2>1, <2>2
<1> QED BY <1>5, <1>6 DEF StagingConserved, Running

\* The types and the slots, as an inductive invariant.
THEOREM StagingInvariance == Spec => []StagingInv
<1>1. Init => StagingInv
  BY InitStaging
<1>2. StagingInv /\ [Next]_vars => StagingInv'
  BY NextStaging
<1> QED BY <1>1, <1>2, PTL DEF Spec

\* No staging slot is lost or in two hands, whichever step of the writer fails.
THEOREM SlotsConserved == Spec => []StagingConserved
<1>1. StagingInv => StagingConserved
  BY SlotsInHands
<1> QED BY <1>1, StagingInvariance, PTL

-----------------------------------------------------------------------------
(* The data files: what closing, opening and storing leave there.           *)

\* No image that is on disk in d is missing in e.
Kept(d, e) ==
  \A t \in Written : \A id \in Nat :
    id < Series[t].images /\ OnDisk(d, t, id) => OnDisk(e, t, id)

\* The quotient of a smaller number, plus one, is at most the quotient rounded up.
LEMMA Quotient ==
  ASSUME NEW a \in Nat, NEW b \in Nat, NEW n \in Nat \ {0}, a < b
  PROVE  a \div n \in Nat /\ a \div n + 1 <= (b + n - 1) \div n /\ (b + n - 1) \div n \in Nat
<1> DEFINE q == a \div n
           c == b + n - 1
           r == c \div n
<1>1. q \in Nat /\ n * q <= a /\ a < n * q + n
  <2>1. q \in Nat
    OBVIOUS
  <2>2. a = n * q + (a % n) /\ a % n \in 0 .. n - 1
    OBVIOUS
  <2>3. n * q \in Nat
    BY <2>1
  <2> QED BY <2>1, <2>2, <2>3
<1>2. c \in Nat
  OBVIOUS
<1>3. r \in Nat /\ n * r <= c /\ c < n * r + n
  <2>1. r \in Nat
    BY <1>2
  <2>2. c = n * r + (c % n) /\ c % n \in 0 .. n - 1
    BY <1>2
  <2>3. n * r \in Nat
    BY <2>1
  <2> HIDE DEF c, r
  <2> QED BY <1>2, <2>1, <2>2, <2>3
<1>4. a + n <= c
  OBVIOUS
<1> HIDE DEF q, c, r
<1>5. n * q \in Nat /\ n * r \in Nat
  BY <1>1, <1>3
<1>6. n * q < n * r
  <2>1. n * q + n <= c
    BY <1>1, <1>2, <1>4, <1>5
  <2>2. n * q + n < n * r + n
    BY <1>2, <1>3, <1>5, <2>1
  <2> QED BY <1>5, <2>2
<1>7. q < r
  BY <1>1, <1>3, <1>6
<1> QED BY <1>1, <1>3, <1>7 DEF q, c, r

\* An image that belongs in the files of a series has a file and a position there.
LEMMA FileOfImage ==
  ASSUME NEW s \in Written, NEW id \in Nat, id < Series[s].images
  PROVE  /\ FileOf(id) \in DataFiles(s) /\ FileOf(id) \in Nat \ {0}
         /\ Path(s, FileOf(id)) \in Paths
<1>1. ImagesPerFile \in Nat \ {0} /\ Series[s].images \in Nat
  BY WriterAssumption DEF Written
<1>2. FileOf(id) \in DataFiles(s) /\ FileOf(id) \in Nat \ {0}
  <2>1. /\ id \div ImagesPerFile \in Nat
        /\ id \div ImagesPerFile + 1 <= (Series[s].images + ImagesPerFile - 1) \div ImagesPerFile
        /\ (Series[s].images + ImagesPerFile - 1) \div ImagesPerFile \in Nat
    BY <1>1, Quotient
  <2> QED BY <2>1 DEF FileOf, DataFiles
<1> QED BY <1>2 DEF Path, Paths

\* Positions in a data file are counted from 1.
LEMMA PositionPositive ==
  ASSUME NEW id \in Nat
  PROVE  Position(id) \in Nat \ {0}
  BY WriterAssumption DEF Position

\* The data files of a series that is written are among the paths.
LEMMA PathOfFile ==
  ASSUME NEW s \in Written, NEW n \in DataFiles(s)
  PROVE  Path(s, n) \in Paths /\ n \in Nat \ {0}
<1>1. ImagesPerFile \in Nat \ {0} /\ Series[s].images \in Nat
  BY WriterAssumption DEF Written
<1>2. (Series[s].images + ImagesPerFile - 1) \div ImagesPerFile \in Nat
  BY <1>1
<1> QED BY <1>2 DEF DataFiles, Path, Paths

\* With different names, a path tells the series and the number of the file.
LEMMA PathsDiffer ==
  ASSUME DistinctNames, NEW s \in Written, NEW t \in Written, NEW n, NEW m, Path(s, n) = Path(t, m)
  PROVE  s = t /\ n = m
  BY DEF DistinctNames, Path

\* Nothing is in a file that is not there.
LEMMA AbsentHoldsNothing ==
  ASSUME NEW side, NEW t, NEW id \in Nat, side[Path(t, FileOf(id))] = Absent
  PROVE  ~InFile(side, t, id)
<1>1. Len(Absent) = 0
  BY DEF Absent
<1> QED BY <1>1, PositionPositive DEF InFile

\* Closing leaves no temporary name, and every image under a final one.
LEMMA Closing ==
  ASSUME NEW d \in Disk, NEW s, NEW f \in File, FileOK(d, s, f)
  PROVE  LET e == Closed(d, s, f)
         IN  /\ e \in Disk
             /\ \A p \in Paths : e.temp[p] = Absent
             /\ \A t \in Written : \A id \in Nat :
                  id < Series[t].images /\ OnDisk(d, t, id) => InFile(e.final, t, id)
<1> DEFINE e == Closed(d, s, f)
<1>1. d.temp \in [Paths -> Contents] /\ d.final \in [Paths -> Contents]
  BY DEF Disk
<1>2. CASE f.number = 0 \/ ~f.temp
  <2>1. e = d
    BY <1>2 DEF Closed
  <2>2. \A p \in Paths : d.temp[p] = Absent
    BY <1>2 DEF FileOK
  <2>3. ASSUME NEW t \in Written, NEW id \in Nat, id < Series[t].images, OnDisk(d, t, id)
        PROVE  InFile(d.final, t, id)
    <3>1. d.temp[Path(t, FileOf(id))] = Absent
      BY <2>2, <2>3, FileOfImage
    <3> QED BY <2>3, <3>1, AbsentHoldsNothing DEF OnDisk
  <2> QED BY <2>1, <2>2, <2>3
<1>3. CASE f.number # 0 /\ f.temp
  <2> DEFINE p0 == Path(s, f.number)
  <2>1. p0 \in Paths
    BY <1>3, PathOfFile DEF FileOK
  <2>2. d.final[p0] = Absent /\ \A p \in Paths : p # p0 => d.temp[p] = Absent
    BY <1>3 DEF FileOK
  <2>3. e = [temp |-> [d.temp EXCEPT ![p0] = Absent], final |-> [d.final EXCEPT ![p0] = d.temp[p0]]]
    BY <1>3 DEF Closed
  <2> HIDE DEF p0, e
  <2>4. e.temp = [d.temp EXCEPT ![p0] = Absent] /\ e.final = [d.final EXCEPT ![p0] = d.temp[p0]]
    BY <2>3
  <2>5. Absent \in Contents
    BY DEF Absent, Contents
  <2>6. e.temp \in [Paths -> Contents] /\ e.final \in [Paths -> Contents]
    BY <1>1, <2>1, <2>4, <2>5
  <2>7. e \in Disk
    BY <2>3, <2>4, <2>6 DEF Disk
  <2>8. \A p \in Paths : e.temp[p] = Absent
    BY <1>1, <2>2, <2>4
  <2>9. ASSUME NEW t \in Written, NEW id \in Nat, id < Series[t].images, OnDisk(d, t, id)
        PROVE  InFile(e.final, t, id)
    <3> DEFINE p == Path(t, FileOf(id))
    <3>1. p \in Paths
      BY <2>9, FileOfImage
    <3>2. CASE p = p0
      <4>1. ~InFile(d.final, t, id)
        BY <2>2, <3>2, AbsentHoldsNothing
      <4>2. InFile(d.temp, t, id)
        BY <2>9, <4>1 DEF OnDisk
      <4>3. e.final[p] = d.temp[p]
        BY <1>1, <2>1, <2>4, <3>2
      <4> QED BY <4>2, <4>3 DEF InFile
    <3>3. CASE p # p0
      <4>1. ~InFile(d.temp, t, id)
        BY <2>2, <3>1, <3>3, AbsentHoldsNothing
      <4>2. e.final[p] = d.final[p]
        BY <1>1, <2>4, <3>1, <3>3
      <4> QED BY <2>9, <4>1, <4>2 DEF InFile, OnDisk
    <3> QED BY <3>2, <3>3
  <2> QED BY <2>7, <2>8, <2>9 DEF e
<1> QED BY <1>2, <1>3

\* Without temporary names, no file is open.
LEMMA ClosedIsOK ==
  ASSUME NEW e, NEW s, \A p \in Paths : e.temp[p] = Absent
  PROVE  FileOK(e, s, NoFile) /\ NoFile \in File
  BY DEF FileOK, NoFile, File

\* Closing the open file loses no image.
LEMMA ClosingKeeps ==
  ASSUME NEW d \in Disk, NEW s, NEW f \in File, FileOK(d, s, f)
  PROVE  Kept(d, Closed(d, s, f))
  BY Closing DEF Kept, OnDisk

\* Opening a file that exists or a new one loses no image, when no file is in progress.
LEMMA Opening ==
  ASSUME NEW d \in Disk, \A p \in Paths : d.temp[p] = Absent,
         NEW s \in Written, NEW n \in DataFiles(s)
  PROVE  LET e == Opened(d, s, n)
             f == OpenFile(d, s, n)
         IN  e \in Disk /\ f \in File /\ f.number = n /\ FileOK(e, s, f) /\ Kept(d, e)
<1> DEFINE e == Opened(d, s, n)
           f == OpenFile(d, s, n)
           p0 == Path(s, n)
<1>1. d.temp \in [Paths -> Contents] /\ d.final \in [Paths -> Contents]
  BY DEF Disk
<1>2. p0 \in Paths /\ n \in Nat \ {0}
  BY PathOfFile
<1>3. f \in File /\ f.number = n /\ (f.temp <=> d.final[p0] = Absent)
  BY <1>2 DEF OpenFile, File, Reopens
<1>4. CASE d.final[p0] # Absent
  <2>1. e = d
    BY <1>4 DEF Opened, Reopens
  <2>2. FileOK(d, s, f)
    BY <1>2, <1>3, <1>4 DEF FileOK
  <2> QED BY <1>3, <2>1, <2>2 DEF Kept
<1>5. CASE d.final[p0] = Absent
  <2> DEFINE new == [i \in 1 .. ImagesIn(s, n) |-> Fill]
  <2>1. new \in Contents
    <3>1. ImagesPerFile \in Nat \ {0} /\ Series[s].images \in Nat
      BY WriterAssumption DEF Written
    <3>2. (n - 1) * ImagesPerFile \in Int
      BY <1>2, <3>1
    <3>3. ImagesIn(s, n) \in Int
      BY <3>1, <3>2 DEF ImagesIn
    <3>4. PICK k \in Nat : 1 .. ImagesIn(s, n) = 1 .. k
      <4>1. CASE ImagesIn(s, n) >= 0
        BY <3>3, <4>1
      <4>2. CASE ImagesIn(s, n) < 0
        <5>1. 1 .. ImagesIn(s, n) = 1 .. 0
          BY <3>3, <4>2
        <5> QED BY <5>1
      <4> QED BY <3>3, <4>1, <4>2
    <3>5. new \in [1 .. k -> DOMAIN Series \cup {Fill}]
      BY <3>4
    <3> HIDE DEF new
    <3>6. new \in Seq(DOMAIN Series \cup {Fill})
      BY <3>5
    <3> QED BY <3>6 DEF Contents
  <2>2. e = [d EXCEPT !.temp[p0] = new]
    BY <1>5 DEF Opened, Reopens
  <2> HIDE DEF new, e, p0, f
  <2>3. e.temp = [d.temp EXCEPT ![p0] = new] /\ e.final = d.final
    BY <2>2 DEF Disk
  <2>4. e.temp \in [Paths -> Contents]
    BY <1>1, <2>1, <2>3
  <2>5. e \in Disk
    BY <1>1, <2>2, <2>3, <2>4 DEF Disk
  <2>6. \A p \in Paths : e.temp[p] # Absent => p = p0
    BY <1>1, <2>3
  <2>7. FileOK(e, s, f)
    <3>1. f.number # 0 /\ f.temp
      BY <1>2, <1>3, <1>5
    <3>2. p0 = Path(s, f.number)
      BY <1>3 DEF p0
    <3> QED BY <1>3, <1>5, <2>3, <2>6, <3>1, <3>2 DEF FileOK
  <2>8. ASSUME NEW t \in Written, NEW id \in Nat, id < Series[t].images, OnDisk(d, t, id)
        PROVE  OnDisk(e, t, id)
    <3>1. d.temp[Path(t, FileOf(id))] = Absent
      BY <2>8, FileOfImage
    <3>2. InFile(d.final, t, id)
      BY <2>8, <3>1, AbsentHoldsNothing DEF OnDisk
    <3> QED BY <2>3, <3>2 DEF OnDisk
  <2> QED BY <1>3, <2>5, <2>7, <2>8 DEF Kept, e, f
<1> QED BY <1>4, <1>5

\* An image is stored in the file it belongs to.
LEMMA Storing ==
  ASSUME DistinctNames, NEW d \in Disk, NEW f \in File, FileOK(d, series, f),
         NEW id \in Nat, f.number = FileOf(id), id < Series[series].images,
         Fits(f, d, id), series \in Written
  PROVE  LET e == Stored(f, d, id)
         IN  e \in Disk /\ FileOK(e, series, f) /\ OnDisk(e, series, id) /\ Kept(d, e)
<1> DEFINE e == Stored(f, d, id)
           p0 == Path(series, f.number)
           at0 == Position(id)
           side == IF f.temp THEN d.temp ELSE d.final
           new == [side EXCEPT ![p0][at0] = series]
<1>1. d.temp \in [Paths -> Contents] /\ d.final \in [Paths -> Contents] /\ f.temp \in BOOLEAN
  BY DEF Disk, File
<1>2. p0 \in Paths /\ f.number # 0 /\ p0 = Path(series, FileOf(id))
  BY FileOfImage
<1>3. at0 \in Nat \ {0} /\ at0 <= Len(side[p0])
  BY PositionPositive DEF Fits
<1>4. side \in [Paths -> Contents]
  BY <1>1
<1>5. side[p0] \in Contents
  BY <1>2, <1>4
<1>6. at0 \in 1 .. Len(side[p0])
  <2>1. Len(side[p0]) \in Nat
    BY <1>5, LenProperties DEF Contents
  <2> HIDE DEF side, at0, p0
  <2> QED BY <1>3, <2>1
<1>7. e = IF f.temp THEN [d EXCEPT !.temp[p0][at0] = series]
          ELSE [d EXCEPT !.final[p0][at0] = series]
  BY DEF Stored
<1>8. series \in DOMAIN Series \cup {Fill}
  BY DEF Written
<1> DEFINE content == [side[p0] EXCEPT ![at0] = series]
<1> HIDE DEF p0, at0, side, content, e
<1>9. /\ content \in Contents /\ Len(content) = Len(side[p0])
      /\ content[at0] = series
      /\ \A k \in 1 .. Len(side[p0]) : content[k] = IF k = at0 THEN series ELSE side[p0][k]
  <2> DEFINE S == DOMAIN Series \cup {Fill}
             c == side[p0]
  <2>1. c \in Seq(S) /\ at0 \in 1 .. Len(c) /\ series \in S
    BY <1>5, <1>6, <1>8 DEF Contents
  <2>2. content = [c EXCEPT ![at0] = series]
    BY DEF content
  <2> HIDE DEF S, c
  <2>3. /\ content \in Seq(S) /\ Len(content) = Len(c)
        /\ \A k \in 1 .. Len(c) : content[k] = IF k = at0 THEN series ELSE c[k]
    BY <2>1, <2>2, ExceptSeq
  <2> QED BY <2>1, <2>3 DEF S, c, Contents
<1>10. new = [side EXCEPT ![p0] = content]
  BY DEF content
<1> HIDE DEF new
<1>11. /\ new \in [Paths -> Contents] /\ new[p0] = content
       /\ \A p \in Paths : p # p0 => new[p] = side[p]
  BY <1>2, <1>4, <1>9, <1>10
<1>12. /\ e \in Disk
       /\ f.temp => e.temp = new /\ e.final = d.final
       /\ ~f.temp => e.temp = d.temp /\ e.final = new
  <2>1. CASE f.temp
    <3>1. side = d.temp /\ e = [d EXCEPT !.temp[p0][at0] = series]
      BY <1>7, <2>1 DEF side
    <3>2. e.temp = [d.temp EXCEPT ![p0][at0] = series] /\ e.final = d.final
      BY <3>1 DEF Disk
    <3>3. e.temp = new
      BY <3>1, <3>2 DEF new
    <3>4. e \in Disk
      BY <1>1, <1>11, <3>1, <3>2, <3>3 DEF Disk
    <3> QED BY <2>1, <3>2, <3>3, <3>4
  <2>2. CASE ~f.temp
    <3>1. side = d.final /\ e = [d EXCEPT !.final[p0][at0] = series]
      BY <1>7, <2>2 DEF side
    <3>2. e.final = [d.final EXCEPT ![p0][at0] = series] /\ e.temp = d.temp
      BY <3>1 DEF Disk
    <3>3. e.final = new
      BY <3>1, <3>2 DEF new
    <3>4. e \in Disk
      BY <1>1, <1>11, <3>1, <3>2, <3>3 DEF Disk
    <3> QED BY <2>2, <3>2, <3>3, <3>4
  <2> QED BY <2>1, <2>2
<1>13. FileOK(e, series, f)
  <2>1. CASE f.temp
    BY <1>2, <1>11, <1>12, <2>1 DEF FileOK, p0, side
  <2>2. CASE ~f.temp
    BY <1>2, <1>12, <2>2 DEF FileOK
  <2> QED BY <2>1, <2>2
<1>14. InFile(new, series, id)
  BY <1>2, <1>6, <1>9, <1>11 DEF InFile, at0
<1>15. OnDisk(e, series, id)
  BY <1>1, <1>12, <1>14 DEF OnDisk
<1>16. ASSUME NEW t \in Written, NEW i \in Nat, i < Series[t].images, InFile(side, t, i)
       PROVE  InFile(new, t, i)
  <2> DEFINE p == Path(t, FileOf(i))
  <2>1. p \in Paths
    BY <1>16, FileOfImage
  <2>2. CASE p # p0
    BY <1>11, <1>16, <2>1, <2>2 DEF InFile
  <2>3. CASE p = p0
    <3>1. t = series
      BY <1>2, <2>3, PathsDiffer
    <3>2. Position(i) \in Nat \ {0} /\ Len(side[p0]) \in Nat
      BY <1>5, PositionPositive, LenProperties DEF Contents
    <3>3. Position(i) \in 1 .. Len(side[p0]) /\ side[p0][Position(i)] = t
      BY <1>16, <2>3, <3>2 DEF InFile
    <3>4. content[Position(i)] = t
      BY <1>9, <3>1, <3>3
    <3> QED BY <1>9, <1>11, <2>3, <3>3, <3>4 DEF InFile
  <2> QED BY <2>2, <2>3
<1>17. Kept(d, e)
  BY <1>1, <1>12, <1>16 DEF Kept, OnDisk, side
<1> QED BY <1>12, <1>13, <1>15, <1>17 DEF e

\* What two steps in turn do not lose is not lost.
LEMMA KeptTransitive ==
  ASSUME NEW c, NEW d, NEW e, Kept(c, d), Kept(d, e)
  PROVE  Kept(c, e)
  BY DEF Kept

\* The file an image goes to is the one it belongs to, and opening it loses nothing.
LEMMA Switching ==
  ASSUME disk \in Disk, file \in File, FileOK(disk, series, file), series \in Written,
         NEW id \in Nat, id < Series[series].images
  PROVE  LET f == Switched(id)[1]
             d == Switched(id)[2]
         IN  /\ d \in Disk /\ f \in File /\ f.number = FileOf(id)
             /\ FileOK(d, series, f) /\ Kept(disk, d)
<1> DEFINE n == FileOf(id)
           d == Closed(disk, series, file)
<1>1. n \in DataFiles(series)
  BY FileOfImage
<1>2. CASE file.number = n
  BY <1>2 DEF Switched, Kept
<1>3. CASE file.number # n
  <2>1. Switched(id)[1] = OpenFile(d, series, n) /\ Switched(id)[2] = Opened(d, series, n)
    BY <1>3 DEF Switched
  <2>2. d \in Disk /\ (\A p \in Paths : d.temp[p] = Absent) /\ Kept(disk, d)
    BY Closing, ClosingKeeps
  <2> HIDE DEF d, n
  <2>3. /\ Opened(d, series, n) \in Disk /\ OpenFile(d, series, n) \in File
        /\ OpenFile(d, series, n).number = n
        /\ FileOK(Opened(d, series, n), series, OpenFile(d, series, n))
        /\ Kept(d, Opened(d, series, n))
    BY <1>1, <2>2, Opening
  <2>4. Kept(disk, Opened(d, series, n))
    BY <2>2, <2>3, KeptTransitive
  <2> QED BY <2>1, <2>3, <2>4 DEF n
<1> QED BY <1>2, <1>3

\* Writing an image: it is on disk afterwards, with all that was there.
LEMMA Writing ==
  ASSUME DistinctNames, FileInv, thread # "exited", WriteImage,
         NEW id \in Nat, id = slots[job.slot][at + 1],
         series \in Written
  PROVE  /\ disk' \in Disk /\ file' \in File /\ FileOK(disk', series, file') /\ Kept(disk, disk')
         /\ id < Series[series].images => OnDisk(disk', series, id)
<1>1. disk \in Disk /\ file \in File /\ FileOK(disk, series, file)
  BY DEF FileInv
<1>2. CASE id >= Series[series].images
  <2>1. UNCHANGED <<file, disk>>
    BY <1>2 DEF WriteImage
  <2>2. ~(id < Series[series].images)
    BY <1>2, WriterAssumption DEF Written
  <2> QED BY <1>1, <2>1, <2>2 DEF Kept
<1>3. CASE ~(id >= Series[series].images)
  <2> DEFINE f == Switched(id)[1]
             c == Switched(id)[2]
             d == Stored(f, c, id)
  <2>1. /\ Fits(f, c, id)
        /\ IF f.written + 1 = ImagesIn(series, f.number)
           THEN file' = NoFile /\ disk' = Closed(d, series, f)
           ELSE file' = [f EXCEPT !.written = @ + 1] /\ disk' = d
    BY <1>3 DEF WriteImage
  <2>2. id < Series[series].images
    BY <1>3, WriterAssumption DEF Written
  <2>3. /\ c \in Disk /\ f \in File /\ f.number = FileOf(id)
        /\ FileOK(c, series, f) /\ Kept(disk, c)
    BY <1>1, <2>2, Switching
  <2> HIDE DEF f, c
  <2>4. d \in Disk /\ FileOK(d, series, f) /\ OnDisk(d, series, id) /\ Kept(c, d)
    BY <2>1, <2>2, <2>3, Storing
  <2>5. Kept(disk, d)
    BY <2>3, <2>4, KeptTransitive
  <2> HIDE DEF d
  <2>6. CASE file' = NoFile /\ disk' = Closed(d, series, f)
    <3>1. /\ disk' \in Disk /\ (\A p \in Paths : disk'.temp[p] = Absent) /\ Kept(d, disk')
      BY <2>3, <2>4, <2>6, Closing, ClosingKeeps
    <3>2. FileOK(disk', series, file') /\ file' \in File
      BY <2>6, <3>1, ClosedIsOK
    <3>3. OnDisk(disk', series, id)
      BY <2>2, <2>4, <3>1 DEF Kept
    <3> QED BY <2>5, <3>1, <3>2, <3>3, KeptTransitive
  <2>7. CASE file' = [f EXCEPT !.written = @ + 1] /\ disk' = d
    <3>1. file' \in File /\ file'.number = f.number /\ file'.temp = f.temp
      BY <2>3, <2>7 DEF File
    <3>2. f.number # 0
      BY <2>2, <2>3, FileOfImage
    <3>3. FileOK(d, series, file')
      BY <2>4, <3>1, <3>2 DEF FileOK
    <3> QED BY <2>4, <2>5, <2>7, <3>1, <3>3
  <2> QED BY <2>1, <2>6, <2>7
<1> QED BY <1>2, <1>3

-----------------------------------------------------------------------------
(* The series the thread will be in.                                        *)

\* Before its first job the thread is in its present series.
LEMMA ReachesFirst ==
  ASSUME NEW q, NEW s0, NEW s, Reaches(q, s0, 1, s)
  PROVE  s = s0
<1>1. 1 .. (1 - 1) = {}
  OBVIOUS
<1> QED BY <1>1 DEF Reaches

\* A push changes nothing for the jobs before it.
LEMMA ReachesPush ==
  ASSUME NEW q, NEW j, NEW r, Appended(q, j, r), NEW s0, NEW s,
         NEW i \in 1 .. Len(q) + 1, Reaches(q, s0, i, s)
  PROVE  Reaches(r, s0, i, s)
<1>1. Len(q) \in Nat /\ \A l \in 1 .. Len(q) : r[l] = q[l]
  BY DEF Appended
<1>2. \A l \in 1 .. i - 1 : r[l] = q[l]
  BY <1>1
<1>3. CASE /\ \A l \in 1 .. i - 1 : q[l].kind \notin Turns
           /\ s = s0
  BY <1>2, <1>3 DEF Reaches
<1>4. CASE \E k \in 1 .. i - 1 :
             /\ q[k].kind \in Turns
             /\ \A l \in k + 1 .. i - 1 : q[l].kind \notin Turns
             /\ s = IF q[k].kind = "start" THEN q[k].series ELSE 0
  <2>1. PICK k \in 1 .. i - 1 :
             /\ q[k].kind \in Turns
             /\ \A l \in k + 1 .. i - 1 : q[l].kind \notin Turns
             /\ s = IF q[k].kind = "start" THEN q[k].series ELSE 0
    BY <1>4
  <2>2. \A l \in k + 1 .. i - 1 : l \in 1 .. i - 1
    BY <1>1, <2>1
  <2> QED BY <1>2, <2>1, <2>2 DEF Reaches
<1> QED BY <1>3, <1>4 DEF Reaches

\* The series after a push.
LEMMA ReachesEnd ==
  ASSUME NEW q, NEW j, NEW r, Appended(q, j, r), NEW s0, NEW s,
         \/ j.kind = "start" /\ s = j.series
         \/ j.kind \notin Turns /\ Reaches(q, s0, Len(q) + 1, s)
  PROVE  Reaches(r, s0, Len(r) + 1, s)
<1>1. Len(q) \in Nat /\ Len(r) = Len(q) + 1 /\ r[Len(q) + 1] = j /\ \A l \in 1 .. Len(q) : r[l] = q[l]
  BY DEF Appended
<1>2. (Len(r) + 1) - 1 = Len(q) + 1 /\ (Len(q) + 1) - 1 = Len(q)
  BY <1>1
<1>3. CASE j.kind = "start" /\ s = j.series
  <2>1. Len(q) + 1 \in 1 .. (Len(r) + 1) - 1
    BY <1>1, <1>2
  <2>2. (Len(q) + 1) + 1 .. (Len(r) + 1) - 1 = {}
    BY <1>1, <1>2
  <2> QED BY <1>1, <1>3, <2>1, <2>2 DEF Reaches, Turns
<1>4. CASE j.kind \notin Turns /\ Reaches(q, s0, Len(q) + 1, s)
  <2>1. CASE /\ \A l \in 1 .. Len(q) : q[l].kind \notin Turns
             /\ s = s0
    <3>1. \A l \in 1 .. Len(q) + 1 : r[l].kind \notin Turns
      BY <1>1, <1>4, <2>1
    <3> QED BY <1>2, <2>1, <3>1 DEF Reaches
  <2>2. CASE \E k \in 1 .. Len(q) :
               /\ q[k].kind \in Turns
               /\ \A l \in k + 1 .. Len(q) : q[l].kind \notin Turns
               /\ s = IF q[k].kind = "start" THEN q[k].series ELSE 0
    <3>1. PICK k \in 1 .. Len(q) :
               /\ q[k].kind \in Turns
               /\ \A l \in k + 1 .. Len(q) : q[l].kind \notin Turns
               /\ s = IF q[k].kind = "start" THEN q[k].series ELSE 0
      BY <2>2
    <3>2. \A l \in k + 1 .. Len(q) + 1 : r[l].kind \notin Turns
      BY <1>1, <1>4, <3>1
    <3>3. k \in 1 .. Len(q) + 1 /\ r[k] = q[k]
      BY <1>1, <3>1
    <3> QED BY <1>2, <3>1, <3>2, <3>3 DEF Reaches
  <2> QED BY <1>2, <1>4, <2>1, <2>2 DEF Reaches
<1> QED BY <1>3, <1>4

\* The series the thread is in after a job.
After(j, s0) == IF j.kind = "start" THEN j.series ELSE IF j.kind \in Turns THEN 0 ELSE s0

\* The end of the first job changes the series the thread is in, not the one it will be in.
LEMMA ReachesDrop ==
  ASSUME NEW q, NEW r, Dropped(q, r), NEW s0, NEW s,
         NEW i \in 1 .. Len(r) + 1, Reaches(q, s0, i + 1, s)
  PROVE  Reaches(r, After(q[1], s0), i, s)
<1>1. Len(q) \in Nat \ {0} /\ Len(r) = Len(q) - 1 /\ \A l \in 1 .. Len(r) : r[l] = q[l + 1]
  BY DEF Dropped
<1>2. i \in Nat \ {0} /\ (i + 1) - 1 = i /\ \A l \in 1 .. i - 1 : l + 1 \in 1 .. i /\ r[l] = q[l + 1]
  BY <1>1
<1>3. CASE /\ \A l \in 1 .. i : q[l].kind \notin Turns
           /\ s = s0
  <2>1. 1 \in 1 .. i
    BY <1>2
  <2>2. After(q[1], s0) = s0
    BY <1>3, <2>1 DEF After, Turns
  <2>3. \A l \in 1 .. i - 1 : r[l].kind \notin Turns
    BY <1>2, <1>3
  <2> QED BY <1>3, <2>2, <2>3 DEF Reaches
<1>4. CASE \E k \in 1 .. i :
             /\ q[k].kind \in Turns
             /\ \A l \in k + 1 .. i : q[l].kind \notin Turns
             /\ s = IF q[k].kind = "start" THEN q[k].series ELSE 0
  <2>1. PICK k \in 1 .. i :
             /\ q[k].kind \in Turns
             /\ \A l \in k + 1 .. i : q[l].kind \notin Turns
             /\ s = IF q[k].kind = "start" THEN q[k].series ELSE 0
    BY <1>4
  <2>2. CASE k = 1
    <3>1. \A l \in 1 .. i - 1 : l + 1 \in k + 1 .. i
      BY <1>2, <2>2
    <3>2. \A l \in 1 .. i - 1 : r[l].kind \notin Turns
      BY <1>2, <2>1, <3>1
    <3>3. s = After(q[1], s0)
      BY <2>1, <2>2 DEF After, Turns
    <3> QED BY <3>2, <3>3 DEF Reaches
  <2>3. CASE k # 1
    <3>1. k - 1 \in 1 .. i - 1 /\ (k - 1) + 1 = k
      BY <1>2, <2>3
    <3>2. r[k - 1] = q[k]
      BY <1>2, <3>1
    <3>3. \A l \in (k - 1) + 1 .. i - 1 : l \in 1 .. i - 1 /\ l + 1 \in k + 1 .. i
      BY <1>2, <3>1
    <3>4. \A l \in (k - 1) + 1 .. i - 1 : r[l].kind \notin Turns
      BY <1>2, <2>1, <3>3
    <3> QED BY <2>1, <3>1, <3>2, <3>4 DEF Reaches
  <2> QED BY <2>2, <2>3
<1> QED BY <1>2, <1>3, <1>4 DEF Reaches

-----------------------------------------------------------------------------
(* How each kind of step keeps SeriesInv, DataInv and EndInv.               *)

\* A push keeps the agreement on series: of a batch, when its series is the one it finds.
LEMMA SeriesPushed ==
  ASSUME SeriesInv, NEW j \in Job, Appended(Pending, j, Pending'), UNCHANGED series,
         j.kind = "batch" => Reaches(Pending, series, Len(Pending) + 1, j.series),
         stage' \in Running /\ active' # 0 =>
           \/ j.kind = "start" /\ active' = j.series
           \/ j.kind \notin Turns /\ Reaches(Pending, series, Len(Pending) + 1, active')
  PROVE  SeriesInv'
<1>1. Len(Pending) \in Nat /\ Len(Pending') = Len(Pending) + 1 /\ Pending'[Len(Pending) + 1] = j
      /\ \A i \in 1 .. Len(Pending) : Pending'[i] = Pending[i]
  BY DEF Appended
<1>2. ASSUME NEW i \in 1 .. Len(Pending'), Pending'[i].kind = "batch"
      PROVE  Reaches(Pending', series, i, Pending'[i].series)
  <2>1. CASE i \in 1 .. Len(Pending)
    <3>1. Reaches(Pending, series, i, Pending[i].series) /\ Pending'[i] = Pending[i]
      BY <1>1, <1>2, <2>1 DEF SeriesInv
    <3>2. i \in 1 .. Len(Pending) + 1
      BY <1>1, <2>1
    <3> QED BY <3>1, <3>2, ReachesPush
  <2>2. CASE i = Len(Pending) + 1
    <3>1. Reaches(Pending, series, i, j.series) /\ Pending'[i] = j
      BY <1>1, <1>2, <2>2
    <3>2. i \in 1 .. Len(Pending) + 1
      BY <1>1, <2>2
    <3> QED BY <3>1, <3>2, ReachesPush
  <2> QED BY <1>1, <2>1, <2>2
<1>3. ASSUME stage' \in Running, active' # 0
      PROVE  Reaches(Pending', series, Len(Pending') + 1, active')
  BY <1>3, ReachesEnd
<1> QED BY <1>2, <1>3 DEF SeriesInv

\* The end of a job keeps the agreement on series.
LEMMA SeriesFinished ==
  ASSUME SeriesInv, Dropped(Pending, Pending'), UNCHANGED <<stage, active>>,
         series' = After(Pending[1], series), series' \in DOMAIN Series \cup {0}
  PROVE  SeriesInv'
<1>1. /\ Len(Pending) \in Nat \ {0} /\ Len(Pending') = Len(Pending) - 1
      /\ \A i \in 1 .. Len(Pending') : Pending'[i] = Pending[i + 1]
  BY DEF Dropped
<1>2. ASSUME NEW i \in 1 .. Len(Pending'), Pending'[i].kind = "batch"
      PROVE  Reaches(Pending', series', i, Pending'[i].series)
  <2>1. i + 1 \in 1 .. Len(Pending) /\ i \in 1 .. Len(Pending') + 1 /\ Pending'[i] = Pending[i + 1]
    BY <1>1
  <2>2. Reaches(Pending, series, i + 1, Pending'[i].series)
    BY <1>2, <2>1 DEF SeriesInv
  <2> QED BY <2>1, <2>2, ReachesDrop
<1>3. ASSUME stage \in Running, active # 0
      PROVE  Reaches(Pending', series', Len(Pending') + 1, active)
  <2> DEFINE i == Len(Pending') + 1
  <2>1. Reaches(Pending, series, Len(Pending) + 1, active)
    BY <1>3 DEF SeriesInv
  <2>2. i + 1 = Len(Pending) + 1 /\ i \in 1 .. Len(Pending') + 1
    BY <1>1
  <2> QED BY <2>1, <2>2, ReachesDrop
<1> QED BY <1>2, <1>3 DEF SeriesInv

\* The fields of the batches that were handed to the thread.
LEMMA PlanFacts ==
  ASSUME PlanInv, NEW i \in 1 .. Len(plan)
  PROVE  /\ plan[i].ids \in Seq(Nat) /\ Len(plan[i].ids) \in Nat
         /\ \A m \in 1 .. Len(plan[i].ids) : plan[i].ids[m] \in Nat
         /\ plan[i].series \in Written /\ ~Needs(i) => Len(plan[i].ids) = 0
<1>1. plan[i].ids \in Seq(Nat)
  BY WriterAssumption DEF PlanInv
<1>2. /\ Len(plan[i].ids) \in Nat
      /\ \A m \in 1 .. Len(plan[i].ids) : plan[i].ids[m] \in Nat
  BY <1>1, LenProperties, ElementOfSeq
<1>3. plan[i].series \in Written /\ ~Needs(i) => plan[i].ids = <<>>
  BY DEF Written, Needs
<1> QED BY <1>1, <1>2, <1>3

\* DataInv is kept when nothing on disk is lost and what waited is on disk or waits.
LEMMA DataKept ==
  ASSUME PlanInv, HandedInv, DataInv, UNCHANGED <<plan, handed>>, Kept(disk, disk'),
         \A i \in 1 .. handed : plan[i].series \in Written =>
           \A m \in 1 .. Len(plan[i].ids) :
             plan[i].ids[m] < Series[plan[i].series].images /\ Waits(i, m) =>
               OnDisk(disk', plan[i].series, plan[i].ids[m]) \/ Waits(i, m)'
  PROVE  DataInv'
<1> SUFFICES ASSUME NEW i \in 1 .. handed, plan[i].series \in Written,
                    NEW m \in 1 .. Len(plan[i].ids),
                    plan[i].ids[m] < Series[plan[i].series].images
             PROVE  OnDisk(disk', plan[i].series, plan[i].ids[m]) \/ Waits(i, m)'
  BY DEF DataInv
<1>1. OnDisk(disk, plan[i].series, plan[i].ids[m]) \/ Waits(i, m)
  BY DEF DataInv
<1>2. i \in 1 .. Len(plan)
  BY WriterAssumption DEF HandedInv, PlanInv
<1>3. plan[i].ids[m] \in Nat
  BY <1>2, PlanFacts
<1>4. OnDisk(disk, plan[i].series, plan[i].ids[m]) => OnDisk(disk', plan[i].series, plan[i].ids[m])
  BY <1>3 DEF Kept
<1> QED BY <1>1, <1>4

\* A step that leaves the disk alone loses nothing.
LEMMA NothingLost == Kept(disk, disk)
  BY DEF Kept

\* What waits still waits after a push.
LEMMA WaitsPushed ==
  ASSUME NEW j \in Job, Appended(Pending, j, Pending'), UNCHANGED <<plan, thread, at>>,
         \A k \in 1 .. Len(Pending) : Pending[k].kind = "batch" =>
           slots'[Pending[k].slot] = slots[Pending[k].slot],
         NEW i, NEW m, Waits(i, m)
  PROVE  Waits(i, m)'
<1>1. Len(Pending) \in Nat /\ Len(Pending') = Len(Pending) + 1
      /\ \A k \in 1 .. Len(Pending) : Pending'[k] = Pending[k]
  BY DEF Appended
<1>2. PICK k \in 1 .. Len(Pending) :
        /\ Pending[k].kind = "batch" /\ Pending[k].series = plan[i].series
        /\ slots[Pending[k].slot] = plan[i].ids
        /\ k = 1 /\ thread = "work" => at < m
  BY DEF Waits
<1>3. k \in 1 .. Len(Pending') /\ Pending'[k] = Pending[k]
  BY <1>1
<1> QED BY <1>2, <1>3 DEF Waits

\* What waits still waits after the end of a job, unless it was in that job.
LEMMA WaitsFinished ==
  ASSUME Dropped(Pending, Pending'), UNCHANGED <<plan, slots>>, thread' # "work",
         NEW i, NEW m, Waits(i, m),
         ~(/\ Pending[1].kind = "batch" /\ slots[Pending[1].slot] = plan[i].ids
           /\ thread = "work" => at < m)
  PROVE  Waits(i, m)'
<1>1. /\ Len(Pending) \in Nat \ {0} /\ Len(Pending') = Len(Pending) - 1
      /\ \A k \in 1 .. Len(Pending') : Pending'[k] = Pending[k + 1]
  BY DEF Dropped
<1>2. PICK k \in 1 .. Len(Pending) :
        /\ Pending[k].kind = "batch" /\ Pending[k].series = plan[i].series
        /\ slots[Pending[k].slot] = plan[i].ids
        /\ k = 1 /\ thread = "work" => at < m
  BY DEF Waits
<1>3. k # 1
  BY <1>2
<1>4. k - 1 \in 1 .. Len(Pending') /\ (k - 1) + 1 = k
  BY <1>1, <1>3
<1>5. Pending'[k - 1] = Pending[k]
  BY <1>1, <1>4
<1> QED BY <1>2, <1>4, <1>5 DEF Waits

-----------------------------------------------------------------------------
(* Every step keeps WritingInv.                                             *)

\* At the start nothing is queued, handed over or on disk.
LEMMA InitWriting == Init => WritingInv
<1> SUFFICES ASSUME Init PROVE WritingInv
  OBVIOUS
<1>1. Pending = <<>> /\ Len(Pending) = 0
  BY DEF Init, Pending
<1>2. EndInv
  BY <1>1 DEF Init, EndInv
<1>3. Len(plan) \in Nat
  BY WriterAssumption DEF Init
<1>4. HandedInv
  BY <1>3 DEF Init, HandedInv
<1>5. SeriesInv
  BY <1>1 DEF Init, SeriesInv
<1>6. disk \in Disk /\ \A p \in Paths : disk.temp[p] = Absent
  <2>1. Absent \in Contents
    BY DEF Absent, Contents
  <2>2. disk = [temp |-> [p \in Paths |-> Absent], final |-> [p \in Paths |-> Absent]]
    BY DEF Init
  <2> QED BY <2>1, <2>2 DEF Disk
<1>7. FileInv
  BY <1>6, ClosedIsOK DEF Init, FileInv
<1>8. DataInv
  BY DEF Init, DataInv
<1> QED BY <1>2, <1>4, <1>5, <1>7, <1>8 DEF WritingInv

\* A batch that is pushed keeps the images of those already queued waiting.
LEMMA DataPushed ==
  ASSUME PlanInv, HandedInv, DataInv, UNCHANGED <<plan, handed, disk, thread, at, slots>>,
         NEW j \in Job, Appended(Pending, j, Pending')
  PROVE  DataInv'
<1>1. Kept(disk, disk')
  BY NothingLost
<1>2. \A i, m : Waits(i, m) => Waits(i, m)'
  BY WaitsPushed
<1> QED BY <1>1, <1>2, DataKept

\* START is queued before the batches of its series.
LEMMA EnterWriting ==
  ASSUME StagingInv, WritingInv, Enter
  PROVE  WritingInv'
<1> USE DEF StagingInv, WritingInv
<1>1. stage = "idle" /\ next <= Len(plan) /\ stage' \in {"images", "staged", "failed"}
      /\ UNCHANGED <<plan, next, handed, endsPushed, endsDone, error, thread, job, at, slots, diskVars>>
  BY DEF Enter
<1>2. UNCHANGED <<series, file, disk>>
  BY <1>1 DEF diskVars
<1>3. stage' = "staged" => ~NeedsSlot
  BY DEF Enter
<1>4. HandedInv'
  BY <1>1, <1>3 DEF HandedInv, Needs, NeedsSlot, Batch
<1>5. ~error => FileInv'
  BY <1>1, <1>2 DEF FileInv
<1>6. endsPushed \in Nat /\ endsDone = endsPushed /\ \A i \in 1 .. Len(Pending) : Pending[i].kind # "end"
  BY <1>1 DEF EndInv
<1>7. CASE jobs' = jobs
  <2>1. Pending' = Pending
    BY <1>1, <1>7 DEF Pending
  <2>2. EndInv'
    BY <1>1, <1>6, <2>1 DEF EndInv
  <2>3. ASSUME ~error PROVE DataInv'
    BY <1>1, <1>2, <2>1, <2>3 DEF DataInv, Waits
  <2>4. ASSUME ~error PROVE SeriesInv'
    <3>1. stage' \in Running => active' = active
      <4>1. stage' \in Running => (IF Batch.start THEN jobs' = Push("start", 0) ELSE active' = active)
        BY DEF Enter, Running
      <4>2. Batch.start => Push("start", 0) # jobs
        <5> DEFINE j == [kind |-> "start", series |-> Batch.series, slot |-> 0]
        <5>1. j \in Job
          BY <1>1, BatchFacts, WriterAssumption DEF Job
        <5>2. Len(Append(jobs, j)) = Len(jobs) + 1 /\ Len(jobs) \in Nat
          BY <5>1, AppendProperties, LenProperties DEF QueueInv
        <5>3. Append(jobs, j) # jobs
          BY <5>2
        <5> QED BY <5>3 DEF Push
      <4> QED BY <1>7, <4>1, <4>2
    <3>2. stage \in Running
      BY <1>1 DEF Running
    <3>3. SeriesInv
      BY <2>4
    <3>4. series' \in DOMAIN Series \cup {0}
      BY <1>2, <3>3 DEF SeriesInv
    <3> QED BY <1>2, <2>1, <3>1, <3>2, <3>3, <3>4 DEF SeriesInv
  <2> QED BY <1>1, <1>4, <1>5, <2>2, <2>3, <2>4
<1>8. CASE jobs' # jobs
  <2> DEFINE j == [kind |-> "start", series |-> Batch.series, slot |-> 0]
  <2>1. jobs' = Append(jobs, j) /\ active' = Batch.series
    BY <1>8 DEF Enter, Push
  <2>2. j \in Job
    BY <1>1, BatchFacts, WriterAssumption DEF Job
  <2>3. j.kind = "start" /\ j.series = Batch.series
    OBVIOUS
  <2> HIDE DEF j
  <2>4. Appended(Pending, j, Pending')
    BY <1>1, <2>1, <2>2, PendingPush
  <2>5. \A i \in 1 .. Len(Pending') : Pending'[i].kind # "end"
    BY <1>6, <2>3, <2>4 DEF Appended
  <2>6. EndInv'
    BY <1>1, <1>6, <2>5 DEF EndInv
  <2>7. ASSUME ~error PROVE DataInv'
    BY <1>1, <1>2, <2>2, <2>4, <2>7, DataPushed
  <2>8. ASSUME ~error PROVE SeriesInv'
    BY <1>1, <1>2, <2>1, <2>2, <2>3, <2>4, <2>8, SeriesPushed
  <2> QED BY <1>1, <1>4, <1>5, <2>6, <2>7, <2>8
<1> QED BY <1>7, <1>8

\* A batch that is queued waits, in a slot of its own, for the series it belongs to.
LEMMA StageWriting ==
  ASSUME StagingInv, WritingInv, Stage
  PROVE  WritingInv'
<1> USE DEF StagingInv, WritingInv
<1> DEFINE j == [kind |-> "batch", series |-> Batch.series, slot |-> Head(free)]
<1>1. Staging /\ stage' = "staged" /\ free # <<>> /\ handed' = next
      /\ slots' = [slots EXCEPT ![Head(free)] = Batch.ids] /\ jobs' = Append(jobs, j)
      /\ UNCHANGED <<plan, next, active, endsPushed, endsDone, error, thread, job, at, diskVars>>
  BY DEF Stage, Push
<1>2. UNCHANGED <<series, file, disk>>
  BY <1>1 DEF diskVars
<1>3. next <= Len(plan) /\ active = Batch.series /\ Batch.series \in Written
  BY <1>1 DEF PlanInv, Running
<1>4. free \in Seq(1 .. Slots) /\ slots \in [1 .. Slots -> Seq(Nat)]
  BY DEF QueueInv
<1>5. Head(free) \in 1 .. Slots /\ Head(free) = free[1] /\ 1 \in 1 .. Len(free)
  <2>1. free # <<>>
    BY <1>1
  <2>2. Len(free) \in Nat \ {0} /\ Head(free) = free[1] /\ Head(free) \in 1 .. Slots
    BY <1>4, <2>1, HeadAndTail
  <2> QED BY <2>2
<1>6. j \in Job
  BY <1>3, <1>5, BatchFacts DEF Job
<1>7. j.kind = "batch" /\ j.slot = Head(free) /\ j.series = Batch.series
  OBVIOUS
<1> HIDE DEF j
<1>8. Appended(Pending, j, Pending')
  BY <1>1, <1>6, PendingPush
<1>9. Len(Pending) \in Nat /\ Len(Pending') = Len(Pending) + 1 /\ Pending'[Len(Pending) + 1] = j
      /\ \A i \in 1 .. Len(Pending) : Pending'[i] = Pending[i]
  BY <1>8 DEF Appended
<1>10. HandedInv'
  <2>1. next \in Nat /\ Len(plan) \in Nat
    BY WriterAssumption DEF PlanInv
  <2> QED BY <1>1, <1>3, <2>1 DEF HandedInv
<1>11. EndInv'
  <2>1. endsPushed \in Nat /\ endsDone = endsPushed /\ \A i \in 1 .. Len(Pending) : Pending[i].kind # "end"
    BY <1>1 DEF EndInv
  <2>2. \A i \in 1 .. Len(Pending') : Pending'[i].kind # "end"
    BY <1>7, <1>9, <2>1
  <2> QED BY <1>1, <2>1, <2>2 DEF EndInv
<1>12. ~error => FileInv'
  BY <1>1, <1>2 DEF FileInv
<1>13. ASSUME ~error PROVE SeriesInv'
  <2>1. SeriesInv
    BY <1>13
  <2>2. Reaches(Pending, series, Len(Pending) + 1, active)
    <3>1. active # 0 /\ stage \in Running
      BY <1>1, <1>3, BatchFacts DEF Running
    <3> QED BY <2>1, <3>1 DEF SeriesInv
  <2>3. j.kind \notin Turns
    BY <1>7 DEF Turns
  <2> QED BY <1>1, <1>2, <1>3, <1>6, <1>7, <1>8, <2>1, <2>2, <2>3, SeriesPushed
<1>14. ASSUME ~error PROVE DataInv'
  <2>1. DataInv
    BY <1>14
  <2>2. \A k \in 1 .. Len(Pending) : Pending[k].kind = "batch" =>
          slots'[Pending[k].slot] = slots[Pending[k].slot]
    <3>1. ASSUME NEW k \in 1 .. Len(Pending), Pending[k].kind = "batch"
          PROVE  Pending[k].slot # Head(free) /\ Pending[k].slot \in 1 .. Slots
      BY <1>5, <3>1 DEF SlotInv, Once, QueueInv, BatchJobs
    <3> QED BY <1>1, <1>4, <3>1
  <2>3. \A i, m : Waits(i, m) => Waits(i, m)'
    BY <1>1, <1>6, <1>8, <2>2, WaitsPushed
  <2> SUFFICES ASSUME NEW i \in 1 .. next, plan[i].series \in Written,
                      NEW m \in 1 .. Len(plan[i].ids),
                      plan[i].ids[m] < Series[plan[i].series].images
               PROVE  OnDisk(disk, plan[i].series, plan[i].ids[m]) \/ Waits(i, m)'
    BY <1>1, <1>2 DEF DataInv
  <2>4. handed \in Nat /\ next \in Nat /\ Len(plan) \in Nat
    BY WriterAssumption DEF HandedInv, PlanInv
  <2>5. CASE i <= handed
    <3>1. i \in 1 .. handed
      BY <2>4, <2>5
    <3>2. OnDisk(disk, plan[i].series, plan[i].ids[m]) \/ Waits(i, m)
      BY <2>1, <3>1 DEF DataInv
    <3> QED BY <2>3, <3>2
  <2>6. CASE handed < i /\ i < next
    <3>1. ~Needs(i)
      BY <2>4, <2>6 DEF HandedInv
    <3>2. i \in 1 .. Len(plan)
      BY <1>3, <2>4
    <3>3. Len(plan[i].ids) = 0
      BY <3>1, <3>2, PlanFacts
    <3> QED BY <3>3
  <2>7. CASE i = next
    <3> DEFINE k == Len(Pending) + 1
    <3>1. k \in 1 .. Len(Pending') /\ Pending'[k] = j
      BY <1>9
    <3>2. ~(k = 1 /\ thread = "work")
      <4>1. thread = "work" => Len(Pending) = Len(jobs) + 1 /\ Len(jobs) \in Nat
        BY PendingType
      <4> QED BY <4>1
    <3>3. slots'[j.slot] = plan[i].ids
      BY <1>1, <1>4, <1>5, <1>7, <2>7 DEF Batch
    <3>4. plan'[i].series = j.series
      BY <1>1, <1>7, <2>7 DEF Batch
    <3> HIDE DEF k
    <3> QED BY <1>1, <1>7, <3>1, <3>2, <3>3, <3>4 DEF Waits
  <2> QED BY <2>4, <2>5, <2>6, <2>7
<1> QED BY <1>1, <1>10, <1>11, <1>12, <1>13, <1>14

\* END is queued last.
LEMMA PushEndWriting ==
  ASSUME StagingInv, WritingInv, PushEnd
  PROVE  WritingInv'
<1> USE DEF StagingInv, WritingInv
<1> DEFINE j == [kind |-> "end", series |-> Batch.series, slot |-> 0]
<1>1. stage = "staged" /\ stage' = "ending" /\ active' = 0 /\ endsPushed' = endsPushed + 1
      /\ jobs' = Append(jobs, j)
      /\ UNCHANGED <<plan, next, handed, endsDone, error, thread, job, at, slots, diskVars>>
  BY DEF PushEnd, Push
<1>2. UNCHANGED <<series, file, disk>>
  BY <1>1 DEF diskVars
<1>3. next <= Len(plan)
  BY <1>1 DEF PlanInv, Running
<1>4. j \in Job
  BY <1>3, BatchFacts, WriterAssumption DEF Job
<1>5. j.kind = "end"
  OBVIOUS
<1> HIDE DEF j
<1>6. Appended(Pending, j, Pending')
  BY <1>1, <1>4, PendingPush
<1>7. HandedInv'
  BY <1>1 DEF HandedInv, Needs
<1>8. EndInv'
  <2>1. Len(Pending) \in Nat /\ Len(Pending') = Len(Pending) + 1 /\ Pending'[Len(Pending) + 1] = j
        /\ \A i \in 1 .. Len(Pending) : Pending'[i] = Pending[i]
    BY <1>6 DEF Appended
  <2>2. endsPushed \in Nat /\ endsDone = endsPushed /\ \A i \in 1 .. Len(Pending) : Pending[i].kind # "end"
    BY <1>1 DEF EndInv
  <2>3. \A i \in 1 .. Len(Pending') : Pending'[i].kind = "end" <=> i = Len(Pending')
    BY <1>5, <2>1, <2>2
  <2>4. Pending' # <<>>
    BY <2>1, EmptySeq
  <2> QED BY <1>1, <2>2, <2>3, <2>4 DEF EndInv
<1>9. ~error => FileInv'
  BY <1>1, <1>2 DEF FileInv
<1>10. ASSUME ~error PROVE DataInv'
  BY <1>1, <1>2, <1>4, <1>6, <1>10, DataPushed
<1>11. ASSUME ~error PROVE SeriesInv'
  BY <1>1, <1>2, <1>4, <1>5, <1>6, <1>11, SeriesPushed
<1> QED BY <1>1, <1>7, <1>8, <1>9, <1>10, <1>11

\* Stopping queues the last job.
LEMMA StopWriting ==
  ASSUME StagingInv, WritingInv, Stop
  PROVE  WritingInv'
<1> USE DEF StagingInv, WritingInv
<1> DEFINE j == [kind |-> "stop", series |-> 0, slot |-> 0]
<1>1. stage' = "stopped" /\ jobs' = Append(jobs, j)
      /\ UNCHANGED <<plan, next, active, handed, endsPushed, endsDone, error, thread, job, at, slots, diskVars>>
  BY DEF Stop, StopQueue
<1>2. UNCHANGED <<series, file, disk>>
  BY <1>1 DEF diskVars
<1>3. j \in Job
  BY WriterAssumption DEF Job
<1>4. j.kind = "stop"
  OBVIOUS
<1> HIDE DEF j
<1>5. Appended(Pending, j, Pending')
  BY <1>1, <1>3, PendingPush
<1>6. HandedInv'
  BY <1>1 DEF HandedInv, Needs
<1>7. EndInv'
  BY <1>1 DEF EndInv
<1>8. ~error => FileInv'
  BY <1>1, <1>2 DEF FileInv
<1>9. ASSUME ~error PROVE DataInv'
  BY <1>1, <1>2, <1>3, <1>5, <1>9, DataPushed
<1>10. ASSUME ~error PROVE SeriesInv'
  BY <1>1, <1>2, <1>3, <1>4, <1>5, <1>10, SeriesPushed DEF Running
<1> QED BY <1>1, <1>6, <1>7, <1>8, <1>9, <1>10

\* Steps of the callback that push nothing.
LEMMA QuietWriting ==
  ASSUME StagingInv, WritingInv,
         Await \/ Release \/ FailWait \/ AbandonWait \/ RequestStop \/ CompressFails \/ UNCHANGED vars
  PROVE  WritingInv'
<1> USE DEF StagingInv, WritingInv
<1>1. /\ UNCHANGED <<plan, active, jobs, handed, endsPushed, endsDone, error, thread, job, at, series, file, disk>>
      /\ \/ stage = "staged" /\ stage' = "idle" /\ next' = next + 1
         \/ Ending /\ EndWritten /\ stage' = "idle" /\ next' = next + 1
         \/ stage' \in {"failed", "abandoned"} /\ next' = next
         \/ stage = "images" /\ stage' = "waiting" /\ next' = next
         \/ stage = "ending" /\ stage' = "held" /\ next' = next
         \/ stage' = stage /\ next' = next
  BY DEF Await, Release, FailWait, AbandonWait, RequestStop, CompressFails, vars, callVars, diskVars
<1>2. Pending' = Pending
  BY <1>1 DEF Pending
<1>3. next \in Nat /\ Len(plan) \in Nat /\ handed \in Nat
  BY WriterAssumption DEF PlanInv, HandedInv
<1>4. HandedInv'
  <2>1. CASE (stage = "staged" \/ Ending) /\ stage' = "idle" /\ next' = next + 1
    <3>1. ASSUME NEW i \in handed + 1 .. next PROVE ~Needs(i)
      <4>1. CASE i = next
        BY <1>3, <2>1, <4>1 DEF HandedInv
      <4>2. CASE i # next
        BY <1>3, <4>2 DEF HandedInv
      <4> QED BY <4>1, <4>2
    <3>2. (next + 1) - 1 = next
      BY <1>3
    <3> QED BY <1>1, <1>3, <2>1, <3>1, <3>2 DEF HandedInv, Needs
  <2>2. CASE next' = next /\
             (\/ stage' \in {"failed", "abandoned"} \/ stage' = stage
              \/ stage = "images" /\ stage' = "waiting"
              \/ stage = "ending" /\ stage' = "held")
    BY <1>1, <2>2 DEF HandedInv, Needs
  <2> QED BY <1>1, <2>1, <2>2
<1>5. EndInv'
  <2>1. CASE stage = "staged" /\ stage' = "idle"
    BY <1>1, <1>2, <2>1 DEF EndInv
  <2>2. CASE Ending /\ EndWritten /\ stage' = "idle"
    <3>1. endsDone = endsPushed /\ Pending = <<>>
      BY <2>2 DEF EndInv, EndWritten
    <3>2. Len(Pending) = 0
      BY <3>1
    <3> QED BY <1>1, <1>2, <2>2, <3>1, <3>2 DEF EndInv
  <2>3. CASE stage' \in {"failed", "abandoned"}
    BY <1>1, <2>3 DEF EndInv
  <2>4. CASE stage' = stage
    BY <1>1, <1>2, <2>4 DEF EndInv
  <2>5. CASE stage = "images" /\ stage' = "waiting"
    BY <1>1, <1>2, <2>5 DEF EndInv
  <2>6. CASE stage = "ending" /\ stage' = "held"
    BY <1>1, <1>2, <2>6 DEF EndInv
  <2> QED BY <1>1, <2>1, <2>2, <2>3, <2>4, <2>5, <2>6
<1>6. ~error => FileInv'
  BY <1>1 DEF FileInv
<1>7. ASSUME ~error PROVE SeriesInv'
  <2>1. stage' \in Running => stage \in Running
    BY <1>1 DEF Running
  <2>2. SeriesInv
    BY <1>7
  <2> QED BY <1>1, <1>2, <2>1, <2>2 DEF SeriesInv
<1>8. ASSUME ~error PROVE DataInv'
  <2>1. \A k \in 1 .. Len(Pending) : Pending[k].kind = "batch" =>
          slots'[Pending[k].slot] = slots[Pending[k].slot]
    <3>1. CASE CompressFails
      <4>1. free # <<>> /\ slots' = [slots EXCEPT ![Head(free)] = Batch.ids]
        BY <3>1 DEF CompressFails
      <4>2. free \in Seq(1 .. Slots) /\ slots \in [1 .. Slots -> Seq(Nat)]
        BY DEF QueueInv
      <4>3. Head(free) = free[1] /\ 1 \in 1 .. Len(free)
        BY <4>1, <4>2, HeadAndTail
      <4>4. ASSUME NEW k \in 1 .. Len(Pending), Pending[k].kind = "batch"
            PROVE  Pending[k].slot # Head(free) /\ Pending[k].slot \in 1 .. Slots
        BY <4>3, <4>4 DEF SlotInv, Once, QueueInv, BatchJobs
      <4> QED BY <4>1, <4>2, <4>4
    <3>2. CASE ~CompressFails
      BY <3>2 DEF Await, Release, FailWait, AbandonWait, RequestStop, vars
    <3> QED BY <3>1, <3>2
  <2>2. \A i, m : Waits(i, m) => Waits(i, m)'
    BY <1>1, <1>2, <2>1 DEF Waits
  <2>3. Kept(disk, disk')
    BY <1>1, NothingLost
  <2> QED BY <1>1, <1>8, <2>2, <2>3, DataKept
<1> QED BY <1>1, <1>4, <1>5, <1>6, <1>7, <1>8

\* END's being counted is seen by the thread's finishing it.
LEMMA EndFinished ==
  ASSUME StagingInv, EndInv, thread = "work", thread' # "work",
         UNCHANGED <<jobs, stage, endsPushed>>,
         endsDone' = IF job.kind = "end" THEN endsDone + 1 ELSE endsDone,
         job.kind = "end" /\ ~error' => file' = NoFile
  PROVE  EndInv'
<1> USE DEF StagingInv
<1>1. Dropped(Pending, Pending') /\ Pending[1] = job /\ Pending' = jobs /\ job \in Job
  BY PendingFinish
<1>2. /\ Len(Pending) \in Nat \ {0} /\ Len(Pending') = Len(Pending) - 1
      /\ \A i \in 1 .. Len(Pending') : Pending'[i] = Pending[i + 1]
  BY <1>1 DEF Dropped
<1>3. endsPushed \in Nat /\ endsDone \in Nat
  BY DEF EndInv
<1>4. endsDone' \in Nat
  BY <1>3
<1>5. ASSUME stage \in {"idle", "staged"} \/ Staging
      PROVE  endsDone' = endsPushed /\ \A i \in 1 .. Len(Pending') : Pending'[i].kind # "end"
  <2>1. endsDone = endsPushed /\ \A i \in 1 .. Len(Pending) : Pending[i].kind # "end"
    BY <1>5 DEF EndInv
  <2>2. 1 \in 1 .. Len(Pending) /\ \A i \in 1 .. Len(Pending') : i + 1 \in 1 .. Len(Pending)
    BY <1>2
  <2> QED BY <1>1, <1>2, <2>1, <2>2
<1>6. ASSUME Ending
      PROVE  \/ /\ endsDone' + 1 = endsPushed /\ Pending' # <<>>
                /\ \A i \in 1 .. Len(Pending') : Pending'[i].kind = "end" <=> i = Len(Pending')
             \/ /\ endsDone' = endsPushed /\ Pending' = <<>>
                /\ ~error' => file' = NoFile
  <2>1. /\ endsDone + 1 = endsPushed
        /\ \A i \in 1 .. Len(Pending) : Pending[i].kind = "end" <=> i = Len(Pending)
    <3>1. Pending # <<>>
      BY <1>2, EmptySeq, PendingType
    <3> QED BY <1>6, <3>1 DEF EndInv
  <2>2. 1 \in 1 .. Len(Pending)
    BY <1>2
  <2>3. CASE job.kind = "end"
    <3>1. Len(Pending) = 1
      BY <1>1, <2>1, <2>2, <2>3
    <3>2. Len(Pending') = 0 /\ Pending' \in Seq(Job)
      BY <1>2, <1>1, <3>1 DEF Dropped
    <3>3. Pending' = <<>>
      BY <3>2, EmptySeq
    <3> QED BY <1>3, <2>1, <2>3, <3>3
  <2>4. CASE job.kind # "end"
    <3>1. Len(Pending) # 1
      BY <1>1, <2>1, <2>2, <2>4
    <3>2. Pending' # <<>>
      BY <1>2, <3>1, EmptySeq
    <3>3. ASSUME NEW i \in 1 .. Len(Pending')
          PROVE  Pending'[i].kind = "end" <=> i = Len(Pending')
      <4>1. i + 1 \in 1 .. Len(Pending) /\ (i + 1 = Len(Pending) <=> i = Len(Pending'))
        BY <1>2
      <4>2. Pending[i + 1].kind = "end" <=> i + 1 = Len(Pending)
        BY <2>1, <4>1
      <4> QED BY <1>2, <4>1, <4>2
    <3> QED BY <2>1, <2>4, <3>2, <3>3
  <2> QED BY <2>3, <2>4
<1> QED BY <1>3, <1>4, <1>5, <1>6 DEF EndInv

\* The thread is in the series of the batch it holds.
LEMMA ThreadSeries ==
  ASSUME QueueInv, SeriesInv, thread = "work", job.kind = "batch"
  PROVE  series = job.series /\ series \in Written /\ job.slot \in 1 .. Slots
<1>1. 1 \in 1 .. Len(Pending) /\ Pending[1] = job
  BY PendingType
<1>2. Reaches(Pending, series, 1, job.series)
  BY <1>1 DEF SeriesInv
<1>3. job.series \in Written /\ job.slot \in 1 .. Slots
  BY <1>1 DEF QueueInv, BatchJobs
<1> QED BY <1>2, <1>3, ReachesFirst

\* Taking a job starts at its first image.
LEMMA TakeWriting ==
  ASSUME StagingInv, WritingInv, Take
  PROVE  WritingInv'
<1> USE DEF StagingInv, WritingInv
<1>1. /\ UNCHANGED <<plan, next, stage, active, endsPushed, handed, slots, endsDone, error, series, file, disk>>
      /\ thread = "wait" /\ thread' = "work" /\ at' = 0 /\ jobs # <<>>
  BY DEF Take, callVars, diskVars
<1>2. Pending' = Pending /\ Pending = jobs
  BY <1>1, PendingTake, PendingType
<1>3. HandedInv'
  BY <1>1 DEF HandedInv, Needs
<1>4. EndInv'
  BY <1>1, <1>2 DEF EndInv
<1>5. ~error => FileInv'
  BY <1>1 DEF FileInv
<1>6. ~error => SeriesInv'
  BY <1>1, <1>2 DEF SeriesInv
<1>7. ASSUME ~error PROVE DataInv'
  <2>1. ASSUME NEW i \in 1 .. handed, plan[i].series \in Written, NEW m \in 1 .. Len(plan[i].ids), Waits(i, m)
        PROVE  Waits(i, m)'
    <3>1. 0 < m
      OBVIOUS
    <3> QED BY <1>1, <1>2, <2>1, <3>1 DEF Waits
  <2>2. Kept(disk, disk')
    BY <1>1, NothingLost
  <2> QED BY <1>1, <1>7, <2>1, <2>2, DataKept
<1> QED BY <1>1, <1>3, <1>4, <1>5, <1>6, <1>7

\* The image that is written stops waiting and is on disk.
LEMMA WriteImageWriting ==
  ASSUME DistinctNames, StagingInv, WritingInv, WriteImage
  PROVE  WritingInv'
<1> USE DEF StagingInv, WritingInv
<1>1. /\ UNCHANGED <<plan, next, stage, active, endsPushed, handed, slots, jobs, endsDone, error, thread, job, series>>
      /\ thread = "work" /\ job.kind = "batch" /\ ~error
      /\ at' = at + 1 /\ at < Len(slots[job.slot]) /\ at \in Nat
  BY DEF WriteImage, callVars, QueueInv
<1>2. Pending' = Pending /\ Pending[1] = job /\ 1 \in 1 .. Len(Pending)
  <2>1. Pending' = Pending
    BY <1>1 DEF Pending
  <2> QED BY <1>1, <2>1, PendingType
<1>3. series = job.series /\ series \in Written /\ job.slot \in 1 .. Slots
  BY <1>1, ThreadSeries
<1> DEFINE id == slots[job.slot][at + 1]
<1>4. id \in Nat
  <2>1. slots[job.slot] \in Seq(Nat)
    BY <1>3 DEF QueueInv
  <2>2. at + 1 \in 1 .. Len(slots[job.slot])
    BY <1>1, <2>1, LenProperties
  <2> QED BY <2>1, <2>2, ElementOfSeq
<1>5. /\ disk' \in Disk /\ file' \in File /\ FileOK(disk', series, file') /\ Kept(disk, disk')
      /\ id < Series[series].images => OnDisk(disk', series, id)
  <2>1. FileInv /\ thread # "exited"
    BY <1>1
  <2> HIDE DEF WritingInv, StagingInv
  <2> QED BY <1>3, <1>4, <2>1, Writing
<1>6. HandedInv'
  BY <1>1 DEF HandedInv, Needs
<1>7. EndInv'
  <2>1. Pending # <<>>
    BY <1>2
  <2> QED BY <1>1, <1>2, <2>1 DEF EndInv
<1>8. FileInv'
  BY <1>1, <1>5 DEF FileInv
<1>9. SeriesInv'
  BY <1>1, <1>2 DEF SeriesInv
<1>10. DataInv'
  <2>1. ASSUME NEW i \in 1 .. handed, plan[i].series \in Written, NEW m \in 1 .. Len(plan[i].ids),
               plan[i].ids[m] < Series[plan[i].series].images, Waits(i, m)
        PROVE  OnDisk(disk', plan[i].series, plan[i].ids[m]) \/ Waits(i, m)'
    <3>1. PICK k \in 1 .. Len(Pending) :
            /\ Pending[k].kind = "batch" /\ Pending[k].series = plan[i].series
            /\ slots[Pending[k].slot] = plan[i].ids
            /\ k = 1 /\ thread = "work" => at < m
      BY <2>1 DEF Waits
    <3>2. CASE k # 1
      BY <1>1, <1>2, <3>1, <3>2 DEF Waits
    <3>3. CASE k = 1 /\ m = at + 1
      <4>1. plan[i].ids[m] = id /\ plan[i].series = series
        BY <1>2, <1>3, <3>1, <3>3
      <4> QED BY <1>5, <2>1, <4>1
    <3>4. CASE k = 1 /\ m # at + 1
      <4>1. at + 1 < m
        BY <1>1, <3>1, <3>4
      <4> QED BY <1>1, <1>2, <3>1, <3>4, <4>1 DEF Waits
    <3> QED BY <3>2, <3>3, <3>4
  <2> QED BY <1>1, <1>5, <2>1, DataKept
<1> QED BY <1>6, <1>7, <1>8, <1>9, <1>10

\* A job of the thread that is not a batch ends without a failure.
LEMMA TurnWriting ==
  ASSUME StagingInv, WritingInv, thread = "work", thread' \in {"wait", "exited"},
         UNCHANGED <<callVars, jobs, slots, at>>, error' = error, job.kind # "batch",
         ~error => /\ series' = After(job, series) /\ series' \in DOMAIN Series \cup {0}
                   /\ disk' \in Disk /\ file' \in File
                   /\ thread' # "exited" => FileOK(disk', series', file')
                   /\ Kept(disk, disk'),
         endsDone' = IF job.kind = "end" THEN endsDone + 1 ELSE endsDone,
         job.kind = "end" /\ ~error => file' = NoFile
  PROVE  WritingInv'
<1> USE DEF StagingInv, WritingInv
<1>1. UNCHANGED <<plan, next, stage, active, endsPushed, handed>> /\ thread' # "work"
  BY DEF callVars
<1>2. Dropped(Pending, Pending') /\ Pending[1] = job
  BY <1>1, PendingFinish
<1>3. HandedInv'
  BY <1>1 DEF HandedInv, Needs
<1>4. EndInv'
  BY <1>1, EndFinished
<1>5. ~error => FileInv'
  BY DEF FileInv
<1>6. ASSUME ~error PROVE SeriesInv'
  BY <1>1, <1>2, <1>6, SeriesFinished
<1>7. ASSUME ~error PROVE DataInv'
  <2>1. \A i, m : Waits(i, m) => Waits(i, m)'
    BY <1>1, <1>2, WaitsFinished
  <2> QED BY <1>1, <1>7, <2>1, DataKept
<1> QED BY <1>3, <1>4, <1>5, <1>6, <1>7

\* A batch is finished when none of its images waits.
LEMMA FinishBatchWriting ==
  ASSUME StagingInv, WritingInv, FinishBatch
  PROVE  WritingInv'
<1> USE DEF StagingInv, WritingInv
<1>1. /\ UNCHANGED <<plan, next, stage, active, endsPushed, handed, slots, jobs, endsDone, error, at, series, file, disk>>
      /\ thread = "work" /\ thread' = "wait" /\ job.kind = "batch"
      /\ error \/ at = Len(slots[job.slot])
  BY DEF FinishBatch, callVars, diskVars, Idle
<1>2. Dropped(Pending, Pending') /\ Pending[1] = job
  BY <1>1, PendingFinish
<1>3. HandedInv'
  BY <1>1 DEF HandedInv, Needs
<1>4. EndInv'
  BY <1>1, EndFinished
<1>5. ~error => FileInv'
  BY <1>1 DEF FileInv
<1>6. ASSUME ~error PROVE SeriesInv'
  <2>1. After(Pending[1], series) = series
    BY <1>1, <1>2 DEF After, Turns
  <2> QED BY <1>1, <1>2, <1>6, <2>1, SeriesFinished DEF SeriesInv
<1>7. ASSUME ~error PROVE DataInv'
  <2>1. ASSUME NEW i \in 1 .. handed, plan[i].series \in Written, NEW m \in 1 .. Len(plan[i].ids), Waits(i, m)
        PROVE  Waits(i, m)'
    <3>1. ~(/\ Pending[1].kind = "batch" /\ slots[Pending[1].slot] = plan[i].ids
            /\ thread = "work" => at < m)
      <4>1. i \in 1 .. Len(plan)
        BY WriterAssumption DEF HandedInv, PlanInv
      <4>2. Len(plan[i].ids) \in Nat
        BY <4>1, PlanFacts
      <4> QED BY <1>1, <1>2, <1>7, <4>2
    <3> QED BY <1>1, <1>2, <2>1, <3>1, WaitsFinished
  <2>2. Kept(disk, disk')
    BY <1>1, NothingLost
  <2> QED BY <1>1, <1>7, <2>1, <2>2, DataKept
<1> QED BY <1>1, <1>3, <1>4, <1>5, <1>6, <1>7

\* The steps that fail.
LEMMA FailingWriting ==
  ASSUME StagingInv, WritingInv, StartFails \/ WriteFails \/ EndFails
  PROVE  WritingInv'
<1> USE DEF StagingInv, WritingInv
<1>1. /\ UNCHANGED <<plan, next, stage, active, endsPushed, handed, jobs>>
      /\ error' = TRUE /\ thread = "work" /\ thread' = "wait"
      /\ endsDone' = IF job.kind = "end" THEN endsDone + 1 ELSE endsDone
  BY DEF StartFails, WriteFails, EndFails, callVars, Idle
<1>2. HandedInv'
  BY <1>1 DEF HandedInv, Needs
<1>3. EndInv'
  BY <1>1, EndFinished
<1> QED BY <1>1, <1>2, <1>3

\* START, END and the stop close the open file.
LEMMA TurnsWriting ==
  ASSUME StagingInv, WritingInv, StartSeries \/ EndSeries \/ Exit
  PROVE  WritingInv'
<1> USE DEF StagingInv, WritingInv
<1>1. /\ thread = "work" /\ thread' \in {"wait", "exited"}
      /\ UNCHANGED <<callVars, jobs, slots, at>> /\ error' = error
      /\ job.kind \in {"start", "end", "stop"}
      /\ endsDone' = IF job.kind = "end" THEN endsDone + 1 ELSE endsDone
  BY DEF StartSeries, EndSeries, Exit, Idle, DoneAfter, diskVars
<1>2. job \in Job
  BY <1>1 DEF QueueInv
<1> DEFINE e == Closed(disk, series, file)
<1>3. ASSUME ~error
      PROVE  /\ disk \in Disk /\ file \in File /\ FileOK(disk, series, file)
             /\ e \in Disk /\ NoFile \in File /\ Kept(disk, e) /\ (\A s : FileOK(e, s, NoFile))
  <2>1. disk \in Disk /\ file \in File /\ FileOK(disk, series, file)
    BY <1>1, <1>3 DEF FileInv
  <2>2. e \in Disk /\ \A p \in Paths : e.temp[p] = Absent
    BY <2>1, Closing
  <2>3. Kept(disk, e)
    BY <2>1, ClosingKeeps
  <2> HIDE DEF e
  <2>4. NoFile \in File /\ \A s : FileOK(e, s, NoFile)
    BY <2>2, ClosedIsOK
  <2> QED BY <2>1, <2>2, <2>3, <2>4
<1> HIDE DEF e
<1>4. ASSUME ~error
      PROVE  /\ series' = After(job, series) /\ series' \in DOMAIN Series \cup {0}
             /\ disk' \in Disk /\ file' \in File
             /\ thread' # "exited" => FileOK(disk', series', file')
             /\ Kept(disk, disk')
             /\ job.kind = "end" => file' = NoFile
  <2>1. CASE StartSeries
    <3>1. job.kind = "start" /\ disk' = e /\ series' = job.series /\ file' = NoFile
      BY <1>4, <2>1 DEF StartSeries, e
    <3>2. job.series \in DOMAIN Series \cup {0}
      BY <1>1, <1>2, <1>4 DEF Job
    <3> QED BY <1>3, <1>4, <3>1, <3>2 DEF After, Turns
  <2>2. CASE EndSeries /\ series # 0
    <3>1. job.kind = "end" /\ disk' = e /\ series' = 0 /\ file' = NoFile
      BY <1>4, <2>2 DEF EndSeries, e
    <3> QED BY <1>3, <1>4, <3>1 DEF After, Turns
  <2>3. CASE EndSeries /\ series = 0
    <3>1. job.kind = "end" /\ UNCHANGED <<series, file, disk>>
      BY <2>3 DEF EndSeries, diskVars
    <3>2. series \notin Written
      BY <2>3, WriterAssumption DEF Written
    <3>3. file = NoFile
      BY <1>3, <1>4, <3>2 DEF FileOK
    <3> QED BY <1>3, <1>4, <2>3, <3>1, <3>3, NothingLost DEF After, Turns
  <2>4. CASE Exit
    <3>1. job.kind = "stop" /\ (disk' = e \/ disk' = disk) /\ file' = NoFile /\ series' = 0 /\ thread' = "exited"
      BY <2>4 DEF Exit, e
    <3> QED BY <1>3, <1>4, <3>1, NothingLost DEF After, Turns
  <2> QED BY <2>1, <2>2, <2>3, <2>4
<1> QED BY <1>1, <1>4, TurnWriting

\* Every step keeps what is known of the files.
LEMMA NextWriting == DistinctNames /\ StagingInv /\ WritingInv /\ [Next]_vars => WritingInv'
  BY EnterWriting, StageWriting, PushEndWriting, StopWriting, QuietWriting,
     TakeWriting, WriteImageWriting, FinishBatchWriting, FailingWriting, TurnsWriting
     DEF Next, Callback, Writer, Done

\* What is known of the files, as an inductive invariant beside StagingInv.
THEOREM WritingInvariance == DistinctNames => (Spec => [](StagingInv /\ WritingInv))
<1> SUFFICES ASSUME DistinctNames PROVE Spec => [](StagingInv /\ WritingInv)
  OBVIOUS
<1>1. Init => StagingInv /\ WritingInv
  BY InitStaging, InitWriting
<1>2. (StagingInv /\ WritingInv) /\ [Next]_vars => (StagingInv /\ WritingInv)'
  BY NextStaging, NextWriting
<1> QED BY <1>1, <1>2, PTL DEF Spec

-----------------------------------------------------------------------------
(* What the files hold when the thread has exited and when END is released. *)

\* An image of a batch that was queued belongs to one of its positions there.
LEMMA QueuedImage ==
  ASSUME PlanInv, HandedInv, NEW s \in Written, NEW n \in Nat, n <= Len(plan),
         NEW id \in Images(s, n)
  PROVE  /\ id \in Nat /\ id < Series[s].images
         /\ \E i \in 1 .. n : plan[i].series = s /\ \E m \in 1 .. Len(plan[i].ids) : plan[i].ids[m] = id
<1>1. /\ id < Series[s].images
      /\ \E i \in 1 .. n : plan[i].series = s /\ id \in ToSet(plan[i].ids)
  BY DEF Images
<1>2. PICK i \in 1 .. n : plan[i].series = s /\ id \in ToSet(plan[i].ids)
  BY <1>1
<1>3. i \in 1 .. Len(plan)
  BY WriterAssumption DEF PlanInv
<1>4. /\ plan[i].ids \in Seq(Nat) /\ Len(plan[i].ids) \in Nat
      /\ \A m \in 1 .. Len(plan[i].ids) : plan[i].ids[m] \in Nat
  BY <1>3, PlanFacts
<1>5. DOMAIN plan[i].ids = 1 .. Len(plan[i].ids)
  BY <1>4, LenProperties
<1>6. \E m \in 1 .. Len(plan[i].ids) : plan[i].ids[m] = id
  BY <1>2, <1>5 DEF ToSet
<1> QED BY <1>1, <1>2, <1>4, <1>6

\* With nothing pending, every image that was queued is on disk.
LEMMA AllOnDisk ==
  ASSUME PlanInv, HandedInv, DataInv, Pending = <<>>,
         NEW s \in Written, NEW id \in Images(s, handed)
  PROVE  OnDisk(disk, s, id)
<1>1. /\ id < Series[s].images
      /\ \E i \in 1 .. handed : plan[i].series = s /\ \E m \in 1 .. Len(plan[i].ids) : plan[i].ids[m] = id
  BY QueuedImage DEF HandedInv
<1>2. PICK i \in 1 .. handed : plan[i].series = s /\ \E m \in 1 .. Len(plan[i].ids) : plan[i].ids[m] = id
  BY <1>1
<1>3. PICK m \in 1 .. Len(plan[i].ids) : plan[i].ids[m] = id
  BY <1>2
<1>4. ~Waits(i, m)
  <2>1. Len(Pending) = 0
    OBVIOUS
  <2> QED BY <2>1 DEF Waits
<1> QED BY <1>1, <1>2, <1>3, <1>4 DEF DataInv

\* Queued batches are written before the thread exits, whatever the moment of the
\* stop, unless a failure was reported.
THEOREM QueuedAreWritten == DistinctNames => (Spec => []QueuedBatchesWritten)
<1> SUFFICES ASSUME DistinctNames PROVE Spec => []QueuedBatchesWritten
  OBVIOUS
<1>1. StagingInv /\ WritingInv => QueuedBatchesWritten
  <2> SUFFICES ASSUME StagingInv, WritingInv, thread = "exited", ~error,
                      NEW s \in Written, NEW id \in Images(s, handed)
               PROVE  OnDisk(disk, s, id)
    BY DEF QueuedBatchesWritten, OnDisk
  <2>1. Pending = <<>>
    BY DEF StagingInv, QueueInv, Pending
  <2> QED BY <2>1, AllOnDisk DEF StagingInv, WritingInv
<1> QED BY <1>1, WritingInvariance, PTL

\* The callback releases END with every image of the series in a file under its
\* final name, and no file of the series in progress.
LEMMA EndReleaseStored ==
  ASSUME StagingInv, WritingInv, Next, EndReleased, Batch.series \in Written
  PROVE  /\ \A id \in Images(Batch.series, next) : InFile(disk.final, Batch.series, id)
         /\ \A n \in DataFiles(Batch.series) : disk.temp[Path(Batch.series, n)] = Absent
<1> USE DEF StagingInv, WritingInv
<1>1. Ending /\ EndWritten
  <2>1. Ending /\ stage' = "idle"
    BY DEF EndReleased
  <2>2. Release
    BY <2>1 DEF Next, Callback, Writer, Done, Enter, Await, Stage, CompressFails, PushEnd, FailWait, AbandonWait, Stop,
                RequestStop, Take, StartSeries, StartFails, WriteImage, WriteFails, FinishBatch,
                EndSeries, EndFails, Exit, vars, callVars
  <2> QED BY <2>1, <2>2 DEF Release
<1>2. ~error /\ Pending = <<>> /\ file = NoFile
  BY <1>1 DEF EndInv, EndWritten
<1>3. thread # "exited"
  BY <1>1 DEF QueueInv
<1>4. FileOK(disk, series, file) /\ disk \in Disk
  BY <1>2, <1>3 DEF FileInv
<1>5. \A p \in Paths : disk.temp[p] = Absent
  BY <1>2, <1>4 DEF FileOK, NoFile
<1>6. ASSUME NEW n \in DataFiles(Batch.series) PROVE disk.temp[Path(Batch.series, n)] = Absent
  BY <1>5, PathOfFile
<1>7. ASSUME NEW id \in Images(Batch.series, next) PROVE InFile(disk.final, Batch.series, id)
  <2> DEFINE s == Batch.series
  <2>1. next \in Nat /\ next <= Len(plan) /\ Len(plan) \in Nat /\ handed \in Nat /\ handed <= next
    BY <1>1, WriterAssumption DEF PlanInv, Running, HandedInv
  <2>2. /\ id \in Nat /\ id < Series[s].images
        /\ \E i \in 1 .. next : plan[i].series = s /\ \E m \in 1 .. Len(plan[i].ids) : plan[i].ids[m] = id
    BY <1>7, <2>1, QueuedImage
  <2>3. PICK i \in 1 .. next : plan[i].series = s /\ \E m \in 1 .. Len(plan[i].ids) : plan[i].ids[m] = id
    BY <2>2
  <2>4. i <= handed
    <3> SUFFICES ASSUME handed < i PROVE FALSE
      BY <2>1
    <3>1. ~Needs(i)
      BY <1>1, <2>1 DEF HandedInv
    <3>2. i \in 1 .. Len(plan) /\ plan[i].series \in Written
      BY <2>1, <2>3
    <3>3. Len(plan[i].ids) = 0
      BY <3>1, <3>2, PlanFacts
    <3> QED BY <2>3, <3>3
  <2>5. PICK m \in 1 .. Len(plan[i].ids) : plan[i].ids[m] = id
    BY <2>3
  <2>6. OnDisk(disk, s, id)
    <3>1. ~Waits(i, m)
      <4>1. Len(Pending) = 0
        BY <1>2
      <4> QED BY <4>1 DEF Waits
    <3>2. i \in 1 .. handed
      BY <2>1, <2>4
    <3> QED BY <1>2, <2>2, <2>3, <2>5, <3>1, <3>2 DEF DataInv
  <2>7. disk.temp[Path(s, FileOf(id))] = Absent
    BY <1>5, <2>2, FileOfImage
  <2> QED BY <2>2, <2>6, <2>7, AbsentHoldsNothing DEF OnDisk
<1> QED BY <1>6, <1>7

\* END means stored: when the callback releases END, every image it was given is in
\* a file with its final name, and none is in progress.
THEOREM ReleasedIsStored == DistinctNames => (Spec => EndMeansStored)
<1> SUFFICES ASSUME DistinctNames PROVE Spec => EndMeansStored
  OBVIOUS
<1>1. StagingInv /\ WritingInv /\ [Next]_vars =>
        [EndReleased /\ Batch.series \in Written =>
           /\ \A id \in Images(Batch.series, next) : InFile(disk.final, Batch.series, id)
           /\ \A n \in DataFiles(Batch.series) : disk.temp[Path(Batch.series, n)] = Absent]_vars
  BY EndReleaseStored
<1> QED BY <1>1, WritingInvariance, PTL DEF Spec, EndMeansStored
=============================================================================
