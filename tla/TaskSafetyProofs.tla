-------------------------- MODULE TaskSafetyProofs --------------------------
(***************************************************************************)
(* The invariant of TaskOperatorInv is inductive; the safety properties of *)
(* TaskOperator follow from it, for every value of the constants.          *)
(***************************************************************************)
EXTENDS TaskOperatorInv, TaskOperatorProofs

(* The stored Task and its versions.                                       *)

\* A list of slices is finite, so that its length makes sense.
LEMMA ListsFinite ==
    ASSUME NEW t \in Tasks
    PROVE  /\ IsFiniteSet(t.scheduled)
           /\ t.scheduled \subseteq Indexes /\ t.finished \subseteq Indexes
           /\ Cardinality(t.scheduled) \in Nat
  <1>1. t.scheduled \in SUBSET Indexes /\ t.finished \in SUBSET Indexes
    BY DEF Tasks
  <1>2. IsFiniteSet(Indexes)
    BY FS_Interval, SlicesAssumption DEF Indexes
  <1> QED
    BY <1>1, <1>2, FS_Subset, FS_CardinalityType

\* There is at most one next slice.
LEMMA NextIsUnique ==
    ASSUME NEW t, NEW i \in Indexes, NEW j \in Indexes, IsNext(t, i), IsNext(t, j)
    PROVE  i = j
  <1>1. i \in Nat /\ j \in Nat
    BY SlicesAssumption DEF Indexes
  <1>2. ~ (i < j)
    <2>1. i < j => i \in 0 .. (j - 1)
      BY <1>1
    <2> QED
      BY <2>1 DEF IsNext
  <1>3. ~ (j < i)
    <2>1. j < i => j \in 0 .. (i - 1)
      BY <1>1
    <2> QED
      BY <2>1 DEF IsNext
  <1> QED
    BY <1>1, <1>2, <1>3

\* What determineNextSliceIndex picks is the next slice.
LEMMA FirstFreeIsNext ==
    ASSUME NEW t \in Tasks, NEW i \in FirstFree(t)
    PROVE  i \in Indexes /\ IsNext(t, i) /\ t.planned > 0
  <1>1. i \in 0 .. (t.planned - 1) /\ t.planned \in Nat
    BY CopiesType DEF Tasks
  <1> QED
    BY <1>1, CopiesType DEF FirstFree, IsNext

LEMMA AdvancesReflexive ==
    ASSUME NEW t \in Tasks
    PROVE  Advances(t, t)
  <1>1. t.finishedCount <= t.finishedCount
    BY DEF Tasks
  <1> QED
    BY <1>1 DEF Advances, Grows

LEMMA OlderReflexive ==
    ASSUME NEW t \in Tasks
    PROVE  Older(t, t)
  BY DEF Older

\* A version remains older than what is written over the one it was older than:
\* a slice that the write books is the next one of both.
LEMMA OlderAdvances ==
    ASSUME NEW copy \in Tasks, NEW old \in Tasks, NEW new \in Tasks,
           Older(copy, old), Advances(old, new)
    PROVE  Older(copy, new)
  <1>1. Booked(copy) \subseteq Booked(new)
    BY DEF Older, Advances, Grows
  <1>2. ASSUME NEW i \in Indexes, IsNext(copy, i), i \notin Booked(new)
        PROVE  new.scheduled \subseteq copy.scheduled
    <2>1. i \notin Booked(old)
      BY <1>2 DEF Advances, Grows
    <2>2. IsNext(old, i)
      BY <1>2, <2>1 DEF IsNext, Older
    <2>3. old.scheduled \subseteq copy.scheduled
      BY <1>2, <2>1 DEF Older
    <2>4. ASSUME NEW x \in new.scheduled, x \notin old.scheduled PROVE FALSE
      <3>1. IsNext(old, x) /\ x \in Indexes
        BY <2>4, ListsFinite DEF Advances
      <3>2. x = i
        BY <2>2, <3>1, NextIsUnique
      <3> QED
        BY <1>2, <2>4, <3>2 DEF Booked
    <2> QED
      BY <2>3, <2>4
  <1> QED
    BY <1>1, <1>2 DEF Older, Advances, Grows

\* Only the next slice is added to the scheduled ones, so their number does not
\* grow while the next slice stays without a booking.
LEMMA SlotStaysFree ==
    ASSUME NEW old \in Tasks, NEW new \in Tasks, Advances(old, new),
           NEW i \in Indexes, IsNext(old, i), SlotFree(old), i \notin Booked(new)
    PROVE  IsNext(new, i) /\ SlotFree(new)
  <1>1. IsNext(new, i)
    BY DEF IsNext, Advances, Grows
  <1>2. new.scheduled \subseteq old.scheduled
    <2>1. ASSUME NEW x \in new.scheduled, x \notin old.scheduled PROVE FALSE
      <3>1. IsNext(old, x) /\ x \in Indexes
        BY <2>1, ListsFinite DEF Advances
      <3>2. x = i
        BY <3>1, NextIsUnique
      <3> QED
        BY <2>1, <3>2 DEF Booked
    <2> QED
      BY <2>1
  <1>3. Cardinality(new.scheduled) <= Cardinality(old.scheduled)
    BY <1>2, ListsFinite, FS_Subset
  <1>4. Cardinality(new.scheduled) \in Nat /\ Cardinality(old.scheduled) \in Nat
    BY ListsFinite
  <1>5. MaxCount # Unlimited => MaxCount \in Nat
    BY CountAssumption
  <1> QED
    BY <1>1, <1>3, <1>4, <1>5 DEF SlotFree

\* Booking the slice that determineNextSliceIndex picked.
LEMMA SchedulingAdvances ==
    ASSUME NEW t \in Tasks, Sound(t), NextSliceDetermined(t), NEW i \in FirstFree(t)
    PROVE  Advances(t, WithSliceScheduled(t, i)) /\ Sound(WithSliceScheduled(t, i))
  <1> DEFINE new == WithSliceScheduled(t, i)
  <1>1. i \in Indexes /\ IsNext(t, i)
    BY FirstFreeIsNext
  <1>2. /\ new.scheduled = t.scheduled \cup {i} /\ new.progressing = "true"
        /\ new.finished = t.finished /\ new.finishedCount = t.finishedCount
        /\ new.planned = t.planned /\ new.split = t.split /\ new.counted = t.counted
        /\ new.merged = t.merged /\ new.ready = t.ready
    BY DEF WithSliceScheduled, Tasks
  <1>3. t.progressing # "false"
    <2>1. t.finishedCount \in Nat /\ t.planned \in Nat
      BY DEF Tasks
    <2> QED
      BY <2>1 DEF Sound, NextSliceDetermined, PartialSlicesFinished
  <1>4. i \notin t.scheduled /\ i \notin t.finished
    BY <1>1 DEF IsNext, Booked
  <1>5. Advances(t, new)
    <2>1. t.finishedCount <= t.finishedCount
      BY DEF Tasks
    <2> QED
      BY <1>1, <1>2, <1>3, <1>4, <2>1 DEF Advances, Grows, Booked
  <1>6. MaxCount # Unlimited => Cardinality(new.scheduled) <= MaxCount
    <2>1. Cardinality(new.scheduled) = Cardinality(t.scheduled) + 1
      BY <1>2, <1>4, ListsFinite, FS_AddElement
    <2> QED
      BY <2>1, ListsFinite, CountAssumption DEF NextSliceDetermined, SlotFree
  <1>7. Sound(new)
    BY <1>2, <1>3, <1>4, <1>6 DEF Sound
  <1> QED
    BY <1>5, <1>7

\* Recording a slice as finished, be it for the first time or again.
LEMMA FinishingAdvances ==
    ASSUME NEW t \in Tasks, Sound(t), t.planned > 0, NEW i \in Indexes
    PROVE  Advances(t, WithSliceFinished(t, i)) /\ Sound(WithSliceFinished(t, i))
  <1> DEFINE new == WithSliceFinished(t, i)
  <1>1. /\ new.scheduled = t.scheduled \ {i} /\ new.finished = t.finished \cup {i}
        /\ new.finishedCount = t.finishedCount + 1
        /\ new.progressing = IF t.finishedCount + 1 >= t.planned THEN "false" ELSE t.progressing
        /\ new.planned = t.planned /\ new.split = t.split /\ new.counted = t.counted
        /\ new.merged = t.merged /\ new.ready = t.ready
    BY DEF WithSliceFinished, Tasks
  <1>2. t.finishedCount \in Nat /\ t.planned \in Nat
    BY DEF Tasks
  <1>3. t.finishedCount <= new.finishedCount
    BY <1>1, <1>2
  <1>4. Advances(t, new)
    <2>1. t.progressing = "false" => new.progressing = "false"
      BY <1>1
    <2> QED
      BY <1>1, <1>3, <2>1 DEF Advances, Grows, Booked
  <1>5. new.progressing = "false" => new.finishedCount >= new.planned
    BY <1>1, <1>2 DEF Sound
  <1>6. Cardinality(new.scheduled) <= Cardinality(t.scheduled)
    BY <1>1, ListsFinite, FS_Subset
  <1>7. MaxCount # Unlimited => Cardinality(new.scheduled) <= MaxCount
    <2>1. Cardinality(new.scheduled) \in Nat /\ Cardinality(t.scheduled) \in Nat
      BY <1>1, ListsFinite, FS_Subset, FS_CardinalityType
    <2> QED
      BY <1>6, <2>1, CountAssumption DEF Sound
  <1>8. new.merged => new.progressing = "false"
    BY <1>1 DEF Sound
  <1> QED
    BY <1>1, <1>4, <1>5, <1>7, <1>8 DEF Sound

\* Recording the completion of any Job that is backed by the status.
LEMMA CompletionAdvances ==
    ASSUME NEW t \in Tasks, Sound(t), NEW job \in Jobs,
           job = Merge => t.progressing = "false",
           job = Cleanup => t.merged,
           \A i \in Indexes : job = Slice(i) => t.planned > 0
    PROVE  Advances(t, WithJobComplete(t, job)) /\ Sound(WithJobComplete(t, job))
  <1>1. t.finishedCount <= t.finishedCount
    BY DEF Tasks
  <1>2. CASE job \in {Split, Count, Merge, Cleanup}
    <2> DEFINE new == WithJobComplete(t, job)
    <2>1. /\ new.scheduled = t.scheduled /\ new.finished = t.finished
          /\ new.finishedCount = t.finishedCount /\ new.progressing = t.progressing
          /\ new.planned = t.planned
          /\ t.split => new.split
          /\ t.counted => new.counted
          /\ new.merged = (t.merged \/ job = Merge)
          /\ new.ready = (t.ready \/ job = Cleanup)
      <3>1. CASE job = Split
        BY <3>1 DEF WithJobComplete, Tasks, Split, Merge, Cleanup
      <3>2. CASE job = Count
        BY <3>2 DEF WithJobComplete, Tasks, Split, Count, Merge, Cleanup
      <3>3. CASE job = Merge
        BY <3>3 DEF WithJobComplete, Tasks, Split, Count, Merge, Cleanup
      <3>4. CASE job = Cleanup
        BY <3>4 DEF WithJobComplete, Tasks, Split, Count, Merge, Cleanup
      <3> QED
        BY <1>2, <3>1, <3>2, <3>3, <3>4
    <2> QED
      BY <1>1, <2>1 DEF Advances, Grows, Booked, Sound
  <1>3. CASE \E i \in Indexes : job = Slice(i)
    <2>1. PICK i \in Indexes : job = Slice(i)
      BY <1>3
    <2>2. WithJobComplete(t, job) = WithSliceFinished(t, i)
      BY <2>1 DEF WithJobComplete, Slice, Split, Count, Merge, Cleanup
    <2> QED
      BY <2>1, <2>2, FinishingAdvances
  <1> QED
    BY <1>2, <1>3, JobNames

\* The count's patch, for the first time or again.
LEMMA CountingAdvances ==
    ASSUME NEW t \in Tasks, Sound(t),
           NEW n \in 1 .. (IF t.planned = 0 THEN MaxSlices ELSE t.planned)
    PROVE  /\ Advances(t, [t EXCEPT !.planned = n])
           /\ Sound([t EXCEPT !.planned = n])
           /\ [t EXCEPT !.planned = n] \in Tasks
  <1> DEFINE new == [t EXCEPT !.planned = n]
  <1>1. /\ new.scheduled = t.scheduled /\ new.finished = t.finished
        /\ new.finishedCount = t.finishedCount /\ new.progressing = t.progressing
        /\ new.planned = n /\ new.split = t.split /\ new.counted = t.counted
        /\ new.merged = t.merged /\ new.ready = t.ready
    BY DEF Tasks
  <1>2. t.finishedCount \in Nat /\ t.planned \in 0 .. MaxSlices
    BY DEF Tasks
  <1>3. n \in 1 .. MaxSlices /\ (t.planned > 0 => n <= t.planned)
    BY <1>2, SlicesAssumption
  <1>4. Advances(t, new)
    BY <1>1, <1>2, <1>3 DEF Advances, Grows, Booked
  <1>5. t.progressing = "false" => n > 0 /\ t.finishedCount >= n
    BY <1>2, <1>3 DEF Sound
  <1>6. Sound(new)
    BY <1>1, <1>5 DEF Sound
  <1>7. new \in Tasks
    BY <1>3, SlicesAssumption DEF Tasks
  <1> QED
    BY <1>4, <1>6, <1>7

\* The Failed condition is no part of what the invariant says.
LEMMA FailureAdvances ==
    ASSUME NEW t \in Tasks, NEW u \in Tasks, Advances(t, u), Sound(u), NEW b \in BOOLEAN
    PROVE  /\ Advances(t, [u EXCEPT !.failed = b])
           /\ Sound([u EXCEPT !.failed = b])
           /\ [u EXCEPT !.failed = b] \in Tasks
  <1> DEFINE new == [u EXCEPT !.failed = b]
  <1>1. /\ new.scheduled = u.scheduled /\ new.finished = u.finished
        /\ new.finishedCount = u.finishedCount /\ new.progressing = u.progressing
        /\ new.planned = u.planned /\ new.split = u.split /\ new.counted = u.counted
        /\ new.merged = u.merged /\ new.ready = u.ready
    BY DEF Tasks
  <1>2. Advances(t, new)
    BY <1>1 DEF Advances, Grows, Booked
  <1>3. Sound(new)
    BY <1>1 DEF Sound
  <1>4. new \in Tasks
    BY DEF Tasks
  <1> QED
    BY <1>2, <1>3, <1>4
-----------------------------------------------------------------------------
(* What the write of a fitting version keeps.                              *)

\* An update writes the version it is given, from a current copy, or nothing.
LEMMA UpdateWritesOrNot ==
    ASSUME NEW fresh, NEW new, NEW ok, UpdateStatus(fresh, new, ok)
    PROVE  /\ UNCHANGED apiVars \/ (fresh /\ Store(new))
           /\ ok => fresh /\ Store(new)
  BY DEF UpdateStatus, apiVars

LEMMA WriteKeepsVersions ==
    ASSUME TypeOK, VersionsOlder, ReadySpreads, NEW new \in Tasks,
           Advances(task, new), Sound(new), Store(new), UNCHANGED cache
    PROVE  VersionsOlder' /\ ReadySpreads'
  <1>1. CASE new = task
    <2>1. UNCHANGED <<task, events, cache>>
      BY <1>1 DEF Store
    <2> QED
      BY <2>1 DEF VersionsOlder, ReadySpreads
  <1>2. CASE new # task
    <2>1. task' = new /\ events' = Append(events, new) /\ cache' = cache
      BY <1>2 DEF Store
    <2>2. events \in Seq(Tasks) /\ task \in Tasks /\ cache \in Tasks
      BY DEF TypeOK
    <2>3. /\ Len(events') = Len(events) + 1 /\ Len(events) \in Nat
          /\ \A k \in 1 .. Len(events) : events'[k] = events[k] /\ events[k] \in Tasks
          /\ events'[Len(events')] = new
          /\ events' # <<>>
      BY <2>1, <2>2, AppendProperties
    <2>4. \A k \in 1 .. Len(events') : k \in 1 .. Len(events) \/ k = Len(events')
      BY <2>3
    <2>5. Sound(cache) /\ Older(cache, new)
      BY <2>2, OlderAdvances DEF VersionsOlder
    <2>6. ASSUME NEW k \in 1 .. Len(events')
          PROVE  Sound(events'[k]) /\ Older(events'[k], new)
      <3>1. CASE k \in 1 .. Len(events)
        BY <2>2, <2>3, <3>1, OlderAdvances DEF VersionsOlder
      <3>2. CASE k = Len(events')
        BY <2>3, <3>2, OlderReflexive
      <3> QED
        BY <2>4, <3>1, <3>2
    <2>7. VersionsOlder'
      BY <2>1, <2>3, <2>5, <2>6 DEF VersionsOlder
    <2>8. cache.ready => new.ready
      BY <2>5 DEF Older
    <2>9. \A k \in 1 .. Len(events) : events[k].ready => new.ready
      BY <2>3, <2>6 DEF Older
    <2>10. ASSUME NEW k \in 1 .. Len(events'), events'[k].ready, NEW m \in k .. Len(events')
           PROVE  events'[m].ready
      <3>1. CASE m = Len(events')
        BY <2>3, <2>4, <2>9, <2>10, <3>1
      <3>2. CASE m # Len(events')
        <4>1. k \in 1 .. Len(events) /\ m \in k .. Len(events) /\ m \in 1 .. Len(events)
          BY <2>3, <3>2
        <4> QED
          BY <2>3, <2>10, <4>1 DEF ReadySpreads
      <3> QED
        BY <3>1, <3>2
    <2>11. cache.ready => \A k \in 1 .. Len(events') : events'[k].ready
      BY <2>3, <2>4, <2>8 DEF ReadySpreads
    <2> QED
      BY <2>1, <2>7, <2>10, <2>11 DEF ReadySpreads
  <1> QED
    BY <1>1, <1>2

\* What backs a Job is not taken back by a write.
LEMMA WriteKeepsBacked ==
    ASSUME TypeOK, TypeOK', Advances(task, task'), NEW job \in Jobs, Backed(job)
    PROVE  Backed(job)'
  <1>1. task \in Tasks /\ task' \in Tasks
    BY DEF TypeOK
  <1>2. ASSUME NEW i \in Indexes, job = Slice(i), i \notin Booked(task')
        PROVE  IsNext(task', i) /\ SlotFree(task')
    <2>1. IsNext(task, i) /\ SlotFree(task)
      BY <1>2 DEF Backed, Advances, Grows
    <2> QED
      BY <1>1, <1>2, <2>1, SlotStaysFree
  <1> QED
    BY <1>2 DEF Backed, Advances, Grows
-----------------------------------------------------------------------------
(* The steps of the pipeline and the Jobs they create.                     *)

\* The step after another one is due, and a booking only follows its Job.
LEMMA NextStageFacts ==
    ASSUME NEW t, NEW stage \in {"get"} \cup Stages, NEW s \in NextStage(stage, t)
    PROVE  /\ s \in Stages
           /\ Due(s, t)
           /\ s = "status" => stage = "slice"
           /\ stage = "status" => s \in {"cleanup", "delete", "finalize"}
  <1>1. s \in Stages /\ Due(s, t) /\ Position[s] > Position[stage]
    BY DEF NextStage, DueAfter
  <1>2. s = "status" => stage = "slice"
    <2>1. SUFFICES ASSUME s = "status", stage # "slice" PROVE FALSE
      OBVIOUS
    <2>2. Due("slice", t)
      BY <1>1, <2>1 DEF Due
    <2>3. Position["slice"] > Position[stage] /\ Position["slice"] < Position["status"]
      BY <1>1, <2>1 DEF Position, Stages
    <2>4. "slice" \in DueAfter(stage, t)
      BY <2>2, <2>3 DEF DueAfter, Stages
    <2>5. Position["status"] <= Position["slice"]
      BY <2>1, <2>4 DEF NextStage
    <2> QED
      BY <2>5 DEF Position
  <1>3. stage = "status" => s \in {"cleanup", "delete", "finalize"}
    BY <1>1 DEF Position, Stages
  <1> QED
    BY <1>1, <1>2, <1>3

\* A Task that is ready has no slice to schedule.
LEMMA ReadyHasNoNextSlice ==
    ASSUME NEW t \in Tasks, Sound(t), t.ready
    PROVE  ~ NextSliceDetermined(t)
  <1>1. t.finishedCount \in Nat /\ t.planned \in Nat
    BY DEF Tasks
  <1> QED
    BY <1>1 DEF Sound, NextSliceDetermined, PartialSlicesFinished

LEMMA JobsDiffer ==
    /\ \A i \in Indexes : Slice(i) \notin {Split, Count, Merge, Cleanup}
    /\ \A i, j \in Indexes : Slice(i) = Slice(j) => i = j
    /\ Split # Count /\ Split # Merge /\ Split # Cleanup
    /\ Count # Merge /\ Count # Cleanup /\ Merge # Cleanup
  BY DEF Split, Count, Merge, Cleanup, Slice

\* A Job that a step of the pipeline creates is backed by the stored Task,
\* although the step was decided on the reconciler's copy.
LEMMA CreatedJobsBacked ==
    ASSUME IInv
    PROVE  /\ Backed(Split)
           /\ tPc = "count" => Backed(Count)
           /\ tPc = "merge" => Backed(Merge)
           /\ tPc = "cleanup" => Backed(Cleanup)
           /\ tPc = "slice" => \A i \in FirstFree(tTask) : Backed(Slice(i))
  <1> USE JobsDiffer DEF IInv
  <1>1. Backed(Split)
    BY DEF Backed
  <1>2. tPc = "count" => Backed(Count)
    BY DEF Backed, TaskCopyOlder, Due, Older, Stages
  <1>3. tPc = "merge" => Backed(Merge)
    BY DEF Backed, TaskCopyOlder, Due, Older, Stages, AllSlicesFinished
  <1>4. tPc = "cleanup" => Backed(Cleanup)
    BY DEF Backed, TaskCopyOlder, Due, Older, Stages
  <1>5. ASSUME tPc = "slice", NEW i \in FirstFree(tTask) PROVE Backed(Slice(i))
    <2>1. tTask \in Tasks /\ task \in Tasks
      BY DEF TypeOK
    <2>2. Sound(tTask) /\ Older(tTask, task) /\ NextSliceDetermined(tTask)
      BY <1>5 DEF TaskCopyOlder, Due, Stages
    <2>3. i \in Indexes /\ IsNext(tTask, i) /\ tTask.planned > 0
      BY <2>1, FirstFreeIsNext
    <2>4. ASSUME i \notin Booked(task) PROVE IsNext(task, i) /\ SlotFree(task)
      <3>1. IsNext(task, i)
        BY <2>2, <2>3, <2>4 DEF IsNext, Older
      <3>2. task.scheduled \subseteq tTask.scheduled
        BY <2>2, <2>3, <2>4 DEF Older
      <3>3. Cardinality(task.scheduled) <= Cardinality(tTask.scheduled)
        BY <2>1, <3>2, ListsFinite, FS_Subset
      <3>4. SlotFree(tTask)
        BY <2>2 DEF NextSliceDetermined
      <3> QED
        BY <2>1, <3>1, <3>3, <3>4, ListsFinite, CountAssumption DEF SlotFree
    <2>5. task.planned > 0
      BY <2>2, <2>3 DEF Older
    <2> QED
      BY <2>3, <2>4, <2>5 DEF Backed
  <1> QED
    BY <1>1, <1>2, <1>3, <1>4, <1>5
-----------------------------------------------------------------------------
(* The invariant is inductive: one lemma per action, or per kind of action. *)

LEMMA InvInit == Init => IInv
  <1> SUFFICES ASSUME Init PROVE IInv
    OBVIOUS
  <1>1. TypeOK
    BY TypeInit
  <1>2. Sound(NewTask)
    <2>1. NewTask.scheduled = {} /\ NewTask.progressing = "unset"
          /\ NewTask.merged = FALSE /\ NewTask.ready = FALSE
      BY DEF NewTask
    <2> QED
      BY <2>1, FS_EmptySet, CountAssumption DEF Sound
  <1>3. Len(events) = 0
    BY DEF Init
  <1>4. VersionsOlder /\ ReadySpreads
    BY <1>2, <1>3, NewTaskType, OlderReflexive DEF Init, VersionsOlder, ReadySpreads
  <1>5. TaskCopyOlder
    BY DEF Init, TaskCopyOlder, Stages
  <1>6. JobCopyCurrent
    BY DEF Init, JobCopyCurrent
  <1>7. JobsBacked
    BY DEF Init, JobsBacked
  <1>8. SliceJobsKept
    BY DEF Init, SliceJobsKept, NewTask
  <1> QED
    BY <1>1, <1>4, <1>5, <1>6, <1>7, <1>8 DEF IInv

LEMMA TaskEventKeeps ==
    ASSUME IInv, TypeOK', TaskEvent
    PROVE  IInv'
  <1> USE DEF IInv
  <1>1. /\ events # <<>> /\ events \in Seq(Tasks)
        /\ cache' = events[1] /\ events' = Tail(events)
        /\ UNCHANGED <<task, jobs, tPc, tTask, tFresh, jPc, jJob, jTask, jFresh>>
    BY DEF TaskEvent, TypeOK, tVars, jVars
  <1>2. /\ Len(events) \in Nat /\ Len(events) > 0
        /\ Len(events') = Len(events) - 1
        /\ \A k \in 1 .. Len(events') : events'[k] = events[k + 1]
        /\ \A k \in 1 .. Len(events') : k + 1 \in 1 .. Len(events)
    BY <1>1, HeadTailProperties
  <1>3. Sound(cache') /\ Older(cache', task)
    BY <1>1, <1>2 DEF VersionsOlder
  <1>4. \A k \in 1 .. Len(events') : Sound(events'[k]) /\ Older(events'[k], task)
    BY <1>2 DEF VersionsOlder
  <1>5. IF events' = <<>> THEN cache' = task ELSE events'[Len(events')] = task
    <2>1. CASE Len(events') = 0
      BY <1>1, <1>2, <2>1 DEF VersionsOlder
    <2>2. CASE Len(events') # 0
      <3>1. Len(events') \in 1 .. Len(events') /\ Len(events') + 1 = Len(events)
        BY <1>2, <2>2
      <3>2. events' # <<>>
        BY <2>2
      <3> QED
        BY <1>1, <1>2, <3>1, <3>2 DEF VersionsOlder
    <2> QED
      BY <2>1, <2>2
  <1>6. VersionsOlder'
    BY <1>1, <1>3, <1>4, <1>5 DEF VersionsOlder
  <1>7. cache.ready => cache'.ready
    BY <1>1, <1>2 DEF ReadySpreads
  <1>8. ReadySpreads'
    <2>1. cache'.ready => \A k \in 1 .. Len(events') : events'[k].ready
      <3>1. \A k \in 1 .. Len(events') : k + 1 \in 1 .. Len(events)
        BY <1>2
      <3> QED
        BY <1>1, <1>2, <3>1 DEF ReadySpreads
    <2>2. ASSUME NEW k \in 1 .. Len(events'), events'[k].ready, NEW m \in k .. Len(events')
          PROVE  events'[m].ready
      <3>1. k + 1 \in 1 .. Len(events) /\ m + 1 \in (k + 1) .. Len(events) /\ m \in 1 .. Len(events')
        BY <1>2
      <3> QED
        BY <1>2, <2>2, <3>1 DEF ReadySpreads
    <2> QED
      BY <2>1, <2>2 DEF ReadySpreads
  <1>9. TaskCopyOlder'
    BY <1>1, <1>7 DEF TaskCopyOlder
  <1>10. JobCopyCurrent'
    BY <1>1 DEF JobCopyCurrent
  <1>11. JobsBacked'
    BY <1>1 DEF JobsBacked, Backed
  <1>12. SliceJobsKept'
    BY <1>1, <1>7 DEF SliceJobsKept, Deleted
  <1> QED
    BY <1>6, <1>8, <1>9, <1>10, <1>11, <1>12

\* Taking a key from a queue, reading the cache, looking at a Job.
LEMMA ReadersKeep ==
    ASSUME IInv, TypeOK', TaskPop \/ TaskGet \/ JobPop \/ JobGet \/ FetchTask \/ Resync
    PROVE  IInv'
  <1> USE DEF IInv
  <1>1. UNCHANGED <<task, events, cache, jobs>>
    BY DEF TaskPop, TaskGet, JobPop, JobGet, FetchTask, Resync, apiVars
  <1>2. VersionsOlder' /\ ReadySpreads'
    BY <1>1 DEF VersionsOlder, ReadySpreads
  <1>3. CASE TaskPop
    <2>1. tPc = "idle" /\ tPc' = "get"
          /\ UNCHANGED <<tTask, tFresh, jPc, jJob, jTask, jFresh>>
      BY <1>3 DEF TaskPop, jVars
    <2>2. ~ tFresh
      BY <2>1 DEF TaskCopyOlder, Stages
    <2>3. TaskCopyOlder'
      BY <2>1, <2>2 DEF TaskCopyOlder, Stages
    <2>4. JobCopyCurrent' /\ JobsBacked'
      BY <1>1, <2>1 DEF JobCopyCurrent, JobsBacked, Backed
    <2>5. SliceJobsKept'
      BY <1>1, <2>1 DEF SliceJobsKept, Deleted, Stages
    <2> QED
      BY <1>2, <2>3, <2>4, <2>5
  <1>4. CASE TaskGet
    <2>1. tPc = "get" /\ tTask' = cache /\ tFresh' = (events = <<>>)
          /\ tPc' \in NextStage("get", cache)
          /\ UNCHANGED <<jPc, jJob, jTask, jFresh>>
      BY <1>4 DEF TaskGet, jVars
    <2>2. tPc' \in Stages /\ Due(tPc', cache) /\ tPc' # "status"
      BY <2>1, NextStageFacts
    <2>3. cache \in Tasks /\ task \in Tasks /\ Sound(cache) /\ Older(cache, task)
      BY DEF TypeOK, VersionsOlder
    <2>4. tFresh' => cache = task
      BY <2>1 DEF VersionsOlder
    <2>5. Advances(task, task)
      BY <2>3, AdvancesReflexive
    <2>6. TaskCopyOlder'
      BY <1>1, <2>1, <2>2, <2>3, <2>4, <2>5 DEF TaskCopyOlder
    <2>7. JobCopyCurrent' /\ JobsBacked'
      BY <1>1, <2>1 DEF JobCopyCurrent, JobsBacked, Backed
    <2>8. SliceJobsKept'
      BY <1>1, <2>1 DEF SliceJobsKept, Deleted
    <2> QED
      BY <1>2, <2>6, <2>7, <2>8
  <1>5. CASE JobPop
    <2>1. jPc = "idle" /\ jPc' = "get" /\ UNCHANGED <<tPc, tTask, tFresh, jTask, jFresh>>
      BY <1>5 DEF JobPop, tVars
    <2>2. TaskCopyOlder' /\ JobCopyCurrent' /\ JobsBacked'
      BY <1>1, <2>1 DEF TaskCopyOlder, JobCopyCurrent, JobsBacked, Backed
    <2>3. SliceJobsKept'
      BY <1>1, <2>1 DEF SliceJobsKept, Deleted
    <2> QED
      BY <1>2, <2>2, <2>3
  <1>6. CASE JobGet
    <2>1. /\ jPc = "get"
          /\ jobs[jJob] = "complete" => jPc' = "fetch" /\ jJob' = jJob
          /\ jobs[jJob] # "complete" => jPc' = "idle"
          /\ UNCHANGED <<tPc, tTask, tFresh, jTask, jFresh>>
      BY <1>6 DEF JobGet, tVars
    <2>2. jJob \in Jobs
      BY DEF TypeOK
    <2>3. JobsBacked'
      BY <1>1, <2>1, <2>2 DEF JobsBacked, Backed
    <2>4. TaskCopyOlder' /\ JobCopyCurrent'
      BY <1>1, <2>1 DEF TaskCopyOlder, JobCopyCurrent
    <2>5. SliceJobsKept'
      BY <1>1, <2>1 DEF SliceJobsKept, Deleted
    <2> QED
      BY <1>2, <2>3, <2>4, <2>5
  <1>7. CASE FetchTask
    <2>1. /\ jPc = "fetch" /\ jPc' = "update" /\ jTask' = cache /\ jFresh' = (events = <<>>)
          /\ UNCHANGED <<tPc, tTask, tFresh, jJob>>
      BY <1>7 DEF FetchTask, tVars
    <2>2. TaskCopyOlder' /\ JobCopyCurrent' /\ JobsBacked'
      BY <1>1, <2>1 DEF TaskCopyOlder, JobCopyCurrent, JobsBacked, Backed, VersionsOlder
    <2>3. SliceJobsKept'
      BY <1>1, <2>1 DEF SliceJobsKept, Deleted
    <2> QED
      BY <1>2, <2>2, <2>3
  <1>8. CASE Resync
    <2>1. UNCHANGED <<tPc, tTask, tFresh, jPc, jJob, jTask, jFresh>>
      BY <1>8 DEF Resync, tVars, jVars
    <2>2. TaskCopyOlder' /\ JobCopyCurrent' /\ JobsBacked'
      BY <1>1, <2>1 DEF TaskCopyOlder, JobCopyCurrent, JobsBacked, Backed
    <2>3. SliceJobsKept'
      BY <1>1, <2>1 DEF SliceJobsKept, Deleted
    <2> QED
      BY <1>2, <2>2, <2>3
  <1> QED
    BY <1>3, <1>4, <1>5, <1>6, <1>7, <1>8

\* A step of the pipeline that creates a Job.
LEMMA EnsureJobKeeps ==
    ASSUME IInv, TypeOK', NEW stage \in Stages \ {"status", "finalize"}, NEW job \in Jobs,
           EnsureJob(stage, job), Backed(job),
           \A i \in Indexes : job = Slice(i) => stage = "slice",
           stage = "slice" => \E i \in FirstFree(tTask) : job = Slice(i)
    PROVE  IInv'
  <1> USE DEF IInv
  <1>1. /\ tPc = stage
        /\ tPc' \in NextStage(stage, tTask) \/ tPc' = "finalize"
        /\ UNCHANGED <<task, events, cache, tTask, tFresh, jPc, jJob, jTask, jFresh>>
    BY DEF EnsureJob, apiVars, jVars
  <1>2. jobs' = jobs \/ (jobs[job] = "none" /\ jobs' = [jobs EXCEPT ![job] = "active"])
    BY DEF EnsureJob, CreateOrUpdate
  <1>3. /\ \A x \in Jobs : jobs[x] # "none" => jobs'[x] = jobs[x]
        /\ \A x \in Jobs : jobs'[x] # jobs[x] => x = job /\ jobs[x] = "none"
    BY <1>2 DEF TypeOK
  <1>4. /\ tPc' \in Stages
        /\ tPc' # "finalize" => Due(tPc', tTask)
        /\ tPc' = "status" => stage = "slice" /\ tPc' \in NextStage(stage, tTask)
    BY <1>1, NextStageFacts DEF Stages
  <1>5. tTask \in Tasks /\ Sound(tTask) /\ Due(stage, tTask)
    BY <1>1 DEF TypeOK, TaskCopyOlder
  <1>6. VersionsOlder' /\ ReadySpreads'
    BY <1>1 DEF VersionsOlder, ReadySpreads
  <1>7. ASSUME tPc' = "status", NEW i \in FirstFree(tTask)
        PROVE  jobs'[Slice(i)] # "none"
    <2>1. stage = "slice" /\ tPc' \in NextStage(stage, tTask)
      BY <1>4, <1>7
    <2>2. PICK j \in FirstFree(tTask) : job = Slice(j)
      BY <2>1
    <2>3. i = j
      BY <1>5, FirstFreeIsNext, NextIsUnique
    <2>4. CreateOrUpdate(job)
      BY <1>7 DEF EnsureJob
    <2> QED
      BY <2>2, <2>3, <2>4 DEF CreateOrUpdate, TypeOK
  <1>8. \A i \in tTask.scheduled \ task.scheduled : i \in Indexes
    BY <1>5, ListsFinite
  <1>9. \A i \in Indexes : jobs[Slice(i)] # "none" => jobs'[Slice(i)] # "none"
    BY <1>3, JobNames
  <1>10. TaskCopyOlder'
    BY <1>1, <1>4, <1>7, <1>8, <1>9 DEF TaskCopyOlder
  <1>11. JobCopyCurrent'
    BY <1>1 DEF JobCopyCurrent
  <1>12. \A x \in Jobs : Backed(x)' = Backed(x)
    BY <1>1 DEF Backed
  <1>13. JobsBacked'
    <2>1. jJob \in Jobs
      BY DEF TypeOK
    <2> QED
      BY <1>1, <1>3, <1>12, <2>1 DEF JobsBacked
  <1>14. Deleted' = Deleted
    BY <1>1, <1>4 DEF Deleted
  <1>15. Deleted => \A i \in Indexes : job # Slice(i)
    <2>1. stage = "slice" => ~ tTask.ready
      BY <1>5, ReadyHasNoNextSlice DEF Due
    <2> QED
      BY <1>1, <2>1 DEF Deleted
  <1>16. SliceJobsKept'
    <2>1. /\ \A i \in task.scheduled : i \in Indexes
          /\ \A i \in task.finished : i \in Indexes
      BY ListsFinite DEF TypeOK
    <2>2. \A i \in Indexes : jobs[Slice(i)] = "none" /\ Deleted => jobs'[Slice(i)] = "none"
      BY <1>3, <1>15, JobNames
    <2>3. \A i \in Indexes : jobs[Slice(i)] = "complete" => jobs'[Slice(i)] = "complete"
      BY <1>3, JobNames
    <2> QED
      BY <1>1, <1>9, <1>14, <2>1, <2>2, <2>3 DEF SliceJobsKept
  <1> QED
    BY <1>6, <1>10, <1>11, <1>13, <1>16

LEMMA CreatorsKeep ==
    ASSUME IInv, TypeOK',
           \/ CreateSplitJob \/ EnsureCountJob \/ CreateMergeJob
           \/ CreateSliceJob \/ EnsureCleanupJob
    PROVE  IInv'
  <1> USE JobNames, JobsDiffer, CreatedJobsBacked
  <1>1. CASE CreateSplitJob
    <2>1. EnsureJob("split", Split)
      BY <1>1 DEF CreateSplitJob
    <2> QED
      BY <2>1, EnsureJobKeeps DEF Stages
  <1>2. CASE EnsureCountJob
    <2>1. EnsureJob("count", Count) /\ tPc = "count"
      BY <1>2 DEF EnsureCountJob, EnsureJob
    <2> QED
      BY <2>1, EnsureJobKeeps DEF Stages
  <1>3. CASE CreateMergeJob
    <2>1. EnsureJob("merge", Merge) /\ tPc = "merge"
      BY <1>3 DEF CreateMergeJob, EnsureJob
    <2> QED
      BY <2>1, EnsureJobKeeps DEF Stages
  <1>4. CASE CreateSliceJob
    <2>1. PICK i \in FirstFree(tTask) : EnsureJob("slice", Slice(i))
      BY <1>4 DEF CreateSliceJob
    <2>2. i \in Indexes /\ tPc = "slice"
      BY <2>1, FirstFreeIsNext DEF IInv, TypeOK, EnsureJob
    <2> QED
      BY <2>1, <2>2, EnsureJobKeeps DEF Stages
  <1>5. CASE EnsureCleanupJob
    <2>1. EnsureJob("cleanup", Cleanup) /\ tPc = "cleanup"
      BY <1>5 DEF EnsureCleanupJob, EnsureJob
    <2> QED
      BY <2>1, EnsureJobKeeps DEF Stages
  <1> QED
    BY <1>1, <1>2, <1>3, <1>4, <1>5

\* Deleting the Jobs of a Task that is ready.
LEMMA CleanupJobsKeeps ==
    ASSUME IInv, TypeOK', CleanupJobs
    PROVE  IInv'
  <1> USE DEF IInv
  <1>1. /\ tPc = "delete" /\ tPc' = "finalize"
        /\ UNCHANGED <<task, events, cache, tTask, tFresh, jPc, jJob, jTask, jFresh>>
    BY DEF CleanupJobs, apiVars, jVars
  <1>2. jobs' = jobs \/ jobs' = [job \in Jobs |-> "none"]
    BY DEF CleanupJobs, DeleteJobs
  <1>3. tTask.ready /\ cache.ready /\ (tFresh => tTask = task)
    BY <1>1 DEF TaskCopyOlder, Due, Stages
  <1>4. Deleted /\ Deleted'
    BY <1>1, <1>3 DEF Deleted
  <1>5. \A x \in Jobs : jobs'[x] = jobs[x] \/ jobs'[x] = "none"
    BY <1>2
  <1>6. VersionsOlder' /\ ReadySpreads'
    BY <1>1 DEF VersionsOlder, ReadySpreads
  <1>7. TaskCopyOlder'
    BY <1>1, <1>3 DEF TaskCopyOlder, Stages
  <1>8. JobCopyCurrent'
    BY <1>1 DEF JobCopyCurrent
  <1>9. JobsBacked'
    <2>1. jJob \in Jobs
      BY DEF TypeOK
    <2> QED
      BY <1>1, <1>5, <2>1 DEF JobsBacked, Backed
  <1>10. SliceJobsKept'
    <2>1. \A i \in task.finished : i \in Indexes
      BY ListsFinite DEF TypeOK
    <2> QED
      BY <1>1, <1>4, <1>5, <2>1, JobNames DEF SliceJobsKept, TypeOK
  <1> QED
    BY <1>6, <1>7, <1>8, <1>9, <1>10

\* What the other writers keep of the task reconciler's copy.
LEMMA WriteKeepsTaskCopy ==
    ASSUME TypeOK, TypeOK', TaskCopyOlder, Advances(task, task'), UNCHANGED <<cache, tPc, tTask>>,
           tFresh' => tFresh /\ task' = task,
           \A i \in Indexes : jobs[Slice(i)] # "none" => jobs'[Slice(i)] # "none"
    PROVE  TaskCopyOlder'
  <1>1. tTask \in Tasks /\ task \in Tasks /\ task' \in Tasks
    BY DEF TypeOK
  <1>2. Older(tTask, task) => Older(tTask, task')
    BY <1>1, OlderAdvances
  <1>3. /\ \A i \in FirstFree(tTask) : i \in Indexes
        /\ \A i \in tTask.scheduled \ task.scheduled : i \in Indexes
    BY <1>1, FirstFreeIsNext, ListsFinite
  <1> QED
    BY <1>2, <1>3 DEF TaskCopyOlder

\* The booking: from a current copy, written, refused or lost.
LEMMA BookingKeeps ==
    ASSUME IInv, TypeOK', UpdateStatusWithProgressing
    PROVE  IInv' /\ Advances(task, task')
  <1> USE DEF IInv
  <1>1. PICK i \in FirstFree(tTask), ok \in BOOLEAN :
          /\ UpdateStatus(tFresh, WithSliceScheduled(tTask, i), ok)
          /\ tTask' = WithSliceScheduled(tTask, i)
          /\ tFresh' = (tFresh /\ (ok \/ task' = task))
          /\ IF ok THEN tPc' \in NextStage("status", WithSliceScheduled(tTask, i))
                   ELSE tPc' = "finalize"
    BY DEF UpdateStatusWithProgressing
  <1> DEFINE new == WithSliceScheduled(tTask, i)
  <1>2. /\ tPc = "status" /\ (jFresh' => jFresh /\ task' = task)
        /\ UNCHANGED <<cache, jobs, jPc, jJob, jTask>>
    BY DEF UpdateStatusWithProgressing
  <1>3. /\ tTask \in Tasks /\ task \in Tasks /\ task' \in Tasks /\ new \in Tasks
        /\ i \in Indexes
    BY <1>1, FirstFreeIsNext DEF TypeOK
  <1>4. /\ Sound(tTask) /\ NextSliceDetermined(tTask) /\ (tFresh => tTask = task)
        /\ jobs[Slice(i)] # "none" /\ (tTask.ready => cache.ready)
    BY <1>2 DEF TaskCopyOlder, Due, Stages
  <1>5. Advances(tTask, new) /\ Sound(new)
    BY <1>3, <1>4, SchedulingAdvances
  <1>6. /\ new.scheduled = tTask.scheduled \cup {i} /\ new.finished = tTask.finished
        /\ new.ready = tTask.ready
    BY <1>3 DEF WithSliceScheduled, Tasks
  <1>7. (UNCHANGED apiVars \/ (tFresh /\ Store(new))) /\ (ok => tFresh /\ Store(new))
    BY <1>1, UpdateWritesOrNot
  <1>8. tFresh => Advances(task, new)
    BY <1>4, <1>5
  <1>9. (tFresh /\ task' = new) \/ task' = task
    BY <1>7 DEF Store, apiVars
  <1>10. VersionsOlder' /\ ReadySpreads'
    <2>1. CASE UNCHANGED apiVars
      BY <1>2, <2>1 DEF VersionsOlder, ReadySpreads, apiVars
    <2>2. CASE tFresh /\ Store(new)
      BY <1>2, <1>3, <1>5, <1>8, <2>2, WriteKeepsVersions
    <2> QED
      BY <1>7, <2>1, <2>2
  <1>11. Advances(task, task')
    BY <1>3, <1>8, <1>9, AdvancesReflexive
  <1>12. ok => task' = new
    BY <1>7 DEF Store
  <1>13. /\ tPc' \in {"cleanup", "delete", "finalize"}
         /\ tPc' # "finalize" => ok /\ Due(tPc', new)
    BY <1>1, NextStageFacts DEF Stages
  <1>14. TaskCopyOlder'
    <2>1. tPc' # "finalize" => Older(new, task')
      BY <1>3, <1>12, <1>13, OlderReflexive
    <2>2. tFresh' => /\ Advances(task', new) /\ new.finished = task'.finished
                     /\ \A x \in new.scheduled \ task'.scheduled : x = i
      <3>1. CASE ok
        BY <1>3, <1>12, <3>1, AdvancesReflexive
      <3>2. CASE ~ ok
        BY <1>1, <1>4, <1>6, <1>8, <3>2
      <3> QED
        BY <3>1, <3>2
    <2>3. tPc' # "finalize" /\ tFresh' => new = task'
      BY <1>12, <1>13
    <2> QED
      BY <1>1, <1>2, <1>4, <1>5, <1>6, <1>13, <2>1, <2>2, <2>3 DEF TaskCopyOlder, Stages
  <1>15. JobCopyCurrent'
    BY <1>2 DEF JobCopyCurrent
  <1>16. JobsBacked'
    <2>1. jJob \in Jobs
      BY DEF TypeOK
    <2> QED
      BY <1>2, <1>11, <2>1, WriteKeepsBacked DEF JobsBacked
  <1>17. SliceJobsKept'
    <2>1. Deleted' = Deleted
      BY <1>1, <1>2, <1>6, <1>13 DEF Deleted, Stages
    <2>2. /\ \A x \in task'.scheduled : x \in task.scheduled \/ x = i
          /\ task'.finished = task.finished
      BY <1>4, <1>6, <1>9
    <2> QED
      BY <1>2, <1>4, <2>1, <2>2 DEF SliceJobsKept
  <1> QED
    BY <1>10, <1>14, <1>15, <1>16, <1>17, <1>11

\* The finalizer writes what the pipeline left behind.
LEMMA FailureConditionKeeps ==
    ASSUME IInv, TypeOK', SetFailureCondition
    PROVE  IInv' /\ Advances(task, task')
  <1> USE DEF IInv
  <1> DEFINE new == [tTask EXCEPT !.failed = tErr]
  <1>1. PICK ok \in BOOLEAN : UpdateStatus(tFresh, new, ok)
    BY DEF SetFailureCondition
  <1>2. /\ tPc = "finalize" /\ tPc' = "idle" /\ tFresh' = FALSE
        /\ jFresh' => jFresh /\ task' = task
        /\ UNCHANGED <<cache, jobs, jPc, jJob, jTask>>
    BY DEF SetFailureCondition
  <1>3. tTask \in Tasks /\ task \in Tasks /\ task' \in Tasks /\ tErr \in BOOLEAN
    BY DEF TypeOK
  <1>4. new.scheduled = tTask.scheduled /\ new.finished = tTask.finished
    BY <1>3 DEF Tasks
  <1>5. UNCHANGED apiVars \/ (tFresh /\ Store(new))
    BY <1>1, UpdateWritesOrNot
  <1>6. tFresh => /\ Advances(task, new) /\ Sound(new) /\ new \in Tasks
                  /\ new.finished = task.finished
                  /\ \A x \in new.scheduled \ task.scheduled : jobs[Slice(x)] # "none"
    <2>1. tFresh => /\ Advances(task, tTask) /\ Sound(tTask) /\ tTask.finished = task.finished
                    /\ \A x \in tTask.scheduled \ task.scheduled : jobs[Slice(x)] # "none"
      BY DEF TaskCopyOlder
    <2> QED
      BY <1>3, <1>4, <2>1, FailureAdvances
  <1>7. (tFresh /\ task' = new) \/ task' = task
    BY <1>5 DEF Store, apiVars
  <1>8. VersionsOlder' /\ ReadySpreads'
    <2>1. CASE UNCHANGED apiVars
      BY <1>2, <2>1 DEF VersionsOlder, ReadySpreads, apiVars
    <2>2. CASE tFresh /\ Store(new)
      BY <1>2, <1>6, <2>2, WriteKeepsVersions
    <2> QED
      BY <1>5, <2>1, <2>2
  <1>9. Advances(task, task')
    BY <1>3, <1>6, <1>7, AdvancesReflexive
  <1>10. TaskCopyOlder'
    BY <1>2 DEF TaskCopyOlder, Stages
  <1>11. JobCopyCurrent'
    BY <1>2 DEF JobCopyCurrent
  <1>12. JobsBacked'
    <2>1. jJob \in Jobs
      BY DEF TypeOK
    <2> QED
      BY <1>2, <1>9, <2>1, WriteKeepsBacked DEF JobsBacked
  <1>13. SliceJobsKept'
    <2>1. Deleted => Deleted'
      BY <1>2 DEF Deleted, Stages
    <2>2. /\ \A x \in task'.scheduled : x \in task.scheduled \/ jobs[Slice(x)] # "none"
          /\ task'.finished = task.finished
      BY <1>6, <1>7
    <2> QED
      BY <1>2, <2>1, <2>2 DEF SliceJobsKept
  <1> QED
    BY <1>8, <1>10, <1>11, <1>12, <1>13, <1>9

\* The job reconciler records a completion.
LEMMA RecordingKeeps ==
    ASSUME IInv, TypeOK', UpdateTaskStatus
    PROVE  IInv' /\ Advances(task, task')
  <1> USE DEF IInv
  <1> DEFINE new == WithJobComplete(jTask, jJob)
  <1>1. PICK ok \in BOOLEAN : UpdateStatus(jFresh, new, ok)
    BY DEF UpdateTaskStatus
  <1>2. /\ jPc = "update" /\ jPc' = "idle" /\ jFresh' = FALSE
        /\ tFresh' => tFresh /\ task' = task
        /\ UNCHANGED <<cache, jobs, tPc, tTask>>
    BY DEF UpdateTaskStatus
  <1>3. jTask \in Tasks /\ jJob \in Jobs /\ task \in Tasks /\ task' \in Tasks /\ new \in Tasks
    BY CopiesType DEF TypeOK
  <1>4. jFresh => jTask = task
    BY DEF JobCopyCurrent
  <1>5. Backed(jJob)
    BY <1>2 DEF JobsBacked
  <1>6. jFresh => Advances(task, new) /\ Sound(new)
    <2>1. /\ Sound(task)
          /\ jJob = Merge => task.progressing = "false"
          /\ jJob = Cleanup => task.merged
          /\ \A i \in Indexes : jJob = Slice(i) => task.planned > 0
      BY <1>5 DEF VersionsOlder, Backed
    <2> QED
      BY <1>3, <1>4, <2>1, CompletionAdvances
  <1>7. UNCHANGED apiVars \/ (jFresh /\ Store(new))
    BY <1>1, UpdateWritesOrNot
  <1>8. (jFresh /\ task' = new) \/ task' = task
    BY <1>7 DEF Store, apiVars
  <1>9. VersionsOlder' /\ ReadySpreads'
    <2>1. CASE UNCHANGED apiVars
      BY <1>2, <2>1 DEF VersionsOlder, ReadySpreads, apiVars
    <2>2. CASE jFresh /\ Store(new)
      BY <1>2, <1>3, <1>6, <2>2, WriteKeepsVersions
    <2> QED
      BY <1>7, <2>1, <2>2
  <1>10. Advances(task, task')
    BY <1>3, <1>6, <1>8, AdvancesReflexive
  <1>11. TaskCopyOlder'
    BY <1>2, <1>10, WriteKeepsTaskCopy
  <1>12. JobCopyCurrent'
    BY <1>2 DEF JobCopyCurrent
  <1>13. JobsBacked'
    BY <1>2, <1>10, WriteKeepsBacked DEF JobsBacked
  <1>14. /\ task'.scheduled \subseteq task.scheduled
         /\ \A i \in task'.finished : i \in task.finished \/ (i \in Indexes /\ jJob = Slice(i))
    <2>1. CASE task' = task
      BY <2>1
    <2>2. CASE jFresh /\ task' = new
      <3>1. CASE jJob \in {Split, Count, Merge, Cleanup}
        <4>1. new.scheduled = jTask.scheduled /\ new.finished = jTask.finished
          BY <1>3, <3>1 DEF WithJobComplete, Tasks, Split, Count, Merge, Cleanup
        <4> QED
          BY <1>4, <2>2, <4>1
      <3>2. CASE \E i \in Indexes : jJob = Slice(i)
        <4>1. PICK i \in Indexes : jJob = Slice(i)
          BY <3>2
        <4>2. new = WithSliceFinished(jTask, i)
          BY <4>1 DEF WithJobComplete, Slice, Split, Count, Merge, Cleanup
        <4>3. /\ new.scheduled = jTask.scheduled \ {i}
              /\ new.finished = jTask.finished \cup {i}
          BY <1>3, <4>2 DEF WithSliceFinished, Tasks
        <4> QED
          BY <1>4, <2>2, <4>1, <4>3
      <3> QED
        BY <1>3, <3>1, <3>2, JobNames
    <2> QED
      BY <1>8, <2>1, <2>2
  <1>15. SliceJobsKept'
    <2>1. Deleted' = Deleted
      BY <1>2 DEF Deleted
    <2>2. \A i \in Indexes : jJob = Slice(i) =>
            jobs[jJob] = "complete" \/ (jobs[jJob] = "none" /\ Deleted)
      BY <1>2 DEF SliceJobsKept
    <2> QED
      BY <1>2, <1>14, <2>1, <2>2 DEF SliceJobsKept
  <1> QED
    BY <1>9, <1>11, <1>12, <1>13, <1>15, <1>10

\* The count command patches the plan.
LEMMA CountReportsKeeps ==
    ASSUME IInv, TypeOK', CountReports
    PROVE  IInv' /\ Advances(task, task')
  <1> USE DEF IInv
  <1>1. PICK n \in 1 .. (IF task.planned = 0 THEN MaxSlices ELSE task.planned) :
          Store([task EXCEPT !.planned = n])
    BY DEF CountReports
  <1> DEFINE new == [task EXCEPT !.planned = n]
  <1>2. /\ jobs[Count] = "active" /\ jobs' = [jobs EXCEPT ![Count] = "reported"]
        /\ tFresh' => tFresh /\ task' = task
        /\ jFresh' => jFresh /\ task' = task
        /\ UNCHANGED <<cache, tPc, tTask, jPc, jJob, jTask>>
    BY DEF CountReports
  <1>3. task \in Tasks /\ task' = new
    BY <1>1 DEF TypeOK, Store
  <1>4. Advances(task, new) /\ Sound(new) /\ new \in Tasks
    BY <1>3, CountingAdvances DEF VersionsOlder
  <1>5. VersionsOlder' /\ ReadySpreads'
    BY <1>1, <1>2, <1>4, WriteKeepsVersions
  <1>6. /\ \A x \in Jobs : jobs'[x] # "none" <=> jobs[x] # "none"
        /\ \A i \in Indexes : jobs'[Slice(i)] = jobs[Slice(i)]
    BY <1>2, JobNames, JobsDiffer DEF TypeOK
  <1>7. TaskCopyOlder'
    BY <1>2, <1>3, <1>4, <1>6, WriteKeepsTaskCopy
  <1>8. JobCopyCurrent'
    BY <1>2 DEF JobCopyCurrent
  <1>9. JobsBacked'
    <2>1. jJob \in Jobs
      BY DEF TypeOK
    <2> QED
      BY <1>2, <1>3, <1>4, <1>6, <2>1, WriteKeepsBacked DEF JobsBacked
  <1>10. SliceJobsKept'
    <2>1. new.scheduled = task.scheduled /\ new.finished = task.finished
      BY <1>3 DEF Tasks
    <2>2. /\ \A i \in task.scheduled : i \in Indexes
          /\ \A i \in task.finished : i \in Indexes
      BY <1>3, ListsFinite
    <2>3. Deleted' = Deleted
      BY <1>2 DEF Deleted
    <2> QED
      BY <1>2, <1>3, <1>6, <2>1, <2>2, <2>3 DEF SliceJobsKept
  <1> QED
    BY <1>5, <1>7, <1>8, <1>9, <1>10, <1>3, <1>4

\* A pod ends.
LEMMA JobEndsKeeps ==
    ASSUME IInv, TypeOK', NEW job \in Jobs, JobCompletes(job) \/ JobFails(job)
    PROVE  IInv'
  <1> USE DEF IInv
  <1>1. PICK state \in {"complete", "failed"} : JobEnds(job, state)
    BY DEF JobCompletes, JobFails
  <1>2. /\ jobs' = [jobs EXCEPT ![job] = state]
        /\ UNCHANGED <<task, events, cache, tPc, tTask, tFresh, jPc, jJob, jTask, jFresh>>
    BY <1>1 DEF JobEnds, apiVars, tVars, jVars
  <1>3. jobs[job] # "none" /\ jobs[job] # "complete"
    BY DEF JobCompletes, JobFails
  <1>4. /\ \A x \in Jobs : jobs'[x] # "none" <=> jobs[x] # "none"
        /\ \A x \in Jobs : jobs[x] \in {"none", "complete"} => jobs'[x] = jobs[x]
    BY <1>2, <1>3 DEF TypeOK
  <1>5. task \in Tasks /\ jJob \in Jobs /\ tTask \in Tasks
    BY DEF TypeOK
  <1>6. VersionsOlder' /\ ReadySpreads'
    BY <1>2 DEF VersionsOlder, ReadySpreads
  <1>7. TaskCopyOlder'
    <2>1. \A i \in Indexes : jobs[Slice(i)] # "none" => jobs'[Slice(i)] # "none"
      BY <1>4, JobNames
    <2> QED
      BY <1>2, <1>5, <2>1, AdvancesReflexive, WriteKeepsTaskCopy
  <1>8. JobCopyCurrent'
    BY <1>2 DEF JobCopyCurrent
  <1>9. JobsBacked'
    BY <1>2, <1>4, <1>5 DEF JobsBacked, Backed
  <1>10. SliceJobsKept'
    <2>1. /\ \A i \in task.scheduled : Slice(i) \in Jobs
          /\ \A i \in task.finished : Slice(i) \in Jobs
      BY <1>5, ListsFinite, JobNames
    <2>2. Deleted' = Deleted
      BY <1>2 DEF Deleted
    <2> QED
      BY <1>2, <1>4, <1>5, <2>1, <2>2 DEF SliceJobsKept
  <1> QED
    BY <1>6, <1>7, <1>8, <1>9, <1>10

\* The operator starts anew.
LEMMA RestartKeeps ==
    ASSUME IInv, TypeOK', Restart
    PROVE  IInv'
  <1> USE DEF IInv
  <1>1. /\ cache' = task /\ events' = <<>>
        /\ tPc' = "idle" /\ tFresh' = FALSE
        /\ jPc' = "idle" /\ jFresh' = FALSE
        /\ UNCHANGED <<task, jobs>>
    BY DEF Restart
  <1>2. task \in Tasks /\ Sound(task) /\ Len(events') = 0
    BY <1>1 DEF TypeOK, VersionsOlder
  <1>3. VersionsOlder' /\ ReadySpreads'
    BY <1>1, <1>2, OlderReflexive DEF VersionsOlder, ReadySpreads
  <1>4. TaskCopyOlder' /\ JobCopyCurrent'
    BY <1>1 DEF TaskCopyOlder, JobCopyCurrent, Stages
  <1>5. JobsBacked'
    BY <1>1 DEF JobsBacked, Backed
  <1>6. Deleted => Deleted'
    BY <1>1 DEF Deleted, VersionsOlder, Older, Stages
  <1>7. SliceJobsKept'
    BY <1>1, <1>6 DEF SliceJobsKept
  <1> QED
    BY <1>3, <1>4, <1>5, <1>7

LEMMA InvNext == IInv /\ [Next]_vars => IInv'
  <1> SUFFICES ASSUME IInv, [Next]_vars PROVE IInv'
    OBVIOUS
  <1>1. TypeOK'
    BY TypeNext DEF IInv
  <1>2. CASE TaskEvent
    BY <1>1, <1>2, TaskEventKeeps
  <1>3. CASE TaskReconcile
    BY <1>1, <1>3, ReadersKeep, CreatorsKeep, CleanupJobsKeeps, BookingKeeps,
       FailureConditionKeeps DEF TaskReconcile
  <1>4. CASE JobReconcile
    BY <1>1, <1>4, ReadersKeep, RecordingKeeps DEF JobReconcile
  <1>5. CASE Pods
    BY <1>1, <1>5, CountReportsKeeps, JobEndsKeeps DEF Pods
  <1>6. CASE Restart
    BY <1>1, <1>6, RestartKeeps
  <1>7. CASE Resync
    BY <1>1, <1>7, ReadersKeep
  <1>8. CASE UNCHANGED vars
    BY <1>1, <1>8 DEF vars, apiVars, tVars, jVars, IInv, VersionsOlder, ReadySpreads,
       TaskCopyOlder, JobCopyCurrent, JobsBacked, Backed, SliceJobsKept, Deleted
  <1> QED
    BY <1>2, <1>3, <1>4, <1>5, <1>6, <1>7, <1>8 DEF Next

\* The invariant holds in every reachable state.
THEOREM Invariance == Spec => []IInv
  BY InvInit, InvNext, PTL DEF Spec

-----------------------------------------------------------------------------
(* What follows for the safety properties.                                 *)

\* At most MaxCount slice Jobs run at a time, whatever the reconcilers' copies,
\* conflicts, lost updates and restarts (determineNextSliceIndex).
THEOREM ConcurrencyLimited == Spec => []ConcurrencyLimit
  <1> DEFINE active == {i \in Indexes : jobs[Slice(i)] = "active"}
  <1>1. ASSUME IInv, MaxCount # Unlimited
        PROVE  Cardinality(active) <= MaxCount
    <2> USE <1>1 DEF IInv
    <2>1. task \in Tasks /\ Sound(task) /\ MaxCount \in Nat
      BY CountAssumption DEF TypeOK, VersionsOlder
    <2>2. ASSUME NEW i \in active, i \notin task.scheduled
          PROVE  IsNext(task, i) /\ SlotFree(task)
      <3>1. jobs[Slice(i)] = "active" /\ Backed(Slice(i))
        BY JobNames DEF JobsBacked
      <3>2. i \notin task.finished
        BY <3>1 DEF SliceJobsKept
      <3> QED
        BY <2>2, <3>1, <3>2 DEF Backed, Booked
    <2>3. CASE active \subseteq task.scheduled
      <3>1. Cardinality(active) <= Cardinality(task.scheduled) /\ Cardinality(active) \in Nat
        BY <2>1, <2>3, ListsFinite, FS_Subset, FS_CardinalityType
      <3> QED
        BY <2>1, <3>1, ListsFinite DEF Sound
    <2>4. CASE \E n \in active : n \notin task.scheduled
      <3>1. PICK n \in active : n \notin task.scheduled
        BY <2>4
      <3>2. active \subseteq task.scheduled \cup {n}
        BY <2>2, <3>1, NextIsUnique
      <3>3. Cardinality(task.scheduled) < MaxCount
        BY <2>2, <3>1, <1>1 DEF SlotFree
      <3>4. /\ IsFiniteSet(task.scheduled \cup {n})
            /\ Cardinality(task.scheduled \cup {n}) = Cardinality(task.scheduled) + 1
        BY <2>1, <3>1, ListsFinite, FS_AddElement
      <3>5. /\ Cardinality(active) <= Cardinality(task.scheduled \cup {n})
            /\ Cardinality(active) \in Nat
        BY <3>2, <3>4, FS_Subset, FS_CardinalityType
      <3> QED
        BY <2>1, <3>3, <3>4, <3>5, ListsFinite
    <2> QED
      BY <2>3, <2>4
  <1>2. IInv => ConcurrencyLimit
    BY <1>1 DEF ConcurrencyLimit
  <1> QED
    BY <1>2, Invariance, PTL

\* No slice is scheduled and finished (updateStatusWithSlicesFinished).
THEOREM ListsStayDisjoint == Spec => []ListsDisjoint
  <1>1. IInv => ListsDisjoint
    BY DEF IInv, VersionsOlder, Sound, ListsDisjoint
  <1> QED
    BY <1>1, Invariance, PTL

\* What the status says of a slice is backed by its Job (createSliceJob before
\* updateStatusWithProgressing, isJobComplete before the recording).
THEOREM BookingsBacked == Spec => []BookingsBackedByJobs
  <1>1. ASSUME IInv, ~ task.ready PROVE ~ Deleted
    BY <1>1 DEF IInv, VersionsOlder, Older, Deleted
  <1>2. IInv => BookingsBackedByJobs
    BY <1>1 DEF IInv, SliceJobsKept, BookingsBackedByJobs
  <1> QED
    BY <1>2, Invariance, PTL

\* The stages follow one another (the pipeline of Provision).
THEOREM StagesFollow == Spec => []StagesInOrder
  <1>1. ASSUME IInv PROVE StagesInOrder
    <2>1. Sound(task) /\ \A job \in Jobs : jobs[job] # "none" => Backed(job)
      BY <1>1 DEF IInv, VersionsOlder, JobsBacked
    <2> QED
      BY <2>1, JobNames, JobsDiffer DEF StagesInOrder, Sound, Backed
  <1> QED
    BY <1>1, Invariance, PTL

\* No write takes anything back, whatever copy it is made from (Status().Update
\* with the cached resourceVersion).
THEOREM StatusGrows == Spec => StatusOnlyGrows
  <1>1. ASSUME IInv, [Next]_vars PROVE [Grows(task, task')]_task
    <2>1. TypeOK'
      BY <1>1, TypeNext DEF IInv
    <2>2. CASE UpdateStatusWithProgressing
      BY <1>1, <2>1, <2>2, BookingKeeps DEF Advances
    <2>3. CASE SetFailureCondition
      BY <1>1, <2>1, <2>3, FailureConditionKeeps DEF Advances
    <2>4. CASE UpdateTaskStatus
      BY <1>1, <2>1, <2>4, RecordingKeeps DEF Advances
    <2>5. CASE CountReports
      BY <1>1, <2>1, <2>5, CountReportsKeeps DEF Advances
    <2>6. CASE task' = task
      BY <2>6
    <2> QED
      BY <1>1, <2>2, <2>3, <2>4, <2>5, <2>6
      DEF Next, TaskReconcile, JobReconcile, Pods, TaskEvent, TaskPop, TaskGet,
          CreateSplitJob, EnsureCountJob, CreateMergeJob, CreateSliceJob, EnsureCleanupJob,
          EnsureJob, CleanupJobs, JobPop, JobGet, FetchTask, JobCompletes, JobFails, JobEnds,
          Restart, Resync, vars, apiVars
  <1> QED
    BY <1>1, Invariance, PTL DEF Spec, StatusOnlyGrows
=============================================================================
