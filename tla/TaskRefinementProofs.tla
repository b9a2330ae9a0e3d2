------------------------ MODULE TaskRefinementProofs ------------------------
(***************************************************************************)
(* The operator implements TaskProgress: every write of either worker,     *)
(* made from a cached copy, is one of its steps on the stored Task, and no *)
(* other step changes what TaskProgress sees.                              *)
(***************************************************************************)
EXTENDS TaskSafetyProofs

(* The phases of the mapping.                                              *)

\* A Task with a plan is encoding or further; without one it is new or split.
LEMMA PhasesSeparate ==
    ASSUME NEW t \in Tasks, Sound(t)
    PROVE  /\ t.ready <=> PhaseOf(t) = "ready"
           /\ t.merged /\ ~ t.ready <=> PhaseOf(t) = "merged"
           /\ t.progressing = "false" /\ ~ t.merged <=> PhaseOf(t) = "encoded"
           /\ t.progressing # "false" /\ t.planned > 0 <=> PhaseOf(t) = "encoding"
           /\ t.planned = 0 /\ t.split <=> PhaseOf(t) = "split"
           /\ t.planned = 0 /\ ~ t.split <=> PhaseOf(t) = "new"
  <1>1. t.planned \in Nat /\ t.split \in BOOLEAN /\ t.merged \in BOOLEAN /\ t.ready \in BOOLEAN
    BY DEF Tasks
  <1>2. /\ t.progressing = "false" => t.planned > 0
        /\ t.merged => t.progressing = "false"
        /\ t.ready => t.merged
    BY DEF Sound
  <1>3. CASE t.ready
    BY <1>1, <1>2, <1>3 DEF PhaseOf
  <1>4. CASE ~ t.ready /\ t.merged
    BY <1>1, <1>2, <1>4 DEF PhaseOf
  <1>5. CASE ~ t.ready /\ ~ t.merged /\ t.progressing = "false"
    BY <1>1, <1>2, <1>5 DEF PhaseOf
  <1>6. CASE ~ t.ready /\ ~ t.merged /\ t.progressing # "false" /\ t.planned > 0
    BY <1>1, <1>2, <1>6 DEF PhaseOf
  <1>7. CASE ~ t.ready /\ ~ t.merged /\ t.progressing # "false" /\ t.planned = 0 /\ t.split
    BY <1>1, <1>2, <1>7 DEF PhaseOf
  <1>8. CASE ~ t.ready /\ ~ t.merged /\ t.progressing # "false" /\ t.planned = 0 /\ ~ t.split
    BY <1>1, <1>2, <1>8 DEF PhaseOf
  <1> QED
    BY <1>1, <1>3, <1>4, <1>5, <1>6, <1>7, <1>8

\* Both modules count with the same operator.
LEMMA SameCardinality == \A S : Promise!Cardinality(S) = Cardinality(S)
  BY DEF Cardinality, Promise!Cardinality

\* The Failed condition is no part of the mapping.
LEMMA FailureUnseen ==
    ASSUME NEW t \in Tasks, NEW b \in BOOLEAN
    PROVE  LET u == [t EXCEPT !.failed = b] IN
           /\ PhaseOf(u) = PhaseOf(t) /\ u.planned = t.planned
           /\ u.scheduled = t.scheduled /\ u.finished = t.finished
           /\ u.finishedCount = t.finishedCount
  <1> DEFINE u == [t EXCEPT !.failed = b]
  <1>1. /\ u.planned = t.planned /\ u.scheduled = t.scheduled /\ u.finished = t.finished
        /\ u.finishedCount = t.finishedCount /\ u.progressing = t.progressing
        /\ u.split = t.split /\ u.merged = t.merged /\ u.ready = t.ready
    BY DEF Tasks
  <1> QED
    BY <1>1 DEF PhaseOf

-----------------------------------------------------------------------------
(* The writes, as steps of TaskProgress.                                   *)

\* A booking is Schedule, whether or not Failed is written with it.
LEMMA BookingIsSchedule ==
    ASSUME task \in Tasks, Sound(task), NextSliceDetermined(task),
           NEW i \in FirstFree(task), NEW b \in BOOLEAN,
           \/ task' = WithSliceScheduled(task, i)
           \/ task' = [WithSliceScheduled(task, i) EXCEPT !.failed = b]
    PROVE  Promise!Schedule
  <1> DEFINE new == WithSliceScheduled(task, i)
  <1>1. Sound(new)
    BY SchedulingAdvances
  <1>2. i \in Indexes /\ IsNext(task, i) /\ task.planned > 0 /\ i \in 0 .. (task.planned - 1)
    BY FirstFreeIsNext DEF FirstFree
  <1>3. new \in Tasks
    BY CopiesType
  <1>4. /\ new.scheduled = task.scheduled \cup {i} /\ new.progressing = "true"
        /\ new.finished = task.finished /\ new.finishedCount = task.finishedCount
        /\ new.planned = task.planned
    BY DEF WithSliceScheduled, Tasks
  <1>5. PhaseOf(new) = "encoding"
    BY <1>1, <1>2, <1>3, <1>4, PhasesSeparate
  <1>6. /\ PhaseOf(task') = PhaseOf(new) /\ task'.planned = new.planned
        /\ task'.scheduled = new.scheduled /\ task'.finished = new.finished
        /\ task'.finishedCount = new.finishedCount
    BY <1>3, FailureUnseen
  <1>7. PhaseOf(task) = "encoding"
    <2>1. task.progressing # "false"
      <3>1. task.finishedCount \in Nat /\ task.planned \in Nat
        BY DEF Tasks
      <3> QED
        BY <3>1 DEF Sound, NextSliceDetermined, PartialSlicesFinished
    <2> QED
      BY <1>2, <2>1, PhasesSeparate
  <1>8. Promise!HasSlot
    BY SameCardinality DEF NextSliceDetermined, SlotFree, Promise!HasSlot
  <1>9. Promise!IsNext(i)
    BY <1>2 DEF IsNext, Booked, Promise!IsNext
  <1> QED
    BY <1>2, <1>4, <1>5, <1>6, <1>7, <1>8, <1>9 DEF Promise!Schedule

\* The completion of a slice is Finish, the first time and again.
LEMMA RecordingIsFinish ==
    ASSUME task \in Tasks, Sound(task), NEW i \in Indexes, Backed(Slice(i)),
           task' = WithSliceFinished(task, i)
    PROVE  Promise!Finish(i)
  <1>1. /\ task'.scheduled = task.scheduled \ {i} /\ task'.finished = task.finished \cup {i}
        /\ task'.finishedCount = task.finishedCount + 1
        /\ task'.progressing = IF task.finishedCount + 1 >= task.planned
                               THEN "false" ELSE task.progressing
        /\ task'.planned = task.planned /\ task'.split = task.split
        /\ task'.merged = task.merged /\ task'.ready = task.ready
    BY DEF WithSliceFinished, Tasks
  <1>2. task.planned > 0 /\ (i \notin Booked(task) => IsNext(task, i) /\ SlotFree(task))
    BY DEF Backed
  <1>3. task' \in Tasks /\ Sound(task')
    <2>1. WithJobComplete(task, Slice(i)) = WithSliceFinished(task, i)
      BY DEF WithJobComplete, Slice, Split, Count, Merge, Cleanup
    <2> QED
      BY <1>2, <2>1, FinishingAdvances, CopiesType, JobNames
  <1>4. PhaseOf(task) \notin {"new", "split"}
    <2>1. task.planned # 0
      BY <1>2 DEF Tasks
    <2> QED
      BY <2>1, PhasesSeparate
  <1>5. i \in task.scheduled \cup task.finished \/ (Promise!IsNext(i) /\ Promise!HasSlot)
    BY <1>2, SameCardinality DEF IsNext, SlotFree, Booked, Promise!IsNext, Promise!HasSlot
  <1>6. PhaseOf(task') = IF PhaseOf(task) = "encoding" /\ task'.finishedCount >= task.planned
                         THEN "encoded" ELSE PhaseOf(task)
    <2>1. CASE PhaseOf(task) = "encoding" /\ task'.finishedCount >= task.planned
      <3>1. task'.progressing = "false" /\ ~ task'.merged
        BY <1>1, <2>1, PhasesSeparate DEF Sound
      <3> QED
        BY <1>3, <2>1, <3>1, PhasesSeparate
    <2>2. CASE PhaseOf(task) = "encoding" /\ ~ (task'.finishedCount >= task.planned)
      <3>1. task'.progressing # "false" /\ task'.planned > 0
        BY <1>1, <1>2, <2>2, PhasesSeparate
      <3> QED
        BY <1>3, <2>2, <3>1, PhasesSeparate
    <2>3. CASE PhaseOf(task) # "encoding"
      <3>1. task.progressing = "false" /\ task'.progressing = "false"
        BY <1>1, <1>2, <2>3, PhasesSeparate
      <3> QED
        BY <1>1, <2>3, <3>1 DEF PhaseOf
    <2> QED
      BY <2>1, <2>2, <2>3
  <1> QED
    BY <1>1, <1>4, <1>5, <1>6 DEF Promise!Finish

\* The completion of another Job is the next phase, or nothing new.
LEMMA StageIsPhase ==
    ASSUME task \in Tasks, Sound(task), NEW job \in {Split, Count, Merge, Cleanup},
           Backed(job), task' = WithJobComplete(task, job)
    PROVE  \/ Promise!SplitUp \/ Promise!JoinUp \/ Promise!CleanUp
           \/ UNCHANGED Promise!progressVars
  <1> USE DEF Promise!progressVars
  <1>1. CASE job = Split
    <2>1. /\ task'.split /\ task'.planned = task.planned
          /\ task'.scheduled = task.scheduled /\ task'.finished = task.finished
          /\ task'.finishedCount = task.finishedCount /\ task'.progressing = task.progressing
          /\ task'.merged = task.merged /\ task'.ready = task.ready
      <3>1. task' = [task EXCEPT !.split = TRUE]
        BY <1>1 DEF WithJobComplete, Split, Count, Merge, Cleanup
      <3> QED
        BY <3>1 DEF Tasks
    <2>2. CASE PhaseOf(task) = "new"
      <3>1. PhaseOf(task') = "split"
        <4>1. task' \in Tasks /\ Sound(task')
          BY <1>1, <2>1, CopiesType, JobNames DEF Sound
        <4> QED
          BY <2>1, <2>2, <4>1, PhasesSeparate
      <3> QED
        BY <2>1, <2>2, <3>1 DEF Promise!SplitUp
    <2>3. CASE PhaseOf(task) # "new"
      <3>1. PhaseOf(task') = PhaseOf(task)
        BY <2>1, <2>3 DEF PhaseOf
      <3> QED
        BY <2>1, <3>1
    <2> QED
      BY <2>2, <2>3
  <1>2. CASE job = Count
    <2>1. /\ task'.split = task.split /\ task'.planned = task.planned
          /\ task'.scheduled = task.scheduled /\ task'.finished = task.finished
          /\ task'.finishedCount = task.finishedCount /\ task'.progressing = task.progressing
          /\ task'.merged = task.merged /\ task'.ready = task.ready
      <3>1. task' = [task EXCEPT !.counted = TRUE]
        BY <1>2 DEF WithJobComplete, Split, Count, Merge, Cleanup
      <3> QED
        BY <3>1 DEF Tasks
    <2> QED
      BY <2>1 DEF PhaseOf
  <1>3. CASE job = Merge
    <2>1. /\ task'.split = task.split /\ task'.planned = task.planned
          /\ task'.scheduled = task.scheduled /\ task'.finished = task.finished
          /\ task'.finishedCount = task.finishedCount /\ task'.progressing = task.progressing
          /\ task'.merged /\ task'.ready = task.ready
      <3>1. task' = [task EXCEPT !.merged = TRUE]
        BY <1>3 DEF WithJobComplete, Split, Count, Merge, Cleanup
      <3> QED
        BY <3>1 DEF Tasks
    <2>2. task.progressing = "false"
      BY <1>3 DEF Backed
    <2>3. CASE task.ready \/ task.merged
      BY <2>1, <2>3 DEF PhaseOf
    <2>4. CASE ~ task.ready /\ ~ task.merged
      <3>1. PhaseOf(task) = "encoded" /\ PhaseOf(task') = "merged"
        BY <2>1, <2>2, <2>4 DEF PhaseOf
      <3> QED
        BY <2>1, <3>1 DEF Promise!JoinUp
    <2> QED
      BY <2>3, <2>4
  <1>4. CASE job = Cleanup
    <2>1. /\ task'.split = task.split /\ task'.planned = task.planned
          /\ task'.scheduled = task.scheduled /\ task'.finished = task.finished
          /\ task'.finishedCount = task.finishedCount /\ task'.progressing = task.progressing
          /\ task'.merged = task.merged /\ task'.ready
      <3>1. task' = [task EXCEPT !.ready = TRUE]
        BY <1>4 DEF WithJobComplete, Split, Count, Merge, Cleanup
      <3> QED
        BY <3>1 DEF Tasks
    <2>2. task.merged
      BY <1>4 DEF Backed
    <2>3. CASE task.ready
      BY <2>1, <2>3 DEF PhaseOf
    <2>4. CASE ~ task.ready
      <3>1. PhaseOf(task) = "merged" /\ PhaseOf(task') = "ready"
        BY <2>1, <2>2, <2>4 DEF PhaseOf
      <3> QED
        BY <2>1, <3>1 DEF Promise!CleanUp
    <2> QED
      BY <2>3, <2>4
  <1> QED
    BY <1>1, <1>2, <1>3, <1>4

\* The count's patch is Plan, or Recount once the Task is Ready.
LEMMA PatchIsPlan ==
    ASSUME task \in Tasks, Sound(task), task.split, task.planned > 0 => task.ready,
           NEW n \in 1 .. (IF task.planned = 0 THEN MaxSlices ELSE task.planned),
           task' = [task EXCEPT !.planned = n]
    PROVE  Promise!Plan \/ Promise!Recount \/ UNCHANGED Promise!progressVars
  <1>1. /\ task'.split = task.split /\ task'.planned = n
        /\ task'.scheduled = task.scheduled /\ task'.finished = task.finished
        /\ task'.finishedCount = task.finishedCount /\ task'.progressing = task.progressing
        /\ task'.merged = task.merged /\ task'.ready = task.ready
    BY DEF Tasks
  <1>2. task' \in Tasks /\ Sound(task')
    BY CountingAdvances
  <1>3. task.planned \in Nat /\ n \in Nat /\ n > 0
    BY SlicesAssumption DEF Tasks
  <1>4. CASE task.planned = 0
    <2>1. PhaseOf(task) = "split" /\ n \in 1 .. MaxSlices
      BY <1>4, PhasesSeparate
    <2>2. PhaseOf(task') = "encoding"
      <3>1. task'.progressing # "false" /\ task'.planned > 0
        BY <1>1, <1>3, <1>4 DEF Sound
      <3> QED
        BY <1>2, <3>1, PhasesSeparate
    <2> QED
      BY <1>1, <2>1, <2>2 DEF Promise!Plan
  <1>5. CASE task.planned > 0
    <2>1. PhaseOf(task) = "ready" /\ PhaseOf(task') = "ready"
      BY <1>1, <1>5 DEF PhaseOf
    <2>2. n = task.planned \/ n \in 1 .. (task.planned - 1)
      BY <1>3, <1>5
    <2>3. CASE n = task.planned
      BY <1>1, <2>1, <2>3 DEF Promise!progressVars
    <2>4. CASE n \in 1 .. (task.planned - 1)
      BY <1>1, <2>1, <2>4 DEF Promise!Recount
    <2> QED
      BY <2>2, <2>3, <2>4
  <1> QED
    BY <1>3, <1>4, <1>5

-----------------------------------------------------------------------------
(* What the mapping needs beyond the safety properties.                    *)

\* Nobody who learned that the Jobs were deleted forgets it.
LEMMA DeletedStays ==
    ASSUME IInv, [Next]_vars, Deleted
    PROVE  Deleted'
  <1> USE DEF Deleted
  <1>1. CASE TaskEvent
    <2>1. /\ Len(events) > 0 /\ cache' = events[1]
          /\ UNCHANGED <<tPc, tTask>>
      BY <1>1 DEF TaskEvent, tVars, IInv, TypeOK
    <2>2. events[1].ready
      BY <2>1 DEF IInv, ReadySpreads, TypeOK
    <2> QED
      BY <2>1, <2>2
  <1>2. CASE TaskPop \/ SetFailureCondition
    BY <1>2 DEF TaskPop, SetFailureCondition, Stages
  <1>3. CASE TaskGet
    BY <1>3 DEF TaskGet
  <1>4. ASSUME NEW stage \in Stages, NEW job, EnsureJob(stage, job) PROVE Deleted'
    BY <1>4 DEF EnsureJob
  <1>5. CASE CleanupJobs
    BY <1>5 DEF CleanupJobs, Stages
  <1>6. CASE UpdateStatusWithProgressing
    <2>1. PICK i \in FirstFree(tTask) : tTask' = WithSliceScheduled(tTask, i)
      BY <1>6 DEF UpdateStatusWithProgressing
    <2>2. tTask'.ready = tTask.ready
      BY <2>1 DEF WithSliceScheduled, IInv, TypeOK, Tasks
    <2>3. tPc = "status" /\ UNCHANGED cache
      BY <1>6 DEF UpdateStatusWithProgressing
    <2> QED
      BY <2>2, <2>3 DEF Stages
  <1>7. CASE JobReconcile \/ Pods \/ Resync \/ UNCHANGED vars
    BY <1>7 DEF JobReconcile, JobPop, JobGet, FetchTask, UpdateTaskStatus, Pods, CountReports,
       JobCompletes, JobFails, JobEnds, Resync, vars, tVars
  <1>8. CASE Restart
    BY <1>8 DEF Restart, Stages, IInv, VersionsOlder, Older
  <1> QED
    BY <1>1, <1>2, <1>3, <1>4, <1>5, <1>6, <1>7, <1>8
    DEF Next, TaskReconcile, CreateSplitJob, EnsureCountJob, CreateMergeJob, CreateSliceJob,
        EnsureCleanupJob, Stages

LEMMA BookingPendingKept ==
    ASSUME IInv, [Next]_vars, BookingPending
    PROVE  BookingPending'
  <1>1. CASE UpdateStatusWithProgressing
    <2>1. PICK i \in FirstFree(tTask), ok \in BOOLEAN :
            /\ UpdateStatus(tFresh, WithSliceScheduled(tTask, i), ok)
            /\ tTask' = WithSliceScheduled(tTask, i)
            /\ tFresh' = (tFresh /\ (ok \/ task' = task))
            /\ ~ ok => tPc' = "finalize"
      BY <1>1 DEF UpdateStatusWithProgressing
    <2>2. CASE ok
      <3>1. task' = tTask'
        BY <2>1, <2>2, UpdateWritesOrNot DEF Store
      <3> QED
        BY <3>1 DEF BookingPending
    <2>3. CASE ~ ok /\ tFresh'
      <3>1. task' = task /\ tTask = task /\ NextSliceDetermined(task)
        BY <1>1, <2>1, <2>3 DEF UpdateStatusWithProgressing, IInv, TaskCopyOlder, Stages, Due
      <3> QED
        BY <2>1, <2>3, <3>1 DEF BookingPending
    <2> QED
      BY <2>2, <2>3 DEF BookingPending
  <1>2. CASE TaskGet
    BY <1>2 DEF TaskGet, BookingPending, IInv, VersionsOlder, apiVars
  <1>3. CASE TaskPop
    <2>1. tFresh' = tFresh /\ task' = task /\ tPc = "idle"
      BY <1>3 DEF TaskPop, apiVars
    <2>2. ~ tFresh
      BY <2>1 DEF IInv, TaskCopyOlder, Stages
    <2> QED
      BY <2>1, <2>2 DEF BookingPending
  <1>4. ASSUME NEW stage \in Stages \ {"finalize"}, NEW job, EnsureJob(stage, job)
        PROVE  BookingPending'
    <2>1. tPc # "finalize" /\ UNCHANGED <<task, tTask, tFresh>>
      BY <1>4 DEF EnsureJob, apiVars
    <2> QED
      BY <2>1 DEF BookingPending
  <1>5. CASE CleanupJobs
    BY <1>5 DEF CleanupJobs, BookingPending, apiVars
  <1>6. CASE SetFailureCondition \/ Restart
    BY <1>6 DEF SetFailureCondition, Restart, BookingPending
  <1>7. CASE TaskEvent \/ JobReconcile \/ Pods \/ Resync \/ UNCHANGED vars
    <2>1. UNCHANGED <<tPc, tTask>> /\ (tFresh' => tFresh /\ task' = task)
      <3>1. CASE UpdateTaskStatus
        BY <3>1 DEF UpdateTaskStatus
      <3>2. CASE CountReports
        BY <3>2 DEF CountReports
      <3>3. CASE TaskEvent
        BY <3>3 DEF TaskEvent, tVars
      <3>4. CASE JobPop \/ JobGet \/ FetchTask \/ Resync \/ UNCHANGED vars
        BY <3>4 DEF JobPop, JobGet, FetchTask, Resync, vars, tVars, apiVars
      <3>5. ASSUME NEW job \in Jobs, JobCompletes(job) \/ JobFails(job)
            PROVE  UNCHANGED <<tPc, tTask, tFresh, task>>
        BY <3>5 DEF JobCompletes, JobFails, JobEnds, tVars, apiVars
      <3> QED
        BY <1>7, <3>1, <3>2, <3>3, <3>4, <3>5 DEF JobReconcile, Pods
    <2> QED
      BY <2>1 DEF BookingPending
  <1> QED
    BY <1>1, <1>2, <1>3, <1>4, <1>5, <1>6, <1>7
    DEF Next, TaskReconcile, CreateSplitJob, EnsureCountJob, CreateMergeJob, CreateSliceJob,
        EnsureCleanupJob, Stages

\* Jobs disappear only when they are deleted, and only then a Job is active anew.
LEMMA CountedOnceKept ==
    ASSUME IInv, BookingPending, [Next]_vars, CountedOnce
    PROVE  CountedOnce'
  <1>1. CASE CountReports
    <2>1. jobs'[Count] = "reported"
      BY <1>1, JobNames DEF CountReports, IInv, TypeOK
    <2> QED
      BY <2>1 DEF CountedOnce
  <1>2. CASE CleanupJobs
    <2>1. Deleted
      BY <1>2 DEF CleanupJobs, IInv, TaskCopyOlder, Due, Stages, Deleted
    <2> QED
      BY <2>1, DeletedStays DEF CountedOnce
  <1>3. CASE ~ CountReports /\ ~ CleanupJobs
    <2>1. jobs[Count] \notin {"none", "active"} => jobs'[Count] \notin {"none", "active"}
      <3>1. ASSUME NEW job \in Jobs, CreateOrUpdate(job) \/ UNCHANGED jobs
            PROVE  jobs[Count] # "none" => jobs'[Count] = jobs[Count]
        BY <3>1, JobNames DEF CreateOrUpdate, IInv, TypeOK
      <3>2. ASSUME NEW stage, NEW job \in Jobs, EnsureJob(stage, job)
            PROVE  jobs[Count] # "none" => jobs'[Count] = jobs[Count]
        BY <3>1, <3>2 DEF EnsureJob
      <3>3. CASE TaskReconcile
        <4>1. UNCHANGED jobs \/ \E stage \in Stages, job \in Jobs : EnsureJob(stage, job)
          <5>1. \A i \in FirstFree(tTask) : Slice(i) \in Jobs
            BY CopiesType, JobNames DEF IInv, TypeOK
          <5> QED
            BY <1>3, <3>3, <5>1, JobNames DEF TaskReconcile, TaskPop, TaskGet, CreateSplitJob,
               EnsureCountJob, CreateMergeJob, CreateSliceJob, EnsureCleanupJob,
               UpdateStatusWithProgressing, SetFailureCondition, Stages
        <4> QED
          BY <3>2, <4>1
      <3>4. ASSUME NEW job \in Jobs, JobCompletes(job) \/ JobFails(job)
            PROVE  jobs[Count] \notin {"none", "active"} => jobs'[Count] \notin {"none", "active"}
        BY <3>4, JobNames DEF JobCompletes, JobFails, JobEnds, IInv, TypeOK
      <3>5. CASE TaskEvent \/ JobReconcile \/ Restart \/ Resync \/ UNCHANGED vars
        BY <3>5 DEF TaskEvent, JobReconcile, JobPop, JobGet, FetchTask, UpdateTaskStatus, Restart,
           Resync, vars
      <3> QED
        BY <1>3, <3>3, <3>4, <3>5 DEF Next, Pods
    <2>2. task'.planned = task.planned
      <3>1. CASE task' = task
        BY <3>1
      <3>2. CASE UpdateStatusWithProgressing
        <4>1. PICK i \in FirstFree(tTask), ok \in BOOLEAN :
                UpdateStatus(tFresh, WithSliceScheduled(tTask, i), ok)
          BY <3>2 DEF UpdateStatusWithProgressing
        <4>2. task' = task \/ (tFresh /\ task' = WithSliceScheduled(tTask, i))
          BY <4>1, UpdateWritesOrNot DEF Store, apiVars
        <4>3. tPc = "status"
          BY <3>2 DEF UpdateStatusWithProgressing
        <4>4. tFresh => tTask = task
          BY <4>3 DEF IInv, TaskCopyOlder, Stages
        <4> QED
          BY <4>2, <4>4 DEF WithSliceScheduled, IInv, TypeOK, Tasks
      <3>3. CASE SetFailureCondition
        <4>1. PICK ok \in BOOLEAN : UpdateStatus(tFresh, [tTask EXCEPT !.failed = tErr], ok)
          BY <3>3 DEF SetFailureCondition
        <4>2. task' = task \/ (tFresh /\ task' = [tTask EXCEPT !.failed = tErr])
          BY <4>1, UpdateWritesOrNot DEF Store, apiVars
        <4>3. tFresh => [tTask EXCEPT !.failed = tErr].planned = task.planned
          BY DEF BookingPending, WithSliceScheduled, IInv, TypeOK, Tasks
        <4> QED
          BY <4>2, <4>3
      <3>4. CASE UpdateTaskStatus
        <4>1. PICK ok \in BOOLEAN : UpdateStatus(jFresh, WithJobComplete(jTask, jJob), ok)
          BY <3>4 DEF UpdateTaskStatus
        <4>2. task' = task \/ (jFresh /\ task' = WithJobComplete(jTask, jJob))
          BY <4>1, UpdateWritesOrNot DEF Store, apiVars
        <4>3. WithJobComplete(task, jJob).planned = task.planned
          BY JobNames DEF WithJobComplete, WithSliceFinished, IInv, TypeOK, Tasks
        <4> QED
          BY <4>2, <4>3 DEF IInv, JobCopyCurrent
      <3> QED
        BY <1>3, <3>1, <3>2, <3>3, <3>4
        DEF Next, TaskReconcile, JobReconcile, Pods, TaskEvent, TaskPop, TaskGet,
            CreateSplitJob, EnsureCountJob, CreateMergeJob, CreateSliceJob, EnsureCleanupJob,
            EnsureJob, JobPop, JobGet, FetchTask, JobCompletes, JobFails, JobEnds,
            Restart, Resync, vars, apiVars
    <2> QED
      BY <2>1, <2>2, DeletedStays DEF CountedOnce
  <1> QED
    BY <1>1, <1>2, <1>3

LEMMA RInvNext == RInv /\ [Next]_vars => RInv'
  BY InvNext, BookingPendingKept, CountedOnceKept DEF RInv

LEMMA RInvInit == Init => RInv
  <1> SUFFICES ASSUME Init PROVE RInv
    OBVIOUS
  <1>1. IInv
    BY InvInit
  <1>2. BookingPending /\ CountedOnce
    BY DEF Init, BookingPending, CountedOnce, NewTask
  <1> QED
    BY <1>1, <1>2 DEF RInv

-----------------------------------------------------------------------------
(* The refinement.                                                         *)

\* Every step of the operator is one of TaskProgress or none.
LEMMA StepsMap == RInv /\ [Next]_vars => [Promise!Progress]_(Promise!progressVars)
  <1> SUFFICES ASSUME RInv, [Next]_vars
               PROVE  Promise!Progress \/ UNCHANGED Promise!progressVars
    OBVIOUS
  <1> USE DEF RInv
  <1>1. /\ task \in Tasks /\ tTask \in Tasks /\ jTask \in Tasks /\ jJob \in Jobs
        /\ tErr \in BOOLEAN /\ Sound(task)
    BY DEF IInv, TypeOK, VersionsOlder
  <1>2. CASE task' = task
    BY <1>2 DEF Promise!progressVars
  <1>3. CASE UpdateStatusWithProgressing /\ task' # task
    <2>1. PICK i \in FirstFree(tTask), ok \in BOOLEAN :
            UpdateStatus(tFresh, WithSliceScheduled(tTask, i), ok)
      BY <1>3 DEF UpdateStatusWithProgressing
    <2>2. tFresh /\ task' = WithSliceScheduled(tTask, i)
      BY <1>3, <2>1, UpdateWritesOrNot DEF Store, apiVars
    <2>3. tTask = task /\ NextSliceDetermined(task)
      BY <1>3, <2>2 DEF UpdateStatusWithProgressing, IInv, TaskCopyOlder, Stages, Due
    <2> QED
      BY <1>1, <2>2, <2>3, BookingIsSchedule DEF Promise!Progress
  <1>4. CASE SetFailureCondition /\ task' # task
    <2>1. PICK ok \in BOOLEAN : UpdateStatus(tFresh, [tTask EXCEPT !.failed = tErr], ok)
      BY <1>4 DEF SetFailureCondition
    <2>2. tFresh /\ task' = [tTask EXCEPT !.failed = tErr]
      BY <1>4, <2>1, UpdateWritesOrNot DEF Store, apiVars
    <2>3. CASE tTask = task
      BY <1>1, <2>2, <2>3, FailureUnseen DEF Promise!progressVars
    <2>4. CASE NextSliceDetermined(task)
               /\ \E i \in FirstFree(task) : tTask = WithSliceScheduled(task, i)
      BY <1>1, <2>2, <2>4, BookingIsSchedule DEF Promise!Progress
    <2> QED
      BY <2>2, <2>3, <2>4 DEF BookingPending
  <1>5. CASE UpdateTaskStatus /\ task' # task
    <2>1. PICK ok \in BOOLEAN : UpdateStatus(jFresh, WithJobComplete(jTask, jJob), ok)
      BY <1>5 DEF UpdateTaskStatus
    <2>2. task' = WithJobComplete(task, jJob) /\ Backed(jJob)
      BY <1>5, <2>1, UpdateWritesOrNot
      DEF Store, apiVars, UpdateTaskStatus, IInv, JobCopyCurrent, JobsBacked
    <2>3. CASE jJob \in {Split, Count, Merge, Cleanup}
      BY <1>1, <2>2, <2>3, StageIsPhase DEF Promise!Progress
    <2>4. CASE \E i \in Indexes : jJob = Slice(i)
      <3>1. PICK i \in Indexes : jJob = Slice(i)
        BY <2>4
      <3>2. task' = WithSliceFinished(task, i)
        BY <2>2, <3>1 DEF WithJobComplete, Slice, Split, Count, Merge, Cleanup
      <3>3. Promise!Finish(i)
        BY <1>1, <2>2, <3>1, <3>2, RecordingIsFinish
      <3> QED
        BY <3>3 DEF Promise!Progress, Indexes
    <2> QED
      BY <1>1, <2>3, <2>4, JobNames
  <1>6. CASE CountReports
    <2>1. PICK n \in 1 .. (IF task.planned = 0 THEN MaxSlices ELSE task.planned) :
            task' = [task EXCEPT !.planned = n]
      BY <1>6 DEF CountReports, Store
    <2>2. jobs[Count] = "active" /\ task.split
      BY <1>6, JobNames DEF CountReports, IInv, JobsBacked, Backed
    <2>3. task.planned > 0 => task.ready
      BY <2>2 DEF CountedOnce, Deleted, IInv, VersionsOlder, Older
    <2> QED
      BY <1>1, <2>1, <2>2, <2>3, PatchIsPlan DEF Promise!Progress
  <1> QED
    BY <1>2, <1>3, <1>4, <1>5, <1>6
    DEF Next, TaskReconcile, JobReconcile, Pods, TaskEvent, TaskPop, TaskGet,
        CreateSplitJob, EnsureCountJob, CreateMergeJob, CreateSliceJob, EnsureCleanupJob,
        EnsureJob, CleanupJobs, JobPop, JobGet, FetchTask, JobCompletes, JobFails, JobEnds,
        Restart, Resync, vars, apiVars

\* The operator implements TaskProgress (Provision of both controllers): stale
\* copies, refused and lost updates, retries, restarts and resyncs never make
\* the stored Task do what TaskProgress does not.
THEOREM Refinement == Spec => ImplementsProgress
  <1>1. Init => Promise!Begin
    BY DEF Init, NewTask, PhaseOf, Promise!Begin
  <1> QED
    BY <1>1, RInvInit, RInvNext, StepsMap, PTL DEF Spec, ImplementsProgress, Promise!ProgressSpec

\* The same of the steps alone, in the words of StepsImplementProgress.
THEOREM StepsRefine == Spec => StepsImplementProgress
  BY RInvInit, RInvNext, StepsMap, PTL DEF Spec, StepsImplementProgress
=============================================================================
