--------------------------- MODULE TaskRetryProofs ---------------------------
(***************************************************************************)
(* The operator forgets nothing, for every value of the constants.  As     *)
(* long as a Task shows the Failed condition it is about to be reconciled  *)
(* (FailureRetried); a completion that is not recorded is queued, and when *)
(* both workers have nothing to do the Task is Ready or waits for a pod    *)
(* (WaitsOnlyForPods).                                                     *)
(***************************************************************************)
EXTENDS TaskRefinementProofs

\* A current copy only fails by a failing call, and so only shows Failed then.
FailureIsFault ==
    /\ tFresh /\ tErr => faults >= 1
    /\ task.failed => faults >= 1

FInv == RInv /\ ErrInPipeline /\ StaleIsQueued /\ FailureIsFault /\ FailureRetried

\* A write that changes the Task is an event to come.
LEMMA WriteIsEvent ==
    ASSUME TypeOK, NEW new \in Tasks, Store(new), task' # task
    PROVE  events' # <<>>
  <1>1. events' = Append(events, new) /\ events \in Seq(Tasks)
    BY DEF Store, TypeOK
  <1>2. Len(events') = Len(events) + 1 /\ Len(events) \in Nat
    BY <1>1, AppendProperties
  <1>3. Len(<<>>) = 0
    OBVIOUS
  <1> QED
    BY <1>2, <1>3

\* The finalizer shows or removes Failed, or meets a conflict or a fault.
LEMMA FinalizerKeeps ==
    ASSUME FInv, RInv', SetFailureCondition
    PROVE  FInv'
  <1> USE DEF FInv
  <1> DEFINE new == [tTask EXCEPT !.failed = tErr]
  <1>1. PICK ok \in BOOLEAN : UpdateStatus(tFresh, new, ok)
    BY DEF SetFailureCondition
  <1>2. /\ tPc = "finalize" /\ taskQueued' = (taskQueued \/ tErr) /\ tPc' = "idle"
        /\ tFresh' = FALSE /\ tErr' = FALSE
    BY DEF SetFailureCondition
  <1>3. /\ task \in Tasks /\ tTask \in Tasks /\ tErr \in BOOLEAN /\ faults \in Nat
        /\ taskQueued \in BOOLEAN
    BY DEF RInv, IInv, TypeOK
  <1>4. new.failed = tErr
    BY <1>3 DEF Tasks
  <1>5. CASE ok
    <2>1. tFresh /\ task' = new /\ UNCHANGED faults
      BY <1>1, <1>5 DEF UpdateStatus, Store
    <2> QED
      BY <1>2, <1>3, <1>4, <2>1
      DEF ErrInPipeline, StaleIsQueued, FailureIsFault, FailureRetried, Stages
  <1>6. CASE ~ ok /\ ~ tFresh /\ UNCHANGED <<apiVars, faults>>
    <2>1. (taskQueued \/ events # <<>>) /\ UNCHANGED <<task, events, faults>>
      BY <1>2, <1>6 DEF StaleIsQueued, Stages, apiVars
    <2> QED
      BY <1>2, <2>1
      DEF ErrInPipeline, StaleIsQueued, FailureIsFault, FailureRetried, Stages
  <1>7. CASE ~ ok /\ Fault /\ (UNCHANGED apiVars \/ (tFresh /\ Store(new)))
    <2>1. faults' = faults + 1 /\ (task' = task \/ task' = new)
      BY <1>7 DEF Fault, Store, apiVars
    <2>2. task'.failed => tErr \/ task.failed
      BY <1>4, <2>1
    <2>3. task'.failed /\ faults' <= 1 => taskQueued'
      BY <1>2, <1>3, <2>1, <2>2 DEF FailureIsFault
    <2> QED
      BY <1>2, <1>3, <2>1, <2>3
      DEF ErrInPipeline, StaleIsQueued, FailureIsFault, FailureRetried, Stages
  <1> QED
    BY <1>1, <1>5, <1>6, <1>7 DEF UpdateStatus

\* A booking that fails leaves an error; the Task's failed condition stays.
LEMMA FailingBookingKeeps ==
    ASSUME FInv, RInv', UpdateStatusWithProgressing
    PROVE  FInv'
  <1> USE DEF FInv
  <1>1. PICK i \in FirstFree(tTask), ok \in BOOLEAN :
          /\ UpdateStatus(tFresh, WithSliceScheduled(tTask, i), ok)
          /\ tFresh' = (tFresh /\ (ok \/ task' = task))
          /\ tErr' = ~ ok
    BY DEF UpdateStatusWithProgressing
  <1> DEFINE new == WithSliceScheduled(tTask, i)
  <1>2. tPc = "status" /\ tPc' \in Stages /\ UNCHANGED taskQueued
    BY NextStageType DEF UpdateStatusWithProgressing, Stages
  <1>3. /\ task \in Tasks /\ tTask \in Tasks /\ faults \in Nat /\ new \in Tasks
        /\ tFresh \in BOOLEAN /\ TypeOK
    BY CopiesType DEF RInv, IInv, TypeOK
  <1>4. tFresh => new.failed = task.failed
    <2>1. tFresh => tTask = task
      BY <1>2 DEF RInv, IInv, TaskCopyOlder, Stages
    <2> QED
      BY <1>3, <2>1 DEF WithSliceScheduled, Tasks
  <1>5. task'.failed => task.failed
    BY <1>1, <1>4, UpdateWritesOrNot DEF Store, apiVars
  <1>6. faults' \in Nat /\ faults' >= faults /\ (tFresh /\ ~ ok => faults' >= 1)
    BY <1>1, <1>3 DEF UpdateStatus, Fault
  <1>7. task' # task => events' # <<>>
    BY <1>1, <1>3, UpdateWritesOrNot, WriteIsEvent DEF apiVars
  <1>8. task' = task => UNCHANGED events
    BY <1>1, UpdateWritesOrNot DEF Store, apiVars
  <1>9. StaleIsQueued'
    BY <1>1, <1>2, <1>3, <1>7, <1>8 DEF StaleIsQueued, Stages
  <1>10. FailureIsFault'
    <2>1. tFresh' /\ tErr' => tFresh /\ ~ ok
      BY <1>1
    <2>2. task'.failed => faults >= 1
      BY <1>5 DEF FailureIsFault
    <2>3. task'.failed => faults' >= 1
      BY <1>3, <1>6, <2>2
    <2> QED
      BY <1>6, <2>1, <2>3 DEF FailureIsFault
  <1>11. FailureRetried'
    BY <1>2 DEF FailureRetried, Stages
  <1> QED
    BY <1>2, <1>9, <1>10, <1>11 DEF ErrInPipeline

\* The writes of the others are events for the task reconciler.
LEMMA OtherWritesKeep ==
    ASSUME FInv, RInv', UpdateTaskStatus \/ CountReports
    PROVE  FInv'
  <1> USE DEF FInv
  <1>1. /\ task \in Tasks /\ jTask \in Tasks /\ jJob \in Jobs /\ faults \in Nat /\ TypeOK
        /\ WithJobComplete(jTask, jJob) \in Tasks /\ tFresh \in BOOLEAN
    BY CopiesType DEF RInv, IInv, TypeOK
  <1>2. UNCHANGED <<tPc, tErr, taskQueued>> /\ tFresh' = (tFresh /\ task' = task)
    BY DEF UpdateTaskStatus, CountReports
  <1>3. \E new \in Tasks : /\ new.failed = task.failed
                           /\ (task' = task /\ UNCHANGED events) \/ Store(new)
    <2>1. CASE UpdateTaskStatus
      <3>1. PICK ok \in BOOLEAN : UpdateStatus(jFresh, WithJobComplete(jTask, jJob), ok)
        BY <2>1 DEF UpdateTaskStatus
      <3>2. UNCHANGED apiVars \/ (jFresh /\ Store(WithJobComplete(jTask, jJob)))
        BY <3>1, UpdateWritesOrNot
      <3>3. jFresh => WithJobComplete(jTask, jJob).failed = task.failed
        BY <1>1, JobNames DEF RInv, IInv, JobCopyCurrent, WithJobComplete, WithSliceFinished, Tasks
      <3> QED
        BY <1>1, <3>2, <3>3 DEF apiVars
    <2>2. CASE CountReports
      <3>1. PICK n \in 1 .. (IF task.planned = 0 THEN MaxSlices ELSE task.planned) :
              Store([task EXCEPT !.planned = n])
        BY <2>2 DEF CountReports
      <3>2. [task EXCEPT !.planned = n] \in Tasks
        BY <1>1, CountingAdvances DEF RInv, IInv, VersionsOlder
      <3>3. [task EXCEPT !.planned = n].failed = task.failed
        BY <1>1 DEF Tasks
      <3> QED
        BY <3>1, <3>2, <3>3
    <2> QED
      BY <2>1, <2>2
  <1>4. /\ task'.failed = task.failed
        /\ task' # task => events' # <<>>
        /\ task' = task => UNCHANGED events
    BY <1>1, <1>3, WriteIsEvent DEF Store
  <1>5. faults' \in Nat /\ faults' >= faults
    BY <1>1 DEF UpdateTaskStatus, UpdateStatus, CountReports, Fault, bounds
  <1>6. StaleIsQueued'
    BY <1>1, <1>2, <1>4 DEF StaleIsQueued
  <1>7. FailureIsFault'
    BY <1>1, <1>2, <1>4, <1>5 DEF FailureIsFault
  <1>8. FailureRetried'
    BY <1>1, <1>2, <1>4, <1>5 DEF FailureRetried
  <1> QED
    BY <1>2, <1>6, <1>7, <1>8 DEF ErrInPipeline

\* The steps that write no Task.
LEMMA QuietStepsKeep ==
    ASSUME FInv, RInv', [Next]_vars,
           ~ SetFailureCondition, ~ UpdateStatusWithProgressing, ~ UpdateTaskStatus, ~ CountReports
    PROVE  FInv'
  <1> USE DEF FInv
  <1>1. faults \in Nat /\ tErr \in BOOLEAN /\ events \in Seq(Tasks)
    BY DEF RInv, IInv, TypeOK
  <1>2. CASE TaskEvent
    <2>1. taskQueued' /\ UNCHANGED <<task, tPc, tFresh, tErr, faults>>
      BY <1>2 DEF TaskEvent, tVars, bounds
    <2> QED
      BY <2>1 DEF ErrInPipeline, StaleIsQueued, FailureIsFault, FailureRetried
  <1>3. CASE TaskPop
    <2>1. tPc = "idle" /\ tPc' = "get" /\ UNCHANGED <<task, tFresh, tErr, faults>>
      BY <1>3 DEF TaskPop, apiVars
    <2> QED
      BY <2>1
      DEF ErrInPipeline, StaleIsQueued, FailureIsFault, FailureRetried, Stages
  <1>4. CASE TaskGet
    <2>1. /\ tPc' \in Stages /\ tFresh' = (events = <<>>)
          /\ UNCHANGED <<task, events, tErr, faults, taskQueued>>
      BY <1>4, NextStageType DEF TaskGet, apiVars, bounds
    <2>2. ~ tErr
      BY <1>4 DEF TaskGet, ErrInPipeline, Stages
    <2> QED
      BY <2>1, <2>2
      DEF ErrInPipeline, StaleIsQueued, FailureIsFault, FailureRetried, Stages
  <1>5. ASSUME NEW stage \in Stages, NEW job, EnsureJob(stage, job) PROVE FInv'
    <2>1. /\ tPc \in Stages /\ tPc' \in Stages
          /\ UNCHANGED <<task, events, taskQueued, tFresh>>
          /\ \/ UNCHANGED <<tErr, faults>>
             \/ faults' = faults + 1
      BY <1>5, NextStageType DEF EnsureJob, apiVars, Fault, Stages
    <2> QED
      BY <1>1, <2>1
      DEF ErrInPipeline, StaleIsQueued, FailureIsFault, FailureRetried, Stages
  <1>6. CASE CleanupJobs
    <2>1. /\ tPc \in Stages /\ tPc' \in Stages
          /\ UNCHANGED <<task, events, taskQueued, tFresh>>
          /\ \/ UNCHANGED <<tErr, faults>>
             \/ faults' = faults + 1
      BY <1>6 DEF CleanupJobs, apiVars, Fault, Stages
    <2> QED
      BY <1>1, <2>1
      DEF ErrInPipeline, StaleIsQueued, FailureIsFault, FailureRetried, Stages
  <1>7. CASE JobPop \/ JobGet \/ FetchTask \/ UNCHANGED vars
    <2>1. UNCHANGED <<task, events, taskQueued, tPc, tFresh, tErr, faults>>
      BY <1>7 DEF JobPop, JobGet, FetchTask, vars, apiVars, tVars, bounds
    <2> QED
      BY <2>1 DEF ErrInPipeline, StaleIsQueued, FailureIsFault, FailureRetried
  <1>8. ASSUME NEW job \in Jobs, JobCompletes(job) \/ JobFails(job) PROVE FInv'
    <2>1. UNCHANGED <<task, events, taskQueued, tPc, tFresh, tErr, faults>>
      BY <1>8 DEF JobCompletes, JobFails, JobEnds, apiVars, tVars, bounds
    <2> QED
      BY <2>1 DEF ErrInPipeline, StaleIsQueued, FailureIsFault, FailureRetried
  <1>9. CASE Restart
    <2>1. taskQueued' /\ ~ tFresh' /\ ~ tErr' /\ tPc' = "idle" /\ UNCHANGED <<task, faults>>
      BY <1>9 DEF Restart
    <2> QED
      BY <2>1
      DEF ErrInPipeline, StaleIsQueued, FailureIsFault, FailureRetried, Stages
  <1>10. CASE Resync
    <2>1. taskQueued' /\ UNCHANGED <<task, tPc, tFresh, tErr, faults>>
      BY <1>10 DEF Resync, apiVars, tVars
    <2> QED
      BY <2>1 DEF ErrInPipeline, StaleIsQueued, FailureIsFault, FailureRetried
  <1> QED
    BY <1>2, <1>3, <1>4, <1>5, <1>6, <1>7, <1>8, <1>9, <1>10
    DEF Next, TaskReconcile, JobReconcile, Pods, CreateSplitJob, EnsureCountJob, CreateMergeJob,
        CreateSliceJob, EnsureCleanupJob, Stages

LEMMA FInvInit == Init => FInv
  BY RInvInit
  DEF Init, FInv, ErrInPipeline, StaleIsQueued, FailureIsFault, FailureRetried, NewTask, Stages

LEMMA FInvNext == FInv /\ [Next]_vars => FInv'
  BY RInvNext, FinalizerKeeps, FailingBookingKeeps, OtherWritesKeep, QuietStepsKeep DEF FInv

\* As long as a Task shows Failed a reconcile of it is due, unless a second call
\* fails (setFailureCondition of the task controller).
THEOREM FailureIsRetried == Spec => []FailureRetried
  <1>1. FInv => FailureRetried
    BY DEF FInv
  <1> QED
    BY FInvInit, FInvNext, <1>1, PTL DEF Spec

-----------------------------------------------------------------------------
(* What each step does to the stored Task and the Jobs.                    *)

\* Every step advances the stored Task.
LEMMA StepAdvances == IInv /\ [Next]_vars => Advances(task, task')
  <1> SUFFICES ASSUME IInv, [Next]_vars
               PROVE  Advances(task, task')
    OBVIOUS
  <1>1. TypeOK'
    BY TypeNext DEF IInv
  <1>2. CASE UpdateStatusWithProgressing
    BY <1>1, <1>2, BookingKeeps
  <1>3. CASE SetFailureCondition
    BY <1>1, <1>3, FailureConditionKeeps
  <1>4. CASE UpdateTaskStatus
    BY <1>1, <1>4, RecordingKeeps
  <1>5. CASE CountReports
    BY <1>1, <1>5, CountReportsKeeps
  <1>6. CASE task' = task
    BY <1>6, AdvancesReflexive DEF IInv, TypeOK
  <1> QED
    BY <1>2, <1>3, <1>4, <1>5, <1>6
    DEF Next, TaskReconcile, JobReconcile, Pods, TaskEvent, TaskPop, TaskGet,
        CreateSplitJob, EnsureCountJob, CreateMergeJob, CreateSliceJob, EnsureCleanupJob,
        EnsureJob, CleanupJobs, JobPop, JobGet, FetchTask, JobCompletes, JobFails, JobEnds,
        Restart, Resync, vars, apiVars

\* A write that changes the Task is an event, whoever makes it.
LEMMA ChangeIsEvent ==
    ASSUME RInv, RInv', [Next]_vars, task' # task
    PROVE  events' # <<>>
  <1>0. TypeOK /\ task' \in Tasks
    BY DEF RInv, IInv, TypeOK
  <1>1. PICK new : Store(new)
    <2>1. CASE UpdateStatusWithProgressing
      BY <2>1, UpdateWritesOrNot DEF UpdateStatusWithProgressing, apiVars
    <2>2. CASE SetFailureCondition
      BY <2>2, UpdateWritesOrNot DEF SetFailureCondition, apiVars
    <2>3. CASE UpdateTaskStatus
      BY <2>3, UpdateWritesOrNot DEF UpdateTaskStatus, apiVars
    <2>4. CASE CountReports
      BY <2>4 DEF CountReports
    <2> QED
      BY <2>1, <2>2, <2>3, <2>4
      DEF Next, TaskReconcile, JobReconcile, Pods, TaskEvent, TaskPop, TaskGet,
          CreateSplitJob, EnsureCountJob, CreateMergeJob, CreateSliceJob, EnsureCleanupJob,
          EnsureJob, CleanupJobs, JobPop, JobGet, FetchTask, JobCompletes, JobFails, JobEnds,
          Restart, Resync, vars, apiVars
  <1> QED
    BY <1>0, <1>1, WriteIsEvent DEF Store

\* A Job that is there stays there until the Task is Ready.
LEMMA JobsStay ==
    ASSUME RInv, [Next]_vars, ~ task.ready, NEW job \in Jobs, jobs[job] # "none"
    PROVE  jobs'[job] # "none"
  <1>0. jobs \in [Jobs -> JobStates]
    BY DEF RInv, IInv, TypeOK
  <1>1. ASSUME NEW stage, NEW j \in Jobs, EnsureJob(stage, j)
        PROVE  jobs'[job] # "none"
    BY <1>0, <1>1 DEF EnsureJob, CreateOrUpdate
  <1>2. CASE TaskReconcile
    <2>1. \/ UNCHANGED jobs \/ CleanupJobs
          \/ \E stage \in Stages, j \in Jobs : EnsureJob(stage, j)
      <3>1. \A i \in FirstFree(tTask) : Slice(i) \in Jobs
        BY CopiesType, JobNames DEF RInv, IInv, TypeOK
      <3> QED
        BY <1>2, <3>1, JobNames DEF TaskReconcile, TaskPop, TaskGet, CreateSplitJob,
           EnsureCountJob, CreateMergeJob, CreateSliceJob, EnsureCleanupJob,
           UpdateStatusWithProgressing, SetFailureCondition, Stages
    <2>2. ~ CleanupJobs
      BY DEF CleanupJobs, RInv, IInv, TaskCopyOlder, Older, Due, Stages
    <2> QED
      BY <1>1, <2>1, <2>2
  <1>3. CASE CountReports
    BY <1>0, <1>3 DEF CountReports
  <1>4. ASSUME NEW j \in Jobs, JobCompletes(j) \/ JobFails(j)
        PROVE  jobs'[job] # "none"
    BY <1>0, <1>4 DEF JobCompletes, JobFails, JobEnds
  <1>5. CASE TaskEvent \/ JobReconcile \/ Restart \/ Resync \/ UNCHANGED vars
    BY <1>5 DEF TaskEvent, JobReconcile, JobPop, JobGet, FetchTask, UpdateTaskStatus, Restart,
       Resync, vars
  <1> QED
    BY <1>2, <1>3, <1>4, <1>5 DEF Next, Pods

-----------------------------------------------------------------------------
(* The plan.                                                               *)

\* A booking or a first record of the next slice leaves no gap.
LEMMA NoGap ==
    ASSUME NEW n \in 0 .. MaxSlices, NEW i \in Indexes,
           i \notin 0 .. (n - 1), \A j \in 0 .. (i - 1) : j \in 0 .. (n - 1)
    PROVE  /\ n + 1 \in 0 .. MaxSlices
           /\ (0 .. (n - 1)) \cup {i} = 0 .. ((n + 1) - 1)
  <1>1. i = n
    BY SlicesAssumption DEF Indexes
  <1>2. n + 1 \in 0 .. MaxSlices
    BY <1>1, SlicesAssumption DEF Indexes
  <1>3. (0 .. (n - 1)) \cup {n} = 0 .. ((n + 1) - 1)
    BY SlicesAssumption
  <1> QED
    BY <1>1, <1>2, <1>3

\* The plan is followed by every step that TaskProgress allows.
LEMMA PlanKept ==
    ASSUME RInv, RInv', [Next]_vars, PlanFollowed
    PROVE  PlanFollowed'
  <1>1. task \in Tasks /\ task' \in Tasks /\ Sound(task) /\ Sound(task')
    BY DEF RInv, IInv, TypeOK, VersionsOlder
  <1>2. /\ IsFiniteSet(task.finished) /\ Cardinality(task.finished) \in Nat
        /\ task.finishedCount \in Nat /\ task.planned \in Nat
    <2>1. IsFiniteSet(Indexes)
      BY SlicesAssumption, FS_Interval DEF Indexes
    <2> QED
      BY <1>1, <2>1, FS_Subset, FS_CardinalityType DEF Tasks
  <1>3. PICK n \in 0 .. MaxSlices : Booked(task) = 0 .. (n - 1)
    BY DEF PlanFollowed
  <1>4. CASE UNCHANGED Promise!progressVars
    <2>1. /\ PhaseOf(task') = PhaseOf(task) /\ task'.planned = task.planned
          /\ task'.scheduled = task.scheduled /\ task'.finished = task.finished
          /\ task'.finishedCount = task.finishedCount
      BY <1>4 DEF Promise!progressVars
    <2> QED
      BY <1>1, <2>1, PhasesSeparate DEF PlanFollowed, Booked
  <1>5. CASE Promise!SplitUp \/ Promise!JoinUp \/ Promise!CleanUp
    <2>1. /\ task'.planned = task.planned
          /\ task'.scheduled = task.scheduled /\ task'.finished = task.finished
          /\ task'.finishedCount = task.finishedCount
          /\ PhaseOf(task') # "encoding"
      BY <1>5 DEF Promise!SplitUp, Promise!JoinUp, Promise!CleanUp
    <2> QED
      BY <1>1, <2>1, PhasesSeparate DEF PlanFollowed, Booked
  <1>6. CASE Promise!Plan
    <2>1. /\ PhaseOf(task) = "split" /\ task'.planned \in 1 .. MaxSlices
          /\ task'.scheduled = task.scheduled /\ task'.finished = task.finished
          /\ task'.finishedCount = task.finishedCount
      BY <1>6 DEF Promise!Plan
    <2>2. task.planned = 0
      BY <1>1, <2>1, PhasesSeparate
    <2> QED
      BY <1>2, <2>1, <2>2 DEF PlanFollowed, Booked
  <1>7. CASE Promise!Recount
    <2>1. /\ PhaseOf(task) = "ready" /\ PhaseOf(task') = PhaseOf(task)
          /\ task'.planned \in 1 .. (task.planned - 1)
          /\ task'.scheduled = task.scheduled /\ task'.finished = task.finished
          /\ task'.finishedCount = task.finishedCount
      BY <1>7 DEF Promise!Recount
    <2>2. task'.progressing = "false"
      BY <1>1, <2>1, PhasesSeparate DEF Sound
    <2> QED
      BY <1>2, <2>1, <2>2 DEF PlanFollowed, Booked
  <1>8. CASE Promise!Schedule
    <2>1. PICK i \in 0 .. (task.planned - 1) :
            Promise!IsNext(i) /\ task'.scheduled = task.scheduled \cup {i}
      BY <1>8 DEF Promise!Schedule
    <2>2. /\ PhaseOf(task') = PhaseOf(task) /\ task'.planned = task.planned
          /\ task'.finished = task.finished /\ task'.finishedCount = task.finishedCount
      BY <1>8 DEF Promise!Schedule
    <2>3. i \in Indexes
      BY <1>1, SlicesAssumption DEF Tasks, Indexes
    <2>4. i \notin Booked(task) /\ \A j \in 0 .. (i - 1) : j \in Booked(task)
      BY <2>1 DEF Promise!IsNext, Booked
    <2>5. Booked(task') = Booked(task) \cup {i}
      BY <2>1, <2>2 DEF Booked
    <2>6. \E m \in 0 .. MaxSlices : Booked(task') = 0 .. (m - 1)
      BY <1>3, <2>3, <2>4, <2>5, NoGap
    <2> QED
      BY <1>1, <2>2, <2>6, PhasesSeparate DEF PlanFollowed
  <1>9. ASSUME NEW i \in Indexes, Promise!Finish(i)
        PROVE  PlanFollowed'
    <2>1. /\ PhaseOf(task) \notin {"new", "split"}
          /\ i \in Booked(task) \/ IsNext(task, i)
          /\ task'.scheduled = task.scheduled \ {i} /\ task'.finished = task.finished \cup {i}
          /\ task'.finishedCount = task.finishedCount + 1 /\ task'.planned = task.planned
          /\ PhaseOf(task') = IF PhaseOf(task) = "encoding" /\ task'.finishedCount >= task.planned
                              THEN "encoded" ELSE PhaseOf(task)
      BY <1>9 DEF Promise!Finish, Promise!IsNext, IsNext, Booked
    <2>2. Booked(task') = Booked(task) \cup {i}
      BY <2>1 DEF Booked
    <2>3. \E m \in 0 .. MaxSlices : Booked(task') = 0 .. (m - 1)
      <3>1. CASE i \in Booked(task)
        BY <1>3, <2>2, <3>1
      <3>2. CASE IsNext(task, i)
        BY <1>3, <2>2, <3>2, NoGap DEF IsNext
      <3> QED
        BY <2>1, <3>1, <3>2
    <2>4. Cardinality(task'.finished) <= task'.finishedCount
      <3>1. Cardinality(task.finished \cup {i}) <= Cardinality(task.finished) + 1
        BY <1>2, FS_AddElement
      <3>2. Cardinality(task.finished \cup {i}) \in Nat
        BY <1>2, FS_AddElement, FS_CardinalityType
      <3> QED
        BY <1>2, <2>1, <3>1, <3>2 DEF PlanFollowed
    <2>5. task.planned > 0
      BY <1>1, <1>2, <2>1, PhasesSeparate
    <2>6. task'.progressing # "false" => task'.finishedCount < task'.planned
      <3>1. task'.progressing # "false" => PhaseOf(task') = "encoding"
        BY <1>1, <2>1, <2>5, PhasesSeparate
      <3> QED
        BY <1>2, <2>1, <3>1
    <2> QED
      BY <2>1, <2>3, <2>4, <2>5, <2>6 DEF PlanFollowed
  <1> QED
    BY <1>4, <1>5, <1>6, <1>7, <1>8, <1>9, StepsMap DEF Promise!Progress, Indexes

\* The plan is made by the patch of the count, and no write takes it back.
LEMMA CountKept ==
    ASSUME RInv, RInv', [Next]_vars, CountPatched
    PROVE  CountPatched'
  <1>1. /\ jobs \in [Jobs -> JobStates] /\ Count \in Jobs
        /\ task \in Tasks /\ task' \in Tasks
    BY JobNames DEF RInv, IInv, TypeOK
  <1>2. task.planned > 0 => task'.planned > 0
    BY StepAdvances DEF RInv, Advances
  <1>3. CASE jobs'[Count] \in {"reported", "complete"} => jobs[Count] \in {"reported", "complete"}
    BY <1>2, <1>3 DEF CountPatched
  <1>4. CASE CountReports
    <2>1. PICK n \in 1 .. (IF task.planned = 0 THEN MaxSlices ELSE task.planned) :
            task' = [task EXCEPT !.planned = n]
      BY <1>4 DEF CountReports, Store
    <2>2. task'.planned = n /\ n > 0
      BY <1>1, <2>1, SlicesAssumption DEF Tasks
    <2> QED
      BY <2>2 DEF CountPatched
  <1>5. ASSUME NEW stage, NEW job \in Jobs, EnsureJob(stage, job)
        PROVE  jobs'[Count] \in {"reported", "complete"} => jobs[Count] \in {"reported", "complete"}
    BY <1>1, <1>5 DEF EnsureJob, CreateOrUpdate
  <1>6. CASE CreateSliceJob
    <2>1. \A i \in FirstFree(tTask) : Slice(i) \in Jobs
      BY CopiesType, JobNames DEF RInv, IInv, TypeOK
    <2> QED
      BY <1>3, <1>5, <1>6, <2>1 DEF CreateSliceJob
  <1>7. CASE CreateSplitJob \/ EnsureCountJob \/ CreateMergeJob \/ EnsureCleanupJob
    BY <1>3, <1>5, <1>7, JobNames
    DEF CreateSplitJob, EnsureCountJob, CreateMergeJob, EnsureCleanupJob
  <1>8. CASE CleanupJobs
    BY <1>1, <1>3, <1>8 DEF CleanupJobs, DeleteJobs
  <1>9. ASSUME NEW job \in Jobs, JobCompletes(job) \/ JobFails(job)
        PROVE  jobs'[Count] \in {"reported", "complete"} => jobs[Count] \in {"reported", "complete"}
    BY <1>1, <1>9 DEF JobCompletes, JobFails, JobEnds
  <1>10. CASE UNCHANGED jobs
    BY <1>3, <1>10
  <1> QED
    BY <1>3, <1>4, <1>6, <1>7, <1>8, <1>9, <1>10
    DEF Next, TaskReconcile, JobReconcile, Pods, TaskEvent, TaskPop, TaskGet,
        UpdateStatusWithProgressing, SetFailureCondition, JobPop, JobGet, FetchTask,
        UpdateTaskStatus, Restart, Resync, vars

\* A completion is queued until it is recorded: a refused or lost update puts the
\* key back, and a restart lists every Job anew.
LEMMA CompletionsKept ==
    ASSUME RInv, RInv', [Next]_vars, CompletionsQueued
    PROVE  CompletionsQueued'
  <1> SUFFICES ASSUME NEW job \in Jobs, jobs'[job] = "complete", ~ Recorded(job)'
               PROVE  job \in jobQueue' \/ (jPc' # "idle" /\ jJob' = job)
    BY DEF CompletionsQueued
  <1>0. /\ jobs \in [Jobs -> JobStates] /\ jobQueue \in SUBSET Jobs /\ jJob \in Jobs
        /\ jTask \in Tasks /\ tTask \in Tasks
    BY DEF RInv, IInv, TypeOK
  <1>1. ~ Recorded(job)
    BY StepAdvances DEF RInv, Advances, Grows, Recorded
  <1>2. jobs[job] = "complete" => job \in jobQueue \/ (jPc # "idle" /\ jJob = job)
    BY <1>1 DEF CompletionsQueued
  <1>3. CASE UNCHANGED <<jobs, jobQueue, jPc, jJob>>
    BY <1>2, <1>3
  <1>4. CASE jobQueue \subseteq jobQueue' /\ UNCHANGED <<jPc, jJob>>
             /\ (jobs'[job] = "complete" => jobs[job] = "complete")
    BY <1>2, <1>4
  <1>5. ASSUME NEW stage, NEW j \in Jobs, EnsureJob(stage, j)
        PROVE  /\ jobQueue \subseteq jobQueue' /\ UNCHANGED <<jPc, jJob>>
               /\ jobs'[job] = "complete" => jobs[job] = "complete"
    BY <1>0, <1>5 DEF EnsureJob, CreateOrUpdate, jVars
  <1>6. CASE CreateSliceJob
    <2>1. \A i \in FirstFree(tTask) : Slice(i) \in Jobs
      BY <1>0, CopiesType, JobNames
    <2> QED
      BY <1>4, <1>5, <1>6, <2>1 DEF CreateSliceJob
  <1>7. CASE CreateSplitJob \/ EnsureCountJob \/ CreateMergeJob \/ EnsureCleanupJob
    BY <1>4, <1>5, <1>7, JobNames
    DEF CreateSplitJob, EnsureCountJob, CreateMergeJob, EnsureCleanupJob
  <1>8. CASE CleanupJobs
    <2>1. UNCHANGED <<jPc, jJob>>
      BY <1>8 DEF CleanupJobs, jVars
    <2> QED
      BY <1>3, <1>8, <2>1 DEF CleanupJobs, DeleteJobs
  <1>9. CASE JobPop
    BY <1>2, <1>9 DEF JobPop
  <1>10. CASE JobGet \/ FetchTask
    BY <1>2, <1>10 DEF JobGet, FetchTask
  <1>11. CASE UpdateTaskStatus
    <2>1. PICK ok \in BOOLEAN :
            /\ UpdateStatus(jFresh, WithJobComplete(jTask, jJob), ok)
            /\ jobQueue' = IF ok THEN jobQueue ELSE jobQueue \cup {jJob}
      BY <1>11 DEF UpdateTaskStatus
    <2>2. jobs[job] = "complete"
      BY <1>11 DEF UpdateTaskStatus
    <2>3. ok => task' = WithJobComplete(jTask, jJob)
      BY <2>1, UpdateWritesOrNot DEF Store
    <2>4. ok /\ jJob = job => Recorded(job)'
      <3> SUFFICES ASSUME ok, jJob = job PROVE Recorded(job)'
        OBVIOUS
      <3>1. CASE job \in {Split, Count, Merge, Cleanup}
        BY <1>0, <2>3, <3>1, JobsDiffer DEF Recorded, WithJobComplete, Tasks
      <3>2. CASE \E i \in Indexes : job = Slice(i)
        <4>1. PICK i \in Indexes : job = Slice(i)
          BY <3>2
        <4>2. job[2] = i /\ task' = WithSliceFinished(jTask, i)
          BY <2>3, <4>1, JobsDiffer DEF WithJobComplete, Slice
        <4>3. i \in task'.finished
          BY <1>0, <4>2 DEF WithSliceFinished, Tasks
        <4> QED
          BY <4>1, <4>3, JobsDiffer DEF Recorded
      <3> QED
        BY <3>1, <3>2, JobNames
    <2> QED
      BY <1>2, <2>1, <2>2, <2>4
  <1>12. CASE CountReports
    BY <1>0, <1>3, <1>4, <1>12 DEF CountReports
  <1>13. ASSUME NEW j \in Jobs, JobCompletes(j) \/ JobFails(j)
         PROVE  job \in jobQueue' \/ (jPc' # "idle" /\ jJob' = job)
    <2>1. jobQueue' = jobQueue \cup {j} /\ UNCHANGED <<jPc, jJob>>
      BY <1>13 DEF JobCompletes, JobFails, JobEnds, jVars
    <2>2. CASE j = job
      BY <2>1, <2>2
    <2>3. CASE j # job
      <3>1. jobs'[job] = jobs[job]
        BY <1>0, <1>13, <2>3 DEF JobCompletes, JobFails, JobEnds
      <3> QED
        BY <1>2, <2>1, <3>1
    <2> QED
      BY <2>2, <2>3
  <1>14. CASE Restart
    <2>1. jobs[job] # "none" /\ jobQueue' = {j \in Jobs : jobs[j] # "none"}
      BY <1>14 DEF Restart
    <2> QED
      BY <2>1
  <1>15. CASE Resync
    BY <1>4, <1>15 DEF Resync, jVars
  <1>16. CASE TaskEvent \/ TaskPop \/ TaskGet \/ UpdateStatusWithProgressing \/ SetFailureCondition
              \/ UNCHANGED vars
    BY <1>3, <1>16 DEF TaskEvent, TaskPop, TaskGet, UpdateStatusWithProgressing,
       SetFailureCondition, jVars, vars
  <1> QED
    BY <1>6, <1>7, <1>8, <1>9, <1>10, <1>11, <1>12, <1>13, <1>14, <1>15, <1>16
    DEF Next, TaskReconcile, JobReconcile, Pods

-----------------------------------------------------------------------------
(* The pipeline.                                                           *)

\* A current copy is the stored Task, unless its write has just failed.
LEMMA CopyKept ==
    ASSUME RInv, RInv', [Next]_vars, CopyStored
    PROVE  CopyStored'
  <1> SUFFICES ASSUME tFresh', ~ tErr' PROVE tTask' = task'
    BY DEF CopyStored
  <1>1. CASE UNCHANGED <<tTask, task>> /\ (tFresh' => tFresh) /\ (~ tErr' => ~ tErr)
    BY <1>1 DEF CopyStored
  <1>2. CASE TaskGet
    BY <1>2 DEF TaskGet, apiVars, RInv, IInv, VersionsOlder
  <1>3. CASE UpdateStatusWithProgressing
    <2>1. PICK i \in FirstFree(tTask), ok \in BOOLEAN :
            /\ UpdateStatus(tFresh, WithSliceScheduled(tTask, i), ok)
            /\ tTask' = WithSliceScheduled(tTask, i) /\ tErr' = ~ ok
      BY <1>3 DEF UpdateStatusWithProgressing
    <2> QED
      BY <2>1, UpdateWritesOrNot DEF Store
  <1>4. CASE SetFailureCondition \/ Restart
    BY <1>4 DEF SetFailureCondition, Restart
  <1>5. CASE UpdateTaskStatus \/ CountReports
    BY <1>1, <1>5 DEF UpdateTaskStatus, CountReports
  <1>6. CASE TaskEvent \/ TaskPop \/ JobPop \/ JobGet \/ FetchTask \/ Resync \/ UNCHANGED vars
    <2>1. UNCHANGED <<tTask, task, tFresh, tErr>>
      BY <1>6 DEF TaskEvent, TaskPop, JobPop, JobGet, FetchTask, Resync, vars, apiVars, tVars
    <2> QED
      BY <1>1, <2>1
  <1>7. ASSUME NEW stage, NEW job, EnsureJob(stage, job) PROVE tTask' = task'
    BY <1>1, <1>7 DEF EnsureJob, apiVars
  <1>8. CASE CleanupJobs
    BY <1>1, <1>8 DEF CleanupJobs, apiVars
  <1>9. ASSUME NEW job, JobCompletes(job) \/ JobFails(job) PROVE tTask' = task'
    BY <1>1, <1>9 DEF JobCompletes, JobFails, JobEnds, apiVars, tVars
  <1> QED
    BY <1>2, <1>3, <1>4, <1>5, <1>6, <1>7, <1>8, <1>9
    DEF Next, TaskReconcile, JobReconcile, Pods, CreateSplitJob, EnsureCountJob, CreateMergeJob,
        CreateSliceJob, EnsureCleanupJob

\* No stage that is due lies between a stage and the one after it: what is behind
\* the first stage, and its own Job, is behind the second.
LEMMA NextBehind ==
    ASSUME NEW t, NEW J, NEW stage \in ({"get"} \cup Stages) \ {"status"},
           NEW s \in NextStage(stage, t),
           \A r \in DOMAIN StageJob :
              Position[r] < Position[stage] /\ Due(r, t) => J[StageJob[r]] # "none",
           stage \in DOMAIN StageJob => J[StageJob[stage]] # "none",
           Position[stage] > Position["status"] => ~ NextSliceDetermined(t)
    PROVE  /\ \A r \in DOMAIN StageJob :
                 Position[r] < Position[s] /\ Due(r, t) => J[StageJob[r]] # "none"
           /\ Position[s] > Position["status"] => ~ NextSliceDetermined(t)
  <1>1. s \in Stages /\ \A u \in Stages :
          Position[u] > Position[stage] /\ Due(u, t) => Position[s] <= Position[u]
    BY DEF NextStage, DueAfter
  <1>2. /\ DOMAIN StageJob = {"split", "count", "merge", "cleanup"}
        /\ DOMAIN StageJob \subseteq Stages
    BY DEF StageJob, Stages
  <1>3. /\ \A u \in {"get"} \cup Stages : Position[u] \in Nat
        /\ \A u \in Stages : Position[u] = Position[stage] => u = stage
        /\ Position[stage] # Position["status"] /\ "status" \in Stages
    BY DEF Position, Stages
  <1>4. ASSUME NEW r \in DOMAIN StageJob, Position[r] < Position[s], Due(r, t)
        PROVE  J[StageJob[r]] # "none"
    <2>1. r \in Stages
      BY <1>2
    <2>2. Position[r] \in Nat /\ Position[s] \in Nat /\ Position[stage] \in Nat
      BY <1>1, <1>3, <2>1
    <2>3. Position[r] > Position[stage] => Position[s] <= Position[r]
      BY <1>1, <1>4, <2>1
    <2>4. Position[r] < Position[stage] \/ r = stage
      BY <1>3, <1>4, <2>1, <2>2, <2>3
    <2> QED
      BY <1>4, <2>4
  <1>5. ASSUME Position[s] > Position["status"] PROVE ~ NextSliceDetermined(t)
    <2>1. Due("status", t) <=> NextSliceDetermined(t)
      BY DEF Due
    <2>2. CASE Position["status"] > Position[stage]
      <3>1. Due("status", t) => Position[s] <= Position["status"]
        BY <1>1, <1>3, <2>2
      <3>2. Position[s] \in Nat /\ Position["status"] \in Nat
        BY <1>1, <1>3
      <3> QED
        BY <1>5, <2>1, <3>1, <3>2
    <2>3. CASE Position[stage] > Position["status"]
      BY <2>3
    <2>4. /\ Position[stage] \in Nat /\ Position["status"] \in Nat
          /\ Position[stage] # Position["status"]
      BY <1>3
    <2>5. Position["status"] > Position[stage] \/ Position[stage] > Position["status"]
      BY <2>4
    <2> QED
      BY <2>2, <2>3, <2>5
  <1> QED
    BY <1>4, <1>5

\* Steps of the others leave what the pipeline has behind it.
LEMMA BehindStays ==
    ASSUME RInv, [Next]_vars, ~ task.ready, task' = task, NEW pc \in {"get"} \cup Stages,
           Behind(pc, task)
    PROVE  Behind(pc, task)'
  <1>1. \A job \in Jobs : jobs[job] # "none" => jobs'[job] # "none"
    BY JobsStay
  <1>2. \A s \in DOMAIN StageJob : StageJob[s] \in Jobs
    BY JobNames DEF StageJob
  <1> QED
    BY <1>1, <1>2 DEF Behind

\* A step that creates its Job, and goes on, has it behind.
LEMMA CreationBehind ==
    ASSUME RInv, RInv', [Next]_vars, StaleIsQueued, CopyStored, StagesBehind,
           ErrInPipeline, ~ Awaited', ~ task.ready,
           NEW stage \in {"split", "count", "merge", "slice", "cleanup"}, NEW job \in Jobs,
           EnsureJob(stage, job), stage \in DOMAIN StageJob => job = StageJob[stage], ~ tErr'
    PROVE  tPc' \in Stages /\ Behind(tPc, task)'
  <1>1. /\ tPc = stage /\ CreateOrUpdate(job) /\ tPc' \in NextStage(stage, tTask)
        /\ ~ tErr /\ UNCHANGED <<task, events, taskQueued>>
    BY DEF EnsureJob, apiVars
  <1>2. stage \in Stages \ {"status"} /\ ~ Awaited
    BY <1>1 DEF Awaited, Stages
  <1>3. tTask = task
    BY <1>1, <1>2 DEF StaleIsQueued, CopyStored, Awaited
  <1>4. Behind(stage, task)
    BY <1>1, <1>2 DEF StagesBehind
  <1>5. Behind(stage, task)'
    BY <1>1, <1>2, <1>4, BehindStays
  <1>6. jobs'[job] # "none"
    BY <1>1 DEF CreateOrUpdate, RInv, IInv, TypeOK
  <1>7. PICK s \in Stages : tPc' = s /\ s \in NextStage(stage, task)
    BY <1>1, <1>3, NextStageType
  <1>8. task' = task
    BY <1>1
  <1>9. /\ \A r \in DOMAIN StageJob :
              Position[r] < Position[stage] /\ Due(r, task) => jobs'[StageJob[r]] # "none"
        /\ Position[stage] > Position["status"] => ~ NextSliceDetermined(task)
    BY <1>5, <1>8 DEF Behind
  <1>10. /\ \A r \in DOMAIN StageJob :
              Position[r] < Position[s] /\ Due(r, task) => jobs'[StageJob[r]] # "none"
         /\ Position[s] > Position["status"] => ~ NextSliceDetermined(task)
    <2>1. stage \in ({"get"} \cup Stages) \ {"status"} /\ s \in NextStage(stage, task)
      BY <1>2, <1>7
    <2>2. stage \in DOMAIN StageJob => jobs'[StageJob[stage]] # "none"
      BY <1>6
    <2> QED
      BY <1>9, <2>1, <2>2, NextBehind
  <1> QED
    BY <1>7, <1>8, <1>10 DEF Behind

\* The pipeline leaves no stage out, unless it is about to run again.
LEMMA StagesBehindKept ==
    ASSUME RInv, RInv', [Next]_vars, StaleIsQueued, CopyStored, ErrInPipeline, StagesBehind
    PROVE  StagesBehind'
  <1> DEFINE Goal == /\ tPc' \in Stages /\ ~ tErr' => Behind(tPc, task)'
                     /\ tPc' = "idle" => Behind("finalize", task)'
  <1> SUFFICES ASSUME ~ Awaited', ~ task'.ready PROVE Goal
    BY DEF StagesBehind
  <1>0. /\ tPc \in {"idle", "get"} \cup Stages /\ "finalize" \in Stages
        /\ "idle" \notin Stages /\ "get" \notin Stages
        /\ taskQueued \in BOOLEAN /\ tErr \in BOOLEAN
    BY DEF RInv, IInv, TypeOK, Stages
  <1>1. ~ task.ready
    BY StepAdvances DEF RInv, Advances, Grows
  <1>2. task' = task /\ ~ taskQueued' /\ events' = <<>>
    BY ChangeIsEvent DEF Awaited
  <1>3. CASE UNCHANGED <<events, taskQueued, tPc, tErr>>
    <2>1. ~ Awaited
      BY <1>2, <1>3 DEF Awaited
    <2>2. tPc' = tPc /\ tErr' = tErr
      BY <1>3
    <2>3. ASSUME tPc' \in Stages, ~ tErr' PROVE Behind(tPc, task)'
      <3>1. PICK pc \in Stages : tPc = pc
        BY <2>2, <2>3
      <3>2. Behind(pc, task)
        BY <1>1, <2>1, <2>2, <2>3, <3>1 DEF StagesBehind
      <3>3. Behind(pc, task)'
        BY <1>1, <1>2, <3>2, BehindStays
      <3>4. tPc' = pc
        BY <2>2, <3>1
      <3> QED
        BY <3>3, <3>4 DEF Behind
    <2>4. tPc' = "idle" => Behind("finalize", task)'
      BY <1>0, <1>1, <1>2, <2>1, <2>2, BehindStays DEF StagesBehind
    <2> QED
      BY <2>3, <2>4
  <1>4. CASE TaskEvent \/ Restart \/ Resync
    BY <1>2, <1>4 DEF TaskEvent, Restart, Resync
  <1>5. CASE TaskPop
    BY <1>0, <1>5 DEF TaskPop
  <1>6. CASE TaskGet
    <2>1. ~ taskQueued /\ events = <<>> /\ tPc = "get" /\ UNCHANGED jobs
      BY <1>2, <1>6 DEF TaskGet, apiVars
    <2>2. cache = task
      BY <2>1 DEF RInv, IInv, VersionsOlder
    <2>3. PICK s \in Stages : tPc' = s /\ s \in NextStage("get", task)
      BY <1>6, <2>2, NextStageType DEF TaskGet
    <2>4. /\ "get" \in ({"get"} \cup Stages) \ {"status"} /\ "get" \notin DOMAIN StageJob
          /\ \A r \in DOMAIN StageJob : ~ (Position[r] < Position["get"])
          /\ ~ (Position["get"] > Position["status"])
      BY DEF Stages, Position, StageJob
    <2>5. /\ \A r \in DOMAIN StageJob :
                Position[r] < Position[s] /\ Due(r, task) => jobs[StageJob[r]] # "none"
          /\ Position[s] > Position["status"] => ~ NextSliceDetermined(task)
      BY <2>3, <2>4, NextBehind
    <2> QED
      BY <1>0, <1>2, <2>1, <2>3, <2>5 DEF Behind
  <1>7. ASSUME NEW stage \in {"split", "count", "merge", "slice", "cleanup"}, NEW job \in Jobs,
               EnsureJob(stage, job), stage \in DOMAIN StageJob => job = StageJob[stage]
        PROVE  Goal
    <2>1. tPc' \in Stages
      BY <1>7, NextStageType DEF EnsureJob, Stages
    <2> QED
      BY <1>0, <1>1, <1>7, <2>1, CreationBehind
  <1>8. CASE CreateSliceJob
    <2>1. PICK i \in FirstFree(tTask) : EnsureJob("slice", Slice(i))
      BY <1>8 DEF CreateSliceJob
    <2>2. Slice(i) \in Jobs /\ "slice" \notin DOMAIN StageJob
      BY CopiesType, JobNames DEF RInv, IInv, TypeOK, StageJob
    <2> QED
      BY <1>7, <2>1, <2>2
  <1>9. CASE CreateSplitJob \/ EnsureCountJob \/ CreateMergeJob \/ EnsureCleanupJob
    <2>1. /\ StageJob["split"] = Split /\ StageJob["count"] = Count
          /\ StageJob["merge"] = Merge /\ StageJob["cleanup"] = Cleanup
      BY DEF StageJob
    <2> QED
      BY <1>7, <1>9, <2>1, JobNames
      DEF CreateSplitJob, EnsureCountJob, CreateMergeJob, EnsureCleanupJob
  <1>10. CASE UpdateStatusWithProgressing
    <2>1. PICK i \in FirstFree(tTask), ok \in BOOLEAN :
            /\ UpdateStatus(tFresh, WithSliceScheduled(tTask, i), ok)
            /\ tErr' = ~ ok
            /\ IF ok THEN tPc' \in NextStage("status", WithSliceScheduled(tTask, i))
                     ELSE tPc' = "finalize"
      BY <1>10 DEF UpdateStatusWithProgressing
    <2>2. CASE ok
      <3>1. tFresh /\ task' = WithSliceScheduled(tTask, i)
        BY <2>1, <2>2, UpdateWritesOrNot DEF Store
      <3>2. tTask = task /\ tTask \in Tasks
        BY <1>10, <3>1
        DEF UpdateStatusWithProgressing, RInv, IInv, TypeOK, TaskCopyOlder, Stages
      <3>3. i \in task'.scheduled /\ i \notin task.scheduled
        BY <3>1, <3>2 DEF WithSliceScheduled, FirstFree, Booked, Tasks
      <3> QED
        BY <1>2, <3>3
    <2>3. CASE ~ ok
      BY <1>0, <2>1, <2>3
    <2> QED
      BY <2>2, <2>3
  <1>11. CASE CleanupJobs
    <2>1. tPc = "delete"
      BY <1>11 DEF CleanupJobs
    <2>2. tTask.ready /\ Older(tTask, task)
      BY <2>1 DEF RInv, IInv, TaskCopyOlder, Due, Stages
    <2> QED
      BY <1>1, <2>2 DEF Older
  <1>12. CASE SetFailureCondition
    <2>1. /\ tPc = "finalize" /\ tPc' = "idle" /\ taskQueued' = (taskQueued \/ tErr)
          /\ \E ok \in BOOLEAN : UpdateStatus(tFresh, [tTask EXCEPT !.failed = tErr], ok)
      BY <1>12 DEF SetFailureCondition
    <2>2. events' = events
      BY <1>2, <2>1, UpdateWritesOrNot DEF Store, apiVars
    <2>3. ~ Awaited /\ ~ tErr
      BY <1>2, <2>1, <2>2 DEF Awaited
    <2>4. Behind("finalize", task)
      BY <1>0, <1>1, <2>1, <2>3 DEF StagesBehind
    <2>5. Behind("finalize", task)'
      BY <1>0, <1>1, <1>2, <2>4, BehindStays
    <2> QED
      BY <1>0, <2>1, <2>5
  <1>13. CASE UpdateTaskStatus
    <2>1. \E ok \in BOOLEAN : UpdateStatus(jFresh, WithJobComplete(jTask, jJob), ok)
      BY <1>13 DEF UpdateTaskStatus
    <2>2. events' = events
      BY <1>2, <2>1, UpdateWritesOrNot DEF Store, apiVars
    <2> QED
      BY <1>3, <1>13, <2>2 DEF UpdateTaskStatus
  <1>14. CASE CountReports
    BY <1>2, <1>3, <1>14 DEF CountReports, Store
  <1>15. ASSUME NEW job, JobCompletes(job) \/ JobFails(job) PROVE Goal
    BY <1>3, <1>15 DEF JobCompletes, JobFails, JobEnds, apiVars, tVars
  <1>16. CASE JobPop \/ JobGet \/ FetchTask \/ UNCHANGED vars
    <2>1. UNCHANGED <<events, taskQueued, tPc, tErr>>
      BY <1>16 DEF JobPop, JobGet, FetchTask, vars, apiVars, tVars
    <2> QED
      BY <1>3, <2>1
  <1> QED
    BY <1>4, <1>5, <1>6, <1>8, <1>9, <1>10, <1>11, <1>12, <1>13, <1>14, <1>15, <1>16
    DEF Next, TaskReconcile, JobReconcile, Pods

-----------------------------------------------------------------------------
(* The inductive invariant, and what follows when nobody has work to do.   *)

LEMMA WInvInit == Init => WInv
  <1> SUFFICES ASSUME Init PROVE WInv
    OBVIOUS
  <1>1. FInv
    BY FInvInit
  <1>2. PlanFollowed
    <2>1. task.finished = {} /\ Cardinality(task.finished) = 0 /\ Booked(task) = {}
      BY FS_EmptySet DEF Init, NewTask, Booked
    <2>2. Booked(task) = 0 .. (0 - 1) /\ 0 \in 0 .. MaxSlices
      BY <2>1, SlicesAssumption
    <2>3. task.planned = 0 /\ task.finishedCount = 0
      BY DEF Init, NewTask
    <2>4. \E n \in 0 .. MaxSlices : Booked(task) = 0 .. (n - 1)
      BY <2>2
    <2>5. Cardinality(task.finished) <= task.finishedCount
      BY <2>1, <2>3
    <2> QED
      BY <2>3, <2>4, <2>5 DEF PlanFollowed
  <1>3. \A job \in Jobs : jobs[job] = "none"
    BY DEF Init
  <1>4. CountPatched /\ CompletionsQueued
    BY <1>3, JobNames DEF CountPatched, CompletionsQueued
  <1>5. CopyStored /\ StagesBehind
    BY DEF Init, CopyStored, StagesBehind, Awaited
  <1> QED
    BY <1>1, <1>2, <1>4, <1>5 DEF WInv, FInv

LEMMA WInvNext == FInv /\ WInv /\ [Next]_vars => FInv' /\ WInv'
  BY FInvNext, PlanKept, CountKept, CompletionsKept, CopyKept, StagesBehindKept DEF FInv, WInv

\* When neither worker has anything to do, the pipeline has ended on the stored
\* Task, every completion is recorded and every booked slice has an open Job.
LEMMA NothingPending ==
    ASSUME WInv, Quiescent, ~ task.ready
    PROVE  /\ task \in Tasks /\ jobs \in [Jobs -> JobStates] /\ Sound(task)
           /\ task.planned \in Nat /\ task.finishedCount \in Nat
           /\ Behind("finalize", task)
           /\ \A job \in Jobs : jobs[job] = "complete" => Recorded(job)
           /\ \A i \in task.scheduled : i \in Indexes /\ jobs[Slice(i)] \notin {"none", "complete"}
  <1>1. /\ task \in Tasks /\ jobs \in [Jobs -> JobStates] /\ Sound(task)
        /\ task.planned \in Nat /\ task.finishedCount \in Nat
    BY DEF WInv, RInv, IInv, TypeOK, VersionsOlder, Tasks
  <1>2. \A job \in Jobs : jobs[job] = "complete" => Recorded(job)
    BY DEF WInv, CompletionsQueued, Quiescent
  <1>3. Behind("finalize", task)
    BY DEF WInv, StagesBehind, Awaited, Quiescent
  <1>4. ASSUME NEW i \in task.scheduled
        PROVE  i \in Indexes /\ jobs[Slice(i)] \notin {"none", "complete"}
    <2>1. i \in Indexes /\ i \notin task.finished
      BY <1>1 DEF Tasks, Sound
    <2>2. ~ Deleted
      BY DEF WInv, RInv, IInv, VersionsOlder, Older, Deleted
    <2>3. jobs[Slice(i)] # "none"
      BY <2>2 DEF WInv, RInv, IInv, SliceJobsKept
    <2>4. ~ Recorded(Slice(i))
      BY <2>1 DEF Recorded
    <2> QED
      BY <1>2, <2>1, <2>3, <2>4, JobNames
  <1> QED
    BY <1>1, <1>2, <1>3, <1>4

\* Slices are booked without a gap, so that none is free once n are booked.
LEMMA PlanIsBooked ==
    ASSUME WInv, FirstFree(task) = {}
    PROVE  \E n \in Nat : n >= task.planned /\ Booked(task) = 0 .. (n - 1)
  <1>1. PICK n \in 0 .. MaxSlices : Booked(task) = 0 .. (n - 1)
    BY DEF WInv, PlanFollowed
  <1>2. n \in Nat /\ task.planned \in Nat
    BY SlicesAssumption DEF WInv, RInv, IInv, TypeOK, Tasks
  <1>3. n < task.planned => n \in FirstFree(task)
    BY <1>1, <1>2 DEF FirstFree
  <1> QED
    BY <1>1, <1>2, <1>3

\* Without an awaited reconcile and with every completion recorded, no stage is
\* due whose Job is missing, and no Job is complete whose stage is not over.
LEMMA WaitingIsForPods == WInv => WaitsOnlyForPods
  <1> SUFFICES ASSUME WInv, Quiescent, ~ task.ready, MaxCount # 0,
                      \A job \in Jobs : jobs[job] \notin {"active", "reported", "failed"}
               PROVE  FALSE
    BY DEF WaitsOnlyForPods
  <1> USE JobNames
  <1>1. /\ task \in Tasks /\ jobs \in [Jobs -> JobStates] /\ Sound(task)
        /\ task.planned \in Nat /\ task.finishedCount \in Nat
    BY NothingPending
  <1>2. \A job \in Jobs : jobs[job] # "none" => Recorded(job)
    BY <1>1, NothingPending DEF JobStates
  <1>3. Behind("finalize", task)
    BY NothingPending
  <1>4. /\ task.planned = 0 => jobs[Split] # "none"
        /\ task.split => jobs[Count] # "none"
        /\ AllSlicesFinished(task) => jobs[Merge] # "none"
        /\ task.merged => jobs[Cleanup] # "none"
        /\ ~ NextSliceDetermined(task)
    <2>1. /\ {"split", "count", "merge", "cleanup"} = DOMAIN StageJob
          /\ StageJob["split"] = Split /\ StageJob["count"] = Count
          /\ StageJob["merge"] = Merge /\ StageJob["cleanup"] = Cleanup
      BY DEF StageJob
    <2>2. /\ Position["split"] < Position["finalize"] /\ Position["count"] < Position["finalize"]
          /\ Position["merge"] < Position["finalize"]
          /\ Position["cleanup"] < Position["finalize"]
          /\ Position["finalize"] > Position["status"]
      BY DEF Position
    <2>3. /\ Due("split", task) <=> task.planned = 0
          /\ Due("count", task) <=> task.split
          /\ Due("merge", task) <=> AllSlicesFinished(task)
          /\ Due("cleanup", task) <=> task.merged
      BY DEF Due, HasNoSlicesPlanned
    <2> QED
      BY <1>3, <2>1, <2>2, <2>3 DEF Behind
  <1>5. task.planned > 0
    <2> SUFFICES ASSUME task.planned = 0 PROVE FALSE
      BY <1>1
    <2>1. task.split
      BY <1>2, <1>4 DEF Recorded
    <2>2. jobs[Count] = "complete"
      BY <1>1, <1>4, <2>1 DEF JobStates
    <2> QED
      BY <2>2 DEF WInv, CountPatched
  <1>6. ~ task.merged
    BY <1>2, <1>4 DEF Recorded
  <1>7. task.progressing # "false"
    BY <1>2, <1>4, <1>6, <1>1 DEF Recorded, Sound, AllSlicesFinished
  <1>8. task.finishedCount < task.planned /\ Cardinality(task.finished) <= task.finishedCount
    BY <1>5, <1>7 DEF WInv, PlanFollowed
  <1>9. task.scheduled = {}
    BY <1>1, NothingPending DEF JobStates
  <1>10. SlotFree(task)
    <2>1. Cardinality(task.scheduled) = 0
      BY <1>9, FS_EmptySet
    <2> QED
      BY <2>1, CountAssumption DEF SlotFree
  <1>11. FirstFree(task) = {}
    BY <1>4, <1>8, <1>10 DEF NextSliceDetermined, PartialSlicesFinished
  <1>12. PICK n \in Nat : n >= task.planned /\ Booked(task) = 0 .. (n - 1)
    BY <1>11, PlanIsBooked
  <1>13. Cardinality(task.finished) = n
    <2>1. task.finished = 0 .. (n - 1)
      BY <1>9, <1>12 DEF Booked
    <2>2. Cardinality(0 .. (n - 1)) = n
      BY FS_Interval
    <2> QED
      BY <2>1, <2>2
  <1> QED
    BY <1>1, <1>8, <1>12, <1>13

\* No further slice begins only if the slots are taken or the slices booked, and
\* what is booked and not finished has an open Job.
LEMMA SlotsAreUsed == WInv => SlotsUsed
  <1> DEFINE open == {i \in Indexes : jobs[Slice(i)] \notin {"none", "complete"}}
  <1> SUFFICES ASSUME WInv, Quiescent, ~ task.ready, task.progressing # "false"
               PROVE  \/ 0 .. (task.planned - 1) \subseteq task.finished \cup open
                      \/ MaxCount # Unlimited /\ Cardinality(open) >= MaxCount
    BY DEF SlotsUsed
  <1>1. task.scheduled \in SUBSET open /\ task.planned \in Nat /\ task.finishedCount \in Nat
    BY NothingPending
  <1>2. ~ NextSliceDetermined(task)
    BY NothingPending DEF Behind, Position
  <1>3. CASE ~ PartialSlicesFinished(task)
    <2>1. ~ (task.planned > 0)
      BY <1>1, <1>3 DEF WInv, PlanFollowed, PartialSlicesFinished
    <2> QED
      BY <1>1, <2>1
  <1>4. CASE ~ SlotFree(task)
    <2>1. IsFiniteSet(open)
      <3>1. IsFiniteSet(Indexes)
        BY SlicesAssumption, FS_Interval DEF Indexes
      <3> QED
        BY <3>1, FS_Subset
    <2> HIDE DEF open
    <2>2. /\ Cardinality(task.scheduled) <= Cardinality(open)
          /\ Cardinality(task.scheduled) \in Nat /\ Cardinality(open) \in Nat
      BY <1>1, <2>1, FS_Subset, FS_CardinalityType
    <2> QED
      BY <1>4, <2>2, CountAssumption DEF SlotFree
  <1>5. CASE FirstFree(task) = {}
    <2>1. PICK n \in Nat : n >= task.planned /\ Booked(task) = 0 .. (n - 1)
      BY <1>5, PlanIsBooked
    <2>2. 0 .. (task.planned - 1) \subseteq Booked(task)
      BY <1>1, <2>1
    <2> QED
      BY <1>1, <2>2 DEF Booked
  <1> QED
    BY <1>2, <1>3, <1>4, <1>5 DEF NextSliceDetermined

\* The versions, queues and Jobs fit together: a completion that is not recorded is
\* queued, a reconciler with an old copy has another reconcile before it, and the
\* pipeline leaves no stage out (both Reconcile functions and setup.go).
THEOREM WaitInvariance == Spec => []WInv
  <1>1. Init => FInv /\ WInv
    BY FInvInit, WInvInit
  <1>2. (FInv /\ WInv) /\ [Next]_vars => (FInv /\ WInv)'
    BY WInvNext
  <1> QED
    BY <1>1, <1>2, PTL DEF Spec

\* No wake-up is lost: when both workers are idle and their queues and the
\* informer's stream are empty, the Task is Ready or a pod runs or has failed,
\* whatever was refused, lost or cut off before (setup.go and handler.go, whose
\* watches are all that wakes the controllers).
THEOREM OnlyPodsAwaited == Spec => []WaitsOnlyForPods
  BY WaitInvariance, WaitingIsForPods, PTL

\* A slot is free only when every slice has begun: a failed pod, a refused booking
\* or a lost update costs no more than the slot it holds (determineNextSliceIndex).
THEOREM SlotsInUse == Spec => []SlotsUsed
  BY WaitInvariance, SlotsAreUsed, PTL
=============================================================================
