------------------------- MODULE TaskOperatorProofs -------------------------
(***************************************************************************)
(* What TLAPS proves of TaskOperator, for every number of slices, every    *)
(* MaxCount and every bound.                                               *)
(***************************************************************************)
EXTENDS TaskOperator, FiniteSetTheorems, SequenceTheorems, TLAPS

\* The names of the Jobs.
LEMMA JobNames ==
    /\ Split \in Jobs /\ Count \in Jobs /\ Merge \in Jobs /\ Cleanup \in Jobs
    /\ \A i \in Indexes : Slice(i) \in Jobs
    /\ \A job \in Jobs : \/ job \in {Split, Count, Merge, Cleanup}
                         \/ \E i \in Indexes : job = Slice(i)
  BY DEF Jobs

\* A write leaves a Task at the API server and Tasks in the informer's stream.
LEMMA StoreType ==
    ASSUME TypeOK, NEW new \in Tasks, Store(new)
    PROVE  task' \in Tasks /\ events' \in Seq(Tasks)
  BY AppendProperties DEF TypeOK, Store

\* So does Status().Update, whatever its outcome.
LEMMA UpdateStatusType ==
    ASSUME TypeOK, NEW fresh, NEW new \in Tasks, NEW ok, UpdateStatus(fresh, new, ok)
    PROVE  task' \in Tasks /\ events' \in Seq(Tasks) /\ faults' \in Nat
  <1>1. faults' \in Nat
    BY DEF TypeOK, UpdateStatus, Fault
  <1>2. CASE Store(new)
    BY <1>1, <1>2, StoreType
  <1>3. CASE UNCHANGED apiVars
    BY <1>1, <1>3 DEF TypeOK, apiVars
  <1> QED
    BY <1>2, <1>3 DEF UpdateStatus, apiVars

\* CreateOrUpdate of a Job the Task can own keeps the Jobs and the queue typed.
LEMMA CreateOrUpdateType ==
    ASSUME TypeOK, NEW job \in Jobs, CreateOrUpdate(job) \/ UNCHANGED <<jobs, jobQueue>>
    PROVE  /\ jobs' \in [Jobs -> JobStates]
           /\ jobQueue' \in SUBSET Jobs
  BY DEF TypeOK, CreateOrUpdate, JobStates

\* The stage after another one is a stage.
LEMMA NextStageType ==
    ASSUME NEW stage, NEW t
    PROVE  NextStage(stage, t) \subseteq Stages
  BY DEF NextStage, DueAfter

\* The updates the two reconcilers make to their copies yield Tasks.
LEMMA CopiesType ==
    ASSUME NEW t \in Tasks
    PROVE  /\ FirstFree(t) \subseteq 0 .. (t.planned - 1)
           /\ FirstFree(t) \subseteq Indexes
           /\ \A i \in Indexes : WithSliceScheduled(t, i) \in Tasks
           /\ \A job \in Jobs : WithJobComplete(t, job) \in Tasks
  <1>1. FirstFree(t) \subseteq 0 .. (t.planned - 1)
    BY DEF FirstFree
  <1>2. t.planned \in 0 .. MaxSlices
    BY DEF Tasks
  <1>3. FirstFree(t) \subseteq Indexes
    BY <1>1, <1>2, SlicesAssumption DEF Indexes
  <1>4. ASSUME NEW i \in Indexes PROVE WithSliceScheduled(t, i) \in Tasks
    BY DEF WithSliceScheduled, Tasks
  <1>5. ASSUME NEW i \in Indexes PROVE WithSliceFinished(t, i) \in Tasks
    <2>1. t.finishedCount + 1 \in Nat
      BY DEF Tasks
    <2>2. t.finished \cup {i} \in SUBSET Indexes
      BY DEF Tasks
    <2>3. (IF t.finishedCount + 1 >= t.planned THEN "false" ELSE t.progressing)
            \in {"unset", "true", "false"}
      BY DEF Tasks
    <2> QED
      BY <2>1, <2>2, <2>3 DEF WithSliceFinished, Tasks
  <1>6. ASSUME NEW job \in Jobs PROVE WithJobComplete(t, job) \in Tasks
    <2>1. CASE job \in {Split, Count, Merge, Cleanup}
      BY <2>1 DEF WithJobComplete, Tasks, Split, Count, Merge, Cleanup
    <2>2. CASE \E i \in Indexes : job = Slice(i)
      BY <2>2, <1>5 DEF WithJobComplete, Slice, Split, Count, Merge, Cleanup
    <2> QED
      BY <2>1, <2>2, JobNames
  <1> QED
    BY <1>1, <1>3, <1>4, <1>6

LEMMA NewTaskType == NewTask \in Tasks
  BY SlicesAssumption DEF NewTask, Tasks

LEMMA TypeInit == Init => TypeOK
  <1> SUFFICES ASSUME Init PROVE TypeOK
    OBVIOUS
  <1>1. events \in Seq(Tasks)
    BY DEF Init
  <1>2. jobs \in [Jobs -> JobStates]
    BY DEF Init, JobStates
  <1>3. faults \in Nat /\ restarts \in Nat /\ resyncs \in Nat /\ revisits \in Nat
    BY DEF Init
  <1>4. tPc \in {"idle", "get"} \cup Stages /\ jPc \in {"idle", "get", "fetch", "update"}
    BY DEF Init
  <1> QED
    BY <1>1, <1>2, <1>3, <1>4, NewTaskType, JobNames DEF Init, TypeOK

\* Every step keeps the types: one step of the proof per action.
LEMMA TypeNext == TypeOK /\ [Next]_vars => TypeOK'
  <1> SUFFICES ASSUME TypeOK, [Next]_vars PROVE TypeOK'
    OBVIOUS
  <1> USE NewTaskType, JobNames
  <1>1. CASE TaskEvent
    BY <1>1 DEF TaskEvent, TypeOK, tVars, jVars, bounds
  <1>2. CASE TaskPop
    <2>1. revisits' \in Nat
      BY <1>2 DEF TaskPop, TypeOK
    <2>2. tPc' \in {"idle", "get"} \cup Stages
      BY <1>2 DEF TaskPop
    <2> QED
      BY <1>2, <2>1, <2>2 DEF TaskPop, TypeOK, apiVars, jVars
  <1>3. CASE TaskGet
    BY <1>3, NextStageType DEF TaskGet, TypeOK, apiVars, jVars, bounds
  <1>4. ASSUME NEW stage, NEW job \in Jobs, EnsureJob(stage, job) PROVE TypeOK'
    <2>1. jobs' \in [Jobs -> JobStates] /\ jobQueue' \in SUBSET Jobs
      BY <1>4, CreateOrUpdateType DEF EnsureJob
    <2>2. tPc' \in Stages
      BY <1>4, NextStageType DEF EnsureJob, Stages
    <2>3. tErr' \in BOOLEAN
      BY <1>4 DEF EnsureJob, TypeOK
    <2>4. faults' \in Nat
      BY <1>4 DEF EnsureJob, Fault, TypeOK
    <2> QED
      BY <1>4, <2>1, <2>2, <2>3, <2>4 DEF EnsureJob, TypeOK, apiVars, jVars
  <1>5. CASE CreateSplitJob \/ EnsureCountJob \/ CreateMergeJob \/ EnsureCleanupJob
    BY <1>4, <1>5 DEF CreateSplitJob, EnsureCountJob, CreateMergeJob, EnsureCleanupJob
  <1>6. CASE CreateSliceJob
    <2>1. PICK i \in FirstFree(tTask) : EnsureJob("slice", Slice(i))
      BY <1>6 DEF CreateSliceJob
    <2>2. Slice(i) \in Jobs
      BY CopiesType DEF TypeOK
    <2> QED
      BY <1>4, <2>1, <2>2
  <1>7. CASE CleanupJobs
    <2>1. jobs' \in [Jobs -> JobStates] /\ jobQueue' \in SUBSET Jobs
      <3>1. CASE DeleteJobs
        BY <3>1 DEF DeleteJobs, JobStates, TypeOK
      <3>2. CASE UNCHANGED <<jobs, jobQueue>>
        BY <3>2 DEF TypeOK
      <3> QED
        BY <1>7, <3>1, <3>2 DEF CleanupJobs
    <2>2. tErr' \in BOOLEAN
      BY <1>7 DEF CleanupJobs, TypeOK
    <2>3. faults' \in Nat
      BY <1>7 DEF CleanupJobs, Fault, TypeOK
    <2>4. tPc' \in Stages
      BY <1>7 DEF CleanupJobs, Stages
    <2> QED
      BY <1>7, <2>1, <2>2, <2>3, <2>4 DEF CleanupJobs, TypeOK, apiVars, jVars
  <1>8. CASE UpdateStatusWithProgressing
    <2>1. PICK i \in FirstFree(tTask), ok \in BOOLEAN :
            /\ UpdateStatus(tFresh, WithSliceScheduled(tTask, i), ok)
            /\ tTask' = WithSliceScheduled(tTask, i)
            /\ tFresh' = (tFresh /\ (ok \/ task' = task))
            /\ tErr' = ~ok
            /\ IF ok THEN tPc' \in NextStage("status", WithSliceScheduled(tTask, i))
                     ELSE tPc' = "finalize"
      BY <1>8 DEF UpdateStatusWithProgressing
    <2>2. WithSliceScheduled(tTask, i) \in Tasks
      BY CopiesType DEF TypeOK
    <2>3. task' \in Tasks /\ events' \in Seq(Tasks) /\ faults' \in Nat
      BY <2>1, <2>2, UpdateStatusType
    <2>4. tPc' \in Stages
      BY <2>1, NextStageType DEF Stages
    <2> QED
      BY <1>8, <2>1, <2>2, <2>3, <2>4 DEF UpdateStatusWithProgressing, TypeOK
  <1>9. CASE SetFailureCondition
    <2>1. PICK ok \in BOOLEAN : UpdateStatus(tFresh, [tTask EXCEPT !.failed = tErr], ok)
      BY <1>9 DEF SetFailureCondition
    <2>2. [tTask EXCEPT !.failed = tErr] \in Tasks
      BY DEF TypeOK, Tasks
    <2>3. task' \in Tasks /\ events' \in Seq(Tasks) /\ faults' \in Nat
      BY <2>1, <2>2, UpdateStatusType
    <2> QED
      BY <1>9, <2>3 DEF SetFailureCondition, TypeOK
  <1>10. CASE JobPop
    BY <1>10 DEF JobPop, TypeOK, apiVars, tVars, bounds
  <1>11. CASE JobGet
    BY <1>11 DEF JobGet, TypeOK, apiVars, tVars, bounds
  <1>12. CASE FetchTask
    BY <1>12 DEF FetchTask, TypeOK, apiVars, tVars, bounds
  <1>13. CASE UpdateTaskStatus
    <2>1. PICK ok \in BOOLEAN :
            /\ UpdateStatus(jFresh, WithJobComplete(jTask, jJob), ok)
            /\ jobQueue' = IF ok THEN jobQueue ELSE jobQueue \cup {jJob}
      BY <1>13 DEF UpdateTaskStatus
    <2>2. WithJobComplete(jTask, jJob) \in Tasks
      BY CopiesType DEF TypeOK
    <2>3. task' \in Tasks /\ events' \in Seq(Tasks) /\ faults' \in Nat
      BY <2>1, <2>2, UpdateStatusType
    <2> QED
      BY <1>13, <2>1, <2>3 DEF UpdateTaskStatus, TypeOK
  <1>14. CASE CountReports
    <2>1. PICK n \in 1 .. (IF task.planned = 0 THEN MaxSlices ELSE task.planned) :
            Store([task EXCEPT !.planned = n])
      BY <1>14 DEF CountReports
    <2>2. [task EXCEPT !.planned = n] \in Tasks
      <3>1. task.planned \in 0 .. MaxSlices
        BY DEF TypeOK, Tasks
      <3>2. n \in 0 .. MaxSlices
        BY <3>1, SlicesAssumption
      <3> QED
        BY <3>2 DEF TypeOK, Tasks
    <2>3. task' \in Tasks /\ events' \in Seq(Tasks)
      BY <2>1, <2>2, StoreType
    <2>4. jobs' \in [Jobs -> JobStates]
      BY <1>14 DEF CountReports, JobStates, TypeOK
    <2>5. tFresh' \in BOOLEAN /\ jFresh' \in BOOLEAN
      BY <1>14 DEF CountReports, TypeOK
    <2> QED
      BY <1>14, <2>3, <2>4, <2>5 DEF CountReports, TypeOK, bounds
  <1>15. ASSUME NEW job \in Jobs, JobCompletes(job) \/ JobFails(job) PROVE TypeOK'
    <2>1. PICK state \in JobStates : JobEnds(job, state)
      BY <1>15 DEF JobCompletes, JobFails, JobStates
    <2>2. jobs' \in [Jobs -> JobStates]
      BY <2>1 DEF JobEnds, TypeOK
    <2> QED
      BY <2>1, <2>2 DEF JobEnds, TypeOK, apiVars, tVars, jVars, bounds
  <1>16. CASE Restart
    <2>1. restarts' \in Nat
      BY <1>16 DEF Restart, TypeOK
    <2>2. jobQueue' \in SUBSET Jobs
      BY <1>16 DEF Restart
    <2>3. events' \in Seq(Tasks)
      BY <1>16 DEF Restart
    <2>4. /\ tPc' \in {"idle", "get"} \cup Stages
          /\ jPc' \in {"idle", "get", "fetch", "update"}
      BY <1>16 DEF Restart
    <2>5. /\ UNCHANGED <<task, jobs, faults, resyncs, revisits>>
          /\ taskQueued' = TRUE /\ tFresh' = FALSE /\ tErr' = FALSE /\ jFresh' = FALSE
          /\ cache' = task /\ tTask' = NewTask /\ jTask' = NewTask /\ jJob' = Split
      BY <1>16 DEF Restart
    <2> QED
      BY <2>1, <2>2, <2>3, <2>4, <2>5 DEF TypeOK
  <1>17. CASE Resync
    BY <1>17 DEF Resync, TypeOK, apiVars, tVars, jVars
  <1>18. CASE UNCHANGED vars
    BY <1>18 DEF vars, TypeOK, apiVars, tVars, jVars, bounds
  <1> QED
    BY <1>1, <1>2, <1>3, <1>5, <1>6, <1>7, <1>8, <1>9, <1>10, <1>11, <1>12, <1>13,
       <1>14, <1>15, <1>16, <1>17, <1>18
    DEF Next, TaskReconcile, JobReconcile, Pods

\* The Task, its copies, the Jobs and the queues keep their types.
THEOREM TypeCorrect == Spec => []TypeOK
  BY TypeInit, TypeNext, PTL DEF Spec
=============================================================================
