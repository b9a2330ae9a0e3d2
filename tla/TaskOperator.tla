---------------------------- MODULE TaskOperator ----------------------------
(***************************************************************************)
(* The operator's life of one Task (src/pkg/operator): the task reconciler *)
(* creates the split, count, slice, merge and cleanup jobs, the job        *)
(* reconciler records their completion in the Task's status.  Each of the  *)
(* two controllers has one worker.  Both read the Task from the informer   *)
(* cache, which trails the API server, and write it with an optimistic     *)
(* update that the API server refuses when the copy is out of date.        *)
(* A step of a worker is one API call or one read of the cache; the        *)
(* workers, the informer, the jobs' pods, a restart of the operator and    *)
(* failing API calls interleave between steps.                             *)
(***************************************************************************)
EXTENDS Naturals, Sequences, FiniteSets

CONSTANTS
    MaxSlices,     \* the most segments the split may produce
    MaxCount,      \* ConcurrentCountStrategy.MaxCount, or Unlimited
    Unlimited,     \* the Task has no ConcurrentCountStrategy
    FailingJobs,   \* the types of the jobs whose pods may fail
    MaxLag,        \* bound: Task versions the informer cache may trail by
    MaxFaults,     \* bound: API calls that fail without a conflict
    MaxRestarts,   \* bound: restarts of the operator
    MaxResyncs,    \* bound: periodic resyncs of the informers
    MaxRevisits    \* bound: reconciles of a Ready Task whose Jobs are deleted

ASSUME SlicesAssumption == MaxSlices \in Nat \ {0}
ASSUME CountAssumption == MaxCount \in Nat \cup {Unlimited} /\ Unlimited \notin Nat
ASSUME BoundAssumption ==
    /\ MaxLag \in Nat \ {0}
    /\ MaxFaults \in Nat
    /\ MaxRestarts \in Nat
    /\ MaxResyncs \in Nat
    /\ MaxRevisits \in Nat

VARIABLES
    task,       \* the Task as the API server stores it
    events,     \* versions of the Task the informer has yet to deliver, oldest first
    cache,      \* the Task in the informer cache
    jobs,       \* the state of each Job the Task can own
    taskQueued, \* the Task's key is in the task controller's work queue
    tPc,        \* where the task reconciler is
    tTask,      \* its in-memory Task (TaskContext.task)
    tFresh,     \* tTask carries the API server's resourceVersion
    tErr,       \* the pipeline failed before the finalizer
    jobQueue,   \* keys in the job controller's work queue
    jPc,        \* where the job reconciler is
    jJob,       \* the Job it reconciles (JobContext.job)
    jTask,      \* its in-memory Task (JobContext.task)
    jFresh,     \* jTask carries the API server's resourceVersion
    faults, restarts, resyncs, revisits  \* how often the bounded events happened

apiVars == <<task, events>>
tVars == <<tPc, tTask, tFresh, tErr>>
jVars == <<jPc, jJob, jTask, jFresh>>
bounds == <<faults, restarts, resyncs, revisits>>
vars == <<apiVars, cache, jobs, taskQueued, tVars, jobQueue, jVars, bounds>>
-----------------------------------------------------------------------------
Indexes == 0 .. (MaxSlices - 1)

\* A Job is named after its type and, for a slice, its index.
Split == <<"split", 0>>
Count == <<"count", 0>>
Merge == <<"merge", 0>>
Cleanup == <<"cleanup", 0>>
Slice(i) == <<"slice", i>>
Jobs == {Split, Count, Merge, Cleanup} \cup {Slice(i) : i \in Indexes}

\* "reported": the count job's pod has patched the Task and is about to end.
JobStates == {"none", "active", "reported", "complete", "failed"}

\* SlicesScheduled and SlicesFinished are lists of references in the code.  No
\* index is ever twice in the first (only FirstFree indexes are appended), so a
\* set stands for it; the second may repeat an index: its length is kept too.
Tasks == [planned : 0 .. MaxSlices,
          scheduled : SUBSET Indexes,
          finished : SUBSET Indexes,
          finishedCount : Nat,
          split : BOOLEAN,
          counted : BOOLEAN,
          progressing : {"unset", "true", "false"},
          merged : BOOLEAN,
          ready : BOOLEAN,
          failed : BOOLEAN]

NewTask == [planned |-> 0, scheduled |-> {}, finished |-> {}, finishedCount |-> 0,
            split |-> FALSE, counted |-> FALSE, progressing |-> "unset",
            merged |-> FALSE, ready |-> FALSE, failed |-> FALSE]
-----------------------------------------------------------------------------
(* The predicates of the task reconciler's pipeline.                       *)

HasNoSlicesPlanned(t) == t.planned = 0

\* Mutant: one completion short of the plan, and Progressing is not looked at.
AllButOneSliceFinished(t) == t.planned > 0 /\ t.finishedCount + 1 >= t.planned

AllSlicesFinished(t) == t.progressing = "false" /\ t.finishedCount >= t.planned

PartialSlicesFinished(t) == t.finishedCount < t.planned

Booked(t) == t.scheduled \cup t.finished

\* Mutant: the limit is compared with > instead of >=.
SlotFreeOneMore(t) == MaxCount # Unlimited => Cardinality(t.scheduled) <= MaxCount

SlotFree(t) == MaxCount # Unlimited => Cardinality(t.scheduled) < MaxCount

\* The index determineNextSliceIndex picks: the least that no list names.
FirstFree(t) == {i \in 0 .. (t.planned - 1) :
                    i \notin Booked(t) /\ \A j \in 0 .. (i - 1) : j \in Booked(t)}

NextSliceDetermined(t) ==
    PartialSlicesFinished(t) /\ SlotFree(t) /\ FirstFree(t) # {}

\* The steps of the pipeline, in their order, and when each is executed.
Stages == {"split", "count", "merge", "slice", "status", "cleanup", "delete", "finalize"}

Position == [get |-> 0, split |-> 1, count |-> 2, merge |-> 3, slice |-> 4,
             status |-> 5, cleanup |-> 6, delete |-> 7, finalize |-> 8]

Due(stage, t) ==
    CASE stage = "split" -> HasNoSlicesPlanned(t)
      [] stage = "count" -> t.split
      [] stage = "merge" -> AllSlicesFinished(t)
      [] stage \in {"slice", "status"} -> NextSliceDetermined(t)
      [] stage = "cleanup" -> t.merged
      [] stage = "delete" -> t.ready
      [] OTHER -> TRUE

DueAfter(stage, t) == {s \in Stages : Position[s] > Position[stage] /\ Due(s, t)}

NextStage(stage, t) == {s \in DueAfter(stage, t) :
                           \A u \in DueAfter(stage, t) : Position[s] <= Position[u]}
-----------------------------------------------------------------------------
(* The API server.                                                         *)

\* A call fails although the API server is willing: before or after its effect.
Fault == faults < MaxFaults /\ faults' = faults + 1

\* An update that changes nothing creates no version and no watch event.
Store(new) ==
    /\ task' = new
    /\ IF new = task THEN UNCHANGED events
                     ELSE Len(events) < MaxLag /\ events' = Append(events, new)

\* Mutant: a patch instead of an update, which no resourceVersion guards.
PatchStatus(fresh, new, ok) ==
    \/ ok /\ Store(new) /\ UNCHANGED faults
    \/ ~ok /\ Fault /\ (UNCHANGED apiVars \/ Store(new))

\* Status().Update with a copy of the Task: refused with a conflict unless the
\* copy carries the current resourceVersion; ok tells what the caller learns.
UpdateStatus(fresh, new, ok) ==
    \/ ok /\ fresh /\ Store(new) /\ UNCHANGED faults
    \/ ~ok /\ ~fresh /\ UNCHANGED <<apiVars, faults>>
    \/ ~ok /\ Fault /\ (UNCHANGED apiVars \/ (fresh /\ Store(new)))

\* Create the Job unless it exists; its creation is an event of its own.
CreateOrUpdate(job) ==
    IF jobs[job] = "none"
    THEN /\ jobs' = [jobs EXCEPT ![job] = "active"]
         /\ jobQueue' = jobQueue \cup {job}
    ELSE UNCHANGED <<jobs, jobQueue>>

\* The informer applies the next version to the cache and queues the Task.
TaskEvent ==
    /\ events # <<>>
    /\ cache' = Head(events)
    /\ events' = Tail(events)
    /\ taskQueued' = TRUE
    /\ UNCHANGED <<task, jobs, tVars, jobQueue, jVars, bounds>>
-----------------------------------------------------------------------------
(* The task reconciler.                                                    *)

\* The Task is Ready and its Jobs are gone.  A late event, a restart or a resync
\* makes the operator reconcile it again and create its Jobs once more.
Done == cache.ready /\ \A job \in Jobs : jobs[job] = "none"

TaskPop ==
    /\ tPc = "idle"
    /\ taskQueued
    /\ IF Done THEN revisits < MaxRevisits /\ revisits' = revisits + 1
               ELSE UNCHANGED revisits
    /\ taskQueued' = FALSE
    /\ tPc' = "get"
    /\ UNCHANGED <<apiVars, cache, jobs, tTask, tFresh, tErr, jobQueue, jVars,
                   faults, restarts, resyncs>>

\* Reconcile reads the Task from the cache and enters the pipeline.
TaskGet ==
    /\ tPc = "get"
    /\ tTask' = cache
    /\ tFresh' = (events = <<>>)
    /\ tPc' \in NextStage("get", cache)
    /\ UNCHANGED <<apiVars, cache, jobs, taskQueued, tErr, jobQueue, jVars, bounds>>

\* Mutant: the error of a step that creates a Job is dropped.
EnsureJobIgnoringErrors(stage, job) ==
    /\ tPc = stage
    /\ \/ CreateOrUpdate(job) /\ UNCHANGED faults
       \/ Fault /\ (CreateOrUpdate(job) \/ UNCHANGED <<jobs, jobQueue>>)
    /\ tPc' \in NextStage(stage, tTask)
    /\ UNCHANGED tErr
    /\ UNCHANGED <<apiVars, cache, taskQueued, tTask, tFresh, jVars, restarts, resyncs, revisits>>

\* A step that creates a Job: on an error the pipeline goes to its finalizer.
EnsureJob(stage, job) ==
    /\ tPc = stage
    /\ \/ /\ CreateOrUpdate(job)
          /\ tPc' \in NextStage(stage, tTask)
          /\ UNCHANGED <<tErr, faults>>
       \/ /\ Fault
          /\ CreateOrUpdate(job) \/ UNCHANGED <<jobs, jobQueue>>
          /\ tPc' = "finalize"
          /\ tErr' = TRUE
    /\ UNCHANGED <<apiVars, cache, taskQueued, tTask, tFresh, jVars, restarts, resyncs, revisits>>

CreateSplitJob == EnsureJob("split", Split)
EnsureCountJob == EnsureJob("count", Count)
CreateMergeJob == EnsureJob("merge", Merge)
CreateSliceJob == \E i \in FirstFree(tTask) : EnsureJob("slice", Slice(i))
EnsureCleanupJob == EnsureJob("cleanup", Cleanup)

\* cleanupJobs deletes every Job labelled with the Task's id.
DeleteJobs ==
    /\ jobs' = [job \in Jobs |-> "none"]
    /\ jobQueue' = jobQueue \cup {job \in Jobs : jobs[job] # "none"}

CleanupJobs ==
    /\ tPc = "delete"
    /\ \/ DeleteJobs /\ UNCHANGED <<tErr, faults>>
       \/ Fault /\ (DeleteJobs \/ UNCHANGED <<jobs, jobQueue>>) /\ tErr' = TRUE
    /\ tPc' = "finalize"
    /\ UNCHANGED <<apiVars, cache, taskQueued, tTask, tFresh, jVars, restarts, resyncs, revisits>>

\* updateStatusWithProgressing changes the copy before it writes it, so a
\* failed write leaves the changed copy to the finalizer.
WithSliceScheduled(t, i) ==
    [t EXCEPT !.scheduled = @ \cup {i}, !.progressing = "true"]

UpdateStatusWithProgressing ==
    /\ tPc = "status"
    /\ \E i \in FirstFree(tTask), ok \in BOOLEAN :
         LET new == WithSliceScheduled(tTask, i) IN
         /\ UpdateStatus(tFresh, new, ok)
         /\ tTask' = new
         /\ tFresh' = (tFresh /\ (ok \/ task' = task))
         /\ tErr' = ~ok
         /\ IF ok THEN tPc' \in NextStage("status", new) ELSE tPc' = "finalize"
    /\ jFresh' = (jFresh /\ task' = task)
    /\ UNCHANGED <<cache, jobs, taskQueued, jobQueue, jPc, jJob, jTask, restarts, resyncs, revisits>>

\* Mutant: the condition is set after a failure and never removed.
SetFailureConditionForGood ==
    /\ tPc = "finalize"
    /\ \E ok \in BOOLEAN : UpdateStatus(tFresh, [tTask EXCEPT !.failed = @ \/ tErr], ok)
    /\ taskQueued' = (taskQueued \/ tErr)
    /\ tPc' = "idle"
    /\ tTask' = NewTask
    /\ tFresh' = FALSE
    /\ tErr' = FALSE
    /\ jFresh' = (jFresh /\ task' = task)
    /\ UNCHANGED <<cache, jobs, jobQueue, jPc, jJob, jTask, restarts, resyncs, revisits>>

\* setFailureCondition runs last, whatever happened; its own update error is
\* only logged.  The pipeline's error is returned and the Task queued again.
SetFailureCondition ==
    /\ tPc = "finalize"
    /\ \E ok \in BOOLEAN : UpdateStatus(tFresh, [tTask EXCEPT !.failed = tErr], ok)
    /\ taskQueued' = (taskQueued \/ tErr)
    /\ tPc' = "idle"
    /\ tTask' = NewTask
    /\ tFresh' = FALSE
    /\ tErr' = FALSE
    /\ jFresh' = (jFresh /\ task' = task)
    /\ UNCHANGED <<cache, jobs, jobQueue, jPc, jJob, jTask, restarts, resyncs, revisits>>

TaskReconcile ==
    \/ TaskPop \/ TaskGet
    \/ CreateSplitJob \/ EnsureCountJob \/ CreateMergeJob
    \/ CreateSliceJob \/ UpdateStatusWithProgressing
    \/ EnsureCleanupJob \/ CleanupJobs \/ SetFailureCondition
-----------------------------------------------------------------------------
(* The job reconciler.                                                     *)

JobPop ==
    /\ jPc = "idle"
    /\ \E job \in jobQueue :
         /\ jobQueue' = jobQueue \ {job}
         /\ jJob' = job
    /\ jPc' = "get"
    /\ UNCHANGED <<apiVars, cache, jobs, taskQueued, tVars, jTask, jFresh, bounds>>

\* Mutant: a Job that ended is taken for complete, failed or not.
JobGetEnded ==
    /\ jPc = "get"
    /\ IF jobs[jJob] \in {"complete", "failed"} THEN jPc' = "fetch" /\ UNCHANGED jJob
                                               ELSE jPc' = "idle" /\ jJob' = Split
    /\ UNCHANGED <<apiVars, cache, jobs, taskQueued, tVars, jobQueue, jTask, jFresh, bounds>>

\* Only a Job with the condition Complete is looked at further.
JobGet ==
    /\ jPc = "get"
    /\ IF jobs[jJob] = "complete" THEN jPc' = "fetch" /\ UNCHANGED jJob
                                ELSE jPc' = "idle" /\ jJob' = Split
    /\ UNCHANGED <<apiVars, cache, jobs, taskQueued, tVars, jobQueue, jTask, jFresh, bounds>>

FetchTask ==
    /\ jPc = "fetch"
    /\ jTask' = cache
    /\ jFresh' = (events = <<>>)
    /\ jPc' = "update"
    /\ UNCHANGED <<apiVars, cache, jobs, taskQueued, tVars, jobQueue, jJob, bounds>>

\* Mutant: the finished slice stays in the list of the scheduled ones.
WithSliceKeptScheduled(t, i) ==
    [t EXCEPT !.finished = @ \cup {i},
              !.finishedCount = @ + 1,
              !.progressing = IF t.finishedCount + 1 >= t.planned THEN "false" ELSE @]

\* Mutant: Progressing becomes False one completion late.
WithSliceFinishedLate(t, i) ==
    [t EXCEPT !.finished = @ \cup {i},
              !.finishedCount = @ + 1,
              !.scheduled = @ \ {i},
              !.progressing = IF t.finishedCount >= t.planned THEN "false" ELSE @]

\* updateStatusWithSlicesFinished appends without looking for the index in the
\* list, and drops it from the scheduled slices.
WithSliceFinished(t, i) ==
    [t EXCEPT !.finished = @ \cup {i},
              !.finishedCount = @ + 1,
              !.scheduled = @ \ {i},
              !.progressing = IF t.finishedCount + 1 >= t.planned THEN "false" ELSE @]

WithJobComplete(t, job) ==
    CASE job = Split -> [t EXCEPT !.split = TRUE]
      [] job = Count -> [t EXCEPT !.counted = TRUE]
      [] job = Merge -> [t EXCEPT !.merged = TRUE]
      [] job = Cleanup -> [t EXCEPT !.ready = TRUE]
      [] OTHER -> WithSliceFinished(t, job[2])

\* Mutant: an update error is only logged, so the Job's key is not queued again.
UpdateTaskStatusOnce ==
    /\ jPc = "update"
    /\ \E ok \in BOOLEAN : UpdateStatus(jFresh, WithJobComplete(jTask, jJob), ok)
    /\ jPc' = "idle"
    /\ jJob' = Split
    /\ jTask' = NewTask
    /\ jFresh' = FALSE
    /\ tFresh' = (tFresh /\ task' = task)
    /\ UNCHANGED <<cache, jobs, taskQueued, jobQueue, tPc, tTask, tErr, restarts, resyncs, revisits>>

\* Any error, a conflict too, puts the Job's key back into the queue.
UpdateTaskStatus ==
    /\ jPc = "update"
    /\ \E ok \in BOOLEAN :
         /\ UpdateStatus(jFresh, WithJobComplete(jTask, jJob), ok)
         /\ jobQueue' = IF ok THEN jobQueue ELSE jobQueue \cup {jJob}
    /\ jPc' = "idle"
    /\ jJob' = Split
    /\ jTask' = NewTask
    /\ jFresh' = FALSE
    /\ tFresh' = (tFresh /\ task' = task)
    /\ UNCHANGED <<cache, jobs, taskQueued, tPc, tTask, tErr, restarts, resyncs, revisits>>

JobReconcile == JobPop \/ JobGet \/ FetchTask \/ UpdateTaskStatus
-----------------------------------------------------------------------------
(* The Jobs' pods, as the operator sees them through the API.              *)

\* Mutant: the count takes the file list for a segment too.
CountReportsOneMore ==
    /\ jobs[Count] = "active"
    /\ \E n \in 1 .. (IF task.planned = 0 THEN MaxSlices ELSE task.planned) :
         Store([task EXCEPT !.planned = n + 1])
    /\ jobs' = [jobs EXCEPT ![Count] = "reported"]
    /\ tFresh' = (tFresh /\ task' = task)
    /\ jFresh' = (jFresh /\ task' = task)
    /\ UNCHANGED <<cache, taskQueued, tPc, tTask, tErr, jobQueue, jPc, jJob, jTask, bounds>>

\* The count command patches SlicesPlannedCount with the number of segments
\* it found.  A count that runs again finds at most as many: no split runs in
\* between, and the cleanup only takes segments away.
CountReports ==
    /\ jobs[Count] = "active"
    /\ \E n \in 1 .. (IF task.planned = 0 THEN MaxSlices ELSE task.planned) :
         Store([task EXCEPT !.planned = n])
    /\ jobs' = [jobs EXCEPT ![Count] = "reported"]
    /\ tFresh' = (tFresh /\ task' = task)
    /\ jFresh' = (jFresh /\ task' = task)
    /\ UNCHANGED <<cache, taskQueued, tPc, tTask, tErr, jobQueue, jPc, jJob, jTask, bounds>>

\* The pod ends and the job controller's cache learns of it.
JobEnds(job, state) ==
    /\ jobs' = [jobs EXCEPT ![job] = state]
    /\ jobQueue' = jobQueue \cup {job}
    /\ UNCHANGED <<apiVars, cache, taskQueued, tVars, jVars, bounds>>

JobCompletes(job) ==
    /\ jobs[job] = IF job = Count THEN "reported" ELSE "active"
    /\ JobEnds(job, "complete")

\* BackoffLimit 0 and RestartPolicy Never: a pod that fails is not tried again.
JobFails(job) ==
    /\ job[1] \in FailingJobs
    /\ jobs[job] \in {"active", "reported"}
    /\ JobEnds(job, "failed")

Pods == CountReports \/ \E job \in Jobs : JobCompletes(job) \/ JobFails(job)
-----------------------------------------------------------------------------
\* The operator's process ends at any point and starts anew: the informers list
\* every object and each becomes an event.
Restart ==
    /\ restarts < MaxRestarts
    /\ restarts' = restarts + 1
    /\ cache' = task
    /\ events' = <<>>
    /\ taskQueued' = TRUE
    /\ jobQueue' = {job \in Jobs : jobs[job] # "none"}
    /\ tPc' = "idle" /\ tTask' = NewTask /\ tFresh' = FALSE /\ tErr' = FALSE
    /\ jPc' = "idle" /\ jJob' = Split /\ jTask' = NewTask /\ jFresh' = FALSE
    /\ UNCHANGED <<task, jobs, faults, resyncs, revisits>>

\* The informers' periodic resync queues every cached object.
Resync ==
    /\ resyncs < MaxResyncs
    /\ resyncs' = resyncs + 1
    /\ taskQueued' = TRUE
    /\ jobQueue' = jobQueue \cup {job \in Jobs : jobs[job] # "none"}
    /\ UNCHANGED <<apiVars, cache, jobs, tVars, jVars, faults, restarts, revisits>>

Init ==
    /\ task = NewTask /\ events = <<>> /\ cache = NewTask
    /\ jobs = [job \in Jobs |-> "none"]
    /\ taskQueued = TRUE
    /\ tPc = "idle" /\ tTask = NewTask /\ tFresh = FALSE /\ tErr = FALSE
    /\ jobQueue = {}
    /\ jPc = "idle" /\ jJob = Split /\ jTask = NewTask /\ jFresh = FALSE
    /\ faults = 0 /\ restarts = 0 /\ resyncs = 0 /\ revisits = 0

Next == TaskEvent \/ TaskReconcile \/ JobReconcile \/ Pods \/ Restart \/ Resync

Spec == Init /\ [][Next]_vars

\* The informer, both workers and every pod keep going.  Nothing is promised
\* of faults, restarts, resyncs and failing pods.
Fairness ==
    /\ WF_vars(TaskEvent)
    /\ WF_vars(TaskReconcile)
    /\ WF_vars(JobReconcile)
    /\ WF_vars(CountReports)
    /\ \A job \in Jobs : WF_vars(JobCompletes(job))

FairSpec == Spec /\ Fairness
-----------------------------------------------------------------------------
(* Properties.                                                             *)

\* Every variable keeps its type.
TypeOK ==
    /\ task \in Tasks
    /\ events \in Seq(Tasks)
    /\ cache \in Tasks
    /\ jobs \in [Jobs -> JobStates]
    /\ taskQueued \in BOOLEAN
    /\ tPc \in {"idle", "get"} \cup Stages
    /\ tTask \in Tasks
    /\ tFresh \in BOOLEAN
    /\ tErr \in BOOLEAN
    /\ jobQueue \in SUBSET Jobs
    /\ jPc \in {"idle", "get", "fetch", "update"}
    /\ jJob \in Jobs
    /\ jTask \in Tasks
    /\ jFresh \in BOOLEAN
    /\ faults \in Nat /\ restarts \in Nat /\ resyncs \in Nat /\ revisits \in Nat

\* At most MaxCount slices are encoded at a time (determineNextSliceIndex),
\* although the Job is created before it is booked, from a cached Task, and the
\* booking may be refused, lost or cut off by a restart.
ConcurrencyLimit ==
    MaxCount # Unlimited =>
        Cardinality({i \in Indexes : jobs[Slice(i)] = "active"}) <= MaxCount

\* A slice is never both scheduled and finished: a stale copy of either worker
\* does not bring back what the other one removed (updateStatusWithProgressing,
\* updateStatusWithSlicesFinished).
ListsDisjoint == task.scheduled \cap task.finished = {}

\* Until the Jobs are cleaned up, what the Task's status says of a slice is
\* backed by its Job: a booked slice has one, a finished slice a complete one.
BookingsBackedByJobs ==
    ~ task.ready =>
        /\ \A i \in task.scheduled : jobs[Slice(i)] # "none"
        /\ \A i \in task.finished : jobs[Slice(i)] = "complete"

\* The stages follow one another although each is entered on a cached Task:
\* the count runs on a split source, the merge once the recorded completions
\* reach the plan and Progressing is False, the cleanup after the merge.
StagesInOrder ==
    /\ jobs[Count] # "none" => task.split
    /\ jobs[Merge] # "none" => /\ task.progressing = "false"
                              /\ task.finishedCount >= task.planned
                              /\ task.planned > 0
    /\ jobs[Cleanup] # "none" => task.merged
    /\ task.ready => task.merged

\* A write by either worker, based on whatever copy, takes nothing back that is
\* in the Task's status: conditions stay reached, slices stay booked or
\* finished, and a slice that had its turn is not scheduled again.
Grows(old, new) ==
    /\ old.split => new.split
    /\ old.counted => new.counted
    /\ old.merged => new.merged
    /\ old.ready => new.ready
    /\ old.progressing = "false" => new.progressing = "false"
    /\ old.finished \subseteq new.finished
    /\ old.finishedCount <= new.finishedCount
    /\ Booked(old) \subseteq Booked(new)
    /\ Booked(old) \cap (new.scheduled \ old.scheduled) = {}

StatusOnlyGrows == [][Grows(task, task')]_task

\* As long as the Failed condition is shown another reconcile is due, which
\* removes it when it succeeds (UpdateFailedCondition), although a removal that
\* meets a conflict is only logged.  One failing call is assumed: a second one
\* that hits the removal leaves the condition in place (setFailureCondition).
FailureRetried ==
    task.failed /\ faults <= 1 => taskQueued \/ tPc # "idle" \/ events # <<>>

\* Nothing is forgotten: when neither worker has anything to do or to expect,
\* the Task is Ready or waits for a pod, whatever events were merged in a queue,
\* updates refused or calls lost on the way (both controllers are only woken by
\* events, setup.go and handler.go).  With a MaxCount of 0 no slice ever begins
\* (determineNextSliceIndex, controller.go:118).
Quiescent ==
    /\ events = <<>> /\ ~ taskQueued /\ tPc = "idle"
    /\ jobQueue = {} /\ jPc = "idle"

WaitsOnlyForPods ==
    Quiescent => \/ task.ready
                 \/ \E job \in Jobs : jobs[job] \in {"active", "reported", "failed"}
                 \/ MaxCount = 0

\* No slot stays unused: when neither worker has anything to do while slices are
\* encoded, each one left has a pod that runs or has failed, or there are MaxCount
\* such pods.  A failed slice holds up its own slot and no other
\* (determineNextSliceIndex, updateStatusWithSlicesFinished).
SlotsUsed ==
    LET open == {i \in Indexes : jobs[Slice(i)] \notin {"none", "complete"}} IN
    Quiescent /\ ~ task.ready /\ task.progressing # "false" =>
        \/ 0 .. (task.planned - 1) \subseteq task.finished \cup open
        \/ MaxCount # Unlimited /\ Cardinality(open) >= MaxCount

\* A Task whose Jobs have begun to be merged has every planned slice encoded
\* (controller.go:93: "progressing" is false once all slices are completed).
MergeAfterAllSlices ==
    jobs[Merge] # "none" => \A i \in 0 .. (task.planned - 1) : i \in task.finished

\* Unless a pod fails, the Task becomes Ready (conditions.Ready).
EventuallyReady == <>task.ready

\* A Job that completes is recorded in the status of the Task, whatever update
\* is refused or lost on the way, unless the Jobs are deleted before.
CompletionRecorded ==
    \A i \in Indexes : jobs[Slice(i)] = "complete" ~> (i \in task.finished \/ task.ready)

\* Implementation of TaskProgress.
PhaseOf(t) ==
    CASE t.ready -> "ready"
      [] ~t.ready /\ t.merged -> "merged"
      [] ~t.ready /\ ~t.merged /\ t.progressing = "false" -> "encoded"
      [] ~t.ready /\ ~t.merged /\ t.progressing # "false" /\ t.planned > 0 -> "encoding"
      [] ~t.ready /\ ~t.merged /\ t.progressing # "false" /\ t.planned = 0 /\ t.split -> "split"
      [] OTHER -> "new"

Promise == INSTANCE TaskProgress WITH
    phase <- PhaseOf(task), planned <- task.planned, running <- task.scheduled,
    done <- task.finished, records <- task.finishedCount

\* Each write of either worker, made from a cached copy, is one step of
\* TaskProgress on the Task as it is stored.
ImplementsProgress == Promise!ProgressSpec

\* The same of the steps alone, for runs that do not begin with a new Task.
StepsImplementProgress == [][Promise!Progress]_(Promise!progressVars)
=============================================================================
