-------------------------- MODULE TaskOperatorInv ---------------------------
(***************************************************************************)
(* The inductive invariant behind the safety properties of TaskOperator.   *)
(* Every copy of the Task is an earlier version of the stored one, or the  *)
(* stored one with the changes its holder is about to write; a Job without *)
(* a booking is the one that is booked next.                               *)
(***************************************************************************)
EXTENDS TaskOperator

\* Slice i is the next to be booked: all before it have had their turn.
IsNext(t, i) == i \notin Booked(t) /\ \A j \in 0 .. (i - 1) : j \in Booked(t)

\* What holds of every version of the Task.
Sound(t) ==
    /\ t.scheduled \cap t.finished = {}
    /\ t.progressing = "false" => t.planned > 0 /\ t.finishedCount >= t.planned
    /\ t.merged => t.progressing = "false"
    /\ t.ready => t.merged
    /\ MaxCount # Unlimited => Cardinality(t.scheduled) <= MaxCount

\* What a write may do to the stored version: nothing is taken back, and only
\* the next slice is booked.
Advances(old, new) ==
    /\ Grows(old, new)
    /\ old.planned > 0 => new.planned > 0
    /\ \A i \in new.scheduled \ old.scheduled : IsNext(old, i)

\* How a copy relates to the stored version: what it says has not been taken
\* back since, and no slice was booked since unless the copy's next one was.
Older(copy, stored) ==
    /\ copy.split => stored.split
    /\ copy.merged => stored.merged
    /\ copy.ready => stored.ready
    /\ copy.progressing = "false" => stored.progressing = "false"
    /\ copy.planned > 0 => stored.planned > 0
    /\ Booked(copy) \subseteq Booked(stored)
    /\ \A i \in Indexes : IsNext(copy, i) /\ i \notin Booked(stored) =>
          stored.scheduled \subseteq copy.scheduled

\* The versions on their way to the reconcilers.
VersionsOlder ==
    /\ Sound(task)
    /\ Sound(cache) /\ Older(cache, task)
    /\ \A k \in 1 .. Len(events) : Sound(events[k]) /\ Older(events[k], task)
    /\ IF events = <<>> THEN cache = task ELSE events[Len(events)] = task

\* Ready is never seen to be undone by a reader of the cache.
ReadySpreads ==
    /\ cache.ready => \A k \in 1 .. Len(events) : events[k].ready
    /\ \A k \in 1 .. Len(events) : events[k].ready =>
          \A m \in k .. Len(events) : events[m].ready

\* The task reconciler's copy; its finalizer may hold a change not yet written.
TaskCopyOlder ==
    /\ tPc \in Stages \ {"finalize"} =>
          /\ Sound(tTask) /\ Older(tTask, task) /\ Due(tPc, tTask)
          /\ tFresh => tTask = task
    /\ tPc \in Stages /\ tTask.ready => cache.ready
    /\ tFresh => /\ tPc \in Stages
                 /\ Advances(task, tTask) /\ tTask.finished = task.finished
                 /\ Sound(tTask)
                 /\ \A i \in tTask.scheduled \ task.scheduled : jobs[Slice(i)] # "none"
    /\ tPc = "status" => \A i \in FirstFree(tTask) : jobs[Slice(i)] # "none"

JobCopyCurrent == jFresh => jPc = "update" /\ jTask = task

\* What the stored Task says when a Job exists, or is being recorded.
Backed(job) ==
    /\ job = Count => task.split
    /\ job = Merge => task.progressing = "false"
    /\ job = Cleanup => task.merged
    /\ \A i \in Indexes : job = Slice(i) =>
          /\ task.planned > 0
          /\ i \notin Booked(task) => IsNext(task, i) /\ SlotFree(task)

JobsBacked ==
    /\ \A job \in Jobs : jobs[job] # "none" => Backed(job)
    /\ jPc \in {"fetch", "update"} => Backed(jJob)

\* The Jobs have been deleted, and nobody will create one for a slice again.
Deleted == cache.ready /\ (tPc \in Stages => tTask.ready)

SliceJobsKept ==
    /\ \A i \in task.scheduled : jobs[Slice(i)] # "none" \/ Deleted
    /\ \A i \in task.finished :
          jobs[Slice(i)] = "complete" \/ (jobs[Slice(i)] = "none" /\ Deleted)
    /\ jPc \in {"fetch", "update"} => \A i \in Indexes : jJob = Slice(i) =>
          jobs[jJob] = "complete" \/ (jobs[jJob] = "none" /\ Deleted)

\* The inductive invariant.
IInv ==
    /\ TypeOK
    /\ VersionsOlder
    /\ ReadySpreads
    /\ TaskCopyOlder
    /\ JobCopyCurrent
    /\ JobsBacked
    /\ SliceJobsKept

\* For the refinement of TaskProgress: a current copy that differs from the
\* stored Task holds one booking that was not written, and the Task is counted
\* once until it is Ready.
BookingPending ==
    tFresh => \/ tTask = task
              \/ /\ tPc = "finalize"
                 /\ NextSliceDetermined(task)
                 /\ \E i \in FirstFree(task) : tTask = WithSliceScheduled(task, i)

CountedOnce == task.planned > 0 => jobs[Count] \notin {"none", "active"} \/ Deleted

RInv == IInv /\ BookingPending /\ CountedOnce

\* For WaitsOnlyForPods: how far the plan is.  While slices are encoded a
\* completion is missing, and slices are booked without a gap.
PlanFollowed ==
    /\ \E n \in 0 .. MaxSlices : Booked(task) = 0 .. (n - 1)
    /\ Cardinality(task.finished) <= task.finishedCount
    /\ task.planned = 0 => task.finishedCount = 0
    /\ task.planned > 0 /\ task.progressing # "false" => task.finishedCount < task.planned

CountPatched == jobs[Count] \in {"reported", "complete"} => task.planned > 0

Recorded(job) ==
    /\ job = Split => task.split
    /\ job = Count => task.counted
    /\ job = Merge => task.merged
    /\ job = Cleanup => task.ready
    /\ \A i \in Indexes : job = Slice(i) => i \in task.finished

\* A Job that is complete is recorded, or its key is queued or being worked on.
CompletionsQueued ==
    \A job \in Jobs : jobs[job] = "complete" =>
        Recorded(job) \/ job \in jobQueue \/ (jPc # "idle" /\ jJob = job)

\* A task reconciler whose copy is out of date has another reconcile before it: the
\* version it does not know is an event, or has queued the Task.
StaleIsQueued == tPc \in Stages /\ ~ tFresh => taskQueued \/ events # <<>>

\* The pipeline of a reconcile begins without an error.
ErrInPipeline == tErr => tPc \in Stages

Awaited == taskQueued \/ events # <<>>

CopyStored == tFresh /\ ~ tErr => tTask = task

StageJob == [split |-> Split, count |-> Count, merge |-> Merge, cleanup |-> Cleanup]

\* The stages before pc have been executed for t, or were not due.
Behind(pc, t) ==
    /\ \A s \in DOMAIN StageJob :
          Position[s] < Position[pc] /\ Due(s, t) => jobs[StageJob[s]] # "none"
    /\ Position[pc] > Position["status"] => ~ NextSliceDetermined(t)

\* Unless another reconcile is due, the pipeline leaves no stage out that the
\* stored Task calls for, and none is called for once it has ended.
StagesBehind ==
    ~ Awaited /\ ~ task.ready =>
        /\ tPc \in Stages /\ ~ tErr => Behind(tPc, task)
        /\ tPc = "idle" => Behind("finalize", task)

WInv ==
    /\ RInv
    /\ PlanFollowed /\ CountPatched /\ CompletionsQueued
    /\ ErrInPipeline /\ StaleIsQueued /\ CopyStored /\ StagesBehind
=============================================================================
