# clustercode in TLA+

Clustercode encodes video files on a Kubernetes cluster. A *Blueprint* says
where the files are and how to encode them; a CronJob scans the source volume
and creates a *Task* per file; the operator takes each Task through a series of
*Jobs* that split the file, count the segments, encode them one by one, merge
the results and clean up.

The modules here model that life from the Blueprint to the removal of the
source file. TLC checks them on small instances; TLAPS proves the safety of the
operator, of the files, of the scans, of the Blueprint controller and of the
Job definitions for every value of their constants. `PROJECT.json` maps each
definition to the lines it models and lists runs, mutants, findings, hazards
and theorems.

    tlc -config TaskLife.cfg MCTaskOperator.tla     # model-check one run
    tlapm TaskSafetyProofs.tla                      # check the proofs

## 1. The system

| Part (under `src/pkg`) | State it keeps | Operations |
|---|---|---|
| task controller (`operator/taskcontroller`) | none of its own; the status of a Task, the Jobs | `Provision`: create split, count, merge, slice and cleanup Jobs, book a slice, delete the Jobs, `setFailureCondition` |
| job controller (`operator/jobcontroller`) | none of its own; the status of a Task | `Provision`: record that a Job is complete |
| Blueprint controller (`operator/blueprintcontroller`) | the CronJob, a service account, a role binding | `Provision`: keep them as the Blueprint says |
| webhook (`webhook/blueprintwebhook`) | none | defaults and validation of a Blueprint |
| scan command (`scancmd`) | a Task | `fetchBlueprint`, `fetchCurrentTasks`, `selectNewFile`, `createTask` |
| count command (`countcmd`) | the file list (ConfigMap), `SlicesPlannedCount` | `scanSegmentFiles`, `ensureConfigMap`, `updateTask` |
| cleanup command (`cleanupcmd`) | the files | `listIntermediaryFiles`, `deleteFiles`, `deleteSourceFile` |
| Job definitions (`taskcontroller/utils.go`, `internal/utils`) | none | how a pod template becomes a Job |
| API types (`api`) | the Task and the Blueprint | URLs of files, the conditions |
| web UI, command line, logging, charts | none that matters to the above | - |

**How they interact.** Everything goes through the API server and two volumes.
The controllers are woken by watch events, read from an informer cache that
trails the API server, and write with optimistic updates: a copy that is out of
date is refused with a conflict. Only the Task's own changes wake the task
controller, only a Job's changes the job controller, so one's write to the
status is the other's message. The commands run in pods, use the API directly
(the count patches the Task without any version check) and hand files to each
other in the intermediate volume, whose names must agree between ffmpeg's
template, the operator's indexes and the count's listing.

**What is hard.**

- Two workers write the whole status of one Task, each from its own copy.
- A slice's Job is created *before* it is booked; the booking can be refused.
- Every condition that starts a stage is read from a cached Task.
- A lost answer, a conflict, a restart or a resync makes a step run again:
  creating a Job twice is harmless, recording a completion twice is not.
- A pod that fails is never started again (`BackoffLimit` 0).
- The source file is removed at the end; it is the only copy until the merge.
- A scan reads the Tasks, walks a directory and then creates a Task; other
  scans, finishing Tasks and users run in between, and a file may be replaced,
  go, or come back under the name of one that is being encoded or was.
- A file's path becomes two URLs, and both lose parts of it.
- The Blueprint controller compares its CronJob with a cached copy that nobody
  watches, and only a new generation of the Blueprint wakes it.
- The definition of a Job is applied anew at each reconcile, although
  Kubernetes lets nobody change the pod template of a Job.

**What makes each part correct.** The operator: at most `MaxCount` slices are
encoded at a time, no write takes back another's, stages follow one another, a
Task that meets no failing pod becomes Ready. The files: the source outlives
the merge, nothing is left, and the parts are merged converted and in order
(they are not, see Findings). The scan: one Task per file, every file in turn,
no encoding written over by another Task, no more than `MaxParallelTasks` (not
so either). The Blueprint controller: the CronJob ends up with the settings of
the Blueprint, never goes back and never scans without its rights. The Job
definitions: the API server takes exactly the Jobs of complete specs, which
not all are that the webhook accepts, and applying a definition again changes
nothing.

## 2. The modules

| Module | Models |
|---|---|
| `TaskOperator` | task and job controller, informer, API server, pods, restarts, for one Task |
| `TaskProgress` | what the operator promises about a Task: the abstract specification |
| `TaskOperatorInv` | the inductive invariant of `TaskOperator` |
| `TaskOperatorProofs`, `TaskSafetyProofs`, `TaskRefinementProofs`, `TaskRetryProofs` | the theorems about it: types, safety, refinement, and that nothing is forgotten |
| `TaskFiles` | volumes and commands of one Task, driven by `TaskProgress` |
| `TaskFilesProofs` | the theorems about the files |
| `Scan`, `ScanProofs` | Blueprints, their scans and Tasks over one source and one target volume; the theorems |
| `Blueprint`, `BlueprintProofs` | the Blueprint controller, its caches and its CronJob; the theorems |
| `JobSpecs`, `JobSpecsProofs` | webhook, CronJob and Job definitions, and what the API server accepts; the theorems |
| `MC...` | instances for TLC |

`TaskProgress` joins two of them: `TaskOperator` is shown to implement it
(`ImplementsProgress`), and `TaskFiles` extends it, so that what holds of the
files under `TaskProgress` holds under the operator. `JobSpecs` backs an
assumption of `TaskOperator`: `DefinitionStable` is why `CreateOrUpdate` leaves
a Job that exists alone.

**TaskOperator.** A step of a worker is one API call or one read of the cache.
The pipeline of `Provision` is the variable `tPc`: `NextStage` gives the next
step whose predicate (`Due`) holds of the in-memory Task, in the code's order.
`events` holds the versions the informer has not delivered; a copy is fresh
(`tFresh`, `jFresh`) while the API server's version is the one it was read
from, and `UpdateStatus` succeeds only then. `Fault` makes any call of a worker
fail before or after its effect. A failed update leaves the changed copy to
`SetFailureCondition`, as in the code, which removes or sets *Failed* with
whatever copy is left. An error, a conflict included, puts the key back into
the queue. `SlicesScheduled` is a set, since no index enters it twice;
`SlicesFinished` is a set and its length, since an index may.

**TaskFiles.** A file is an index and whether it is a segment or an encoding.
The list is sorted by the decimal names of the indexes (`NameBefore`, which
compares them padded to `Width` digits). A pod may fail between
any two of its steps; a removal may fail and be ignored; completions may be
recorded twice. A slice's pod runs when its Job can exist (`HasJob`), which is
also before it is booked.

**Scan.** A file is the sequence of those parts of its path that matter to
`ToUrl` and `GetPath`, and its content is how often it was added. A Task has
the two paths that its URLs stand for: `SourcePath`, which the split reads and
the cleanup removes, and `TargetPath`, which the merge writes. Each conversion
takes the first root out of the name (`WithoutRoot`), cuts it at `#` or `?` and
decodes its escapes (`UrlPath`), and panics at one that is invalid
(`ToUrlPanics`); an `ASSUME` of `MCScan` goes through the cases. A Task is a
record in a sequence; of its life only the moments are left that touch a
volume: the split reads the source (`TaskSplit`), the merge writes the target
(`TaskMerged`), the cleanup removes whatever has the source's name
(`TaskEncoded`), and a Task whose file is gone is stuck (`TaskFails`). That
they come in this order and that each ends is what `TaskOperator` is about.
Users add, replace and remove files at any time, delete Tasks in any state, and
the operator may look at a Ready Task again (`TaskRevisited`).

**Blueprint.** The CronJob is the generation of the Blueprint whose settings
it has. Two informers trail the API server, the Blueprint's (`events`,
`cache`) and the CronJob's (`cronEvents`, `cronCache`); an update is taken only
if the cached version is the stored one. `BlueprintEvent` contains
`GenerationChangedPredicate`. A request that fails may have had its effect, or
have it later (`late`, `LateWrite`), unless the CronJob got a new version in
between. The service account and the role binding are known nowhere, at the API
server, or in the cache as well; the controller creates what its cache does not
know and meets an error if the server knows it.

**JobSpecs.** Volumes by name and origin, containers by name, mounts and
arguments, mounts by volume and path, labels by who set them. Templates are any
lists of these, whatever is wrong with them (`TemplatesAssumption` says no
more); the volumes and mounts are added one after the other, as in the code
(`EnsureVolumes`, `EnsureVolumeMounts`): a template's mount of the same volume
stays at its own path. The API server refuses a pod with a volume missing,
twice or without a claim's name, with two containers of a name or two mounts at
a path (`ValidPod`), and any change of a Job's template; on creation it adds
labels of its own. `refused` keeps each refusal with the spec that the Job was
derived from.

## 3. The runs

| Run | Shows | Bounds |
|---|---|---|
| `TaskLife` | types, `StagesInOrder`, `WaitsOnlyForPods`, `ImplementsProgress`, from a new Task on | 1 slice, 1 restart, 1 resync, 1 revisit, cache trails by 1 |
| `TaskSlices` | `ConcurrencyLimit`, `ListsDisjoint`, `BookingsBackedByJobs`, `SlotsUsed`, `StatusOnlyGrows`, `IInv` | 3 slices, 2 slots, failing slice pods, cache trails by 2 |
| `TaskLive` | `EventuallyReady`, `CompletionRecorded`, `FailureRetried`, `BookingsBackedByJobs`, `WInv`, `StepsImplementProgress` | 2 slices, 1 slot, 1 failing call, cache trails by 1 |
| `FilesLife` | `SourceRemovedAfterMerge`, `SlicesHaveInput`, `NothingLeftBehind`, `FilesInv` | 3 segments, any pod may fail, 1 removal fails, 1 double record |
| `SpecsLife` | `AdmittedWhenComplete`, `DefinitionStable`, `CommandRuns` | 18 templates with and without volumes, labels, containers, mounts in the way; the Blueprint is applied twice |
| `ScanLife` | `OneTaskPerFile`, `EncodingHeld`, `EveryFileEncoded`, `ScanInv` | 1 Blueprint, 2 pods, 3 files, each added up to twice, 2 failing scans, deletions, files replaced or removed, suspensions or revisits |
| `BlueprintLife` | `ScanHasRights`, `FollowsOnceQuiet`, `NeverOlder`, `CronJobFollows`, `BpInv` | 3 generations, caches trail by 2, 2 statuses of the CronJob, 2 failing calls, 2 restarts |

Three slices with two slots are the least with which a slot is freed while
another is taken and one slice waits; with a cache two versions behind, each
worker can act on a copy that misses one write of each. One fault, restart or
resync at every point meets each step once; the proofs below have no bounds.
A revisit is a reconcile of a Task that is Ready and whose Jobs are deleted:
the conditions are still set, so that its Jobs are created and deleted anew.
The runs with more than one slice begin with `CountedSpec`, the state in which
the source is split and counted and all events are handled: split and count
concern a Task as a whole, and `TaskLife` goes through them. Only there is the
abstract initial state checked (`ImplementsProgress`); elsewhere each step is
(`StepsImplementProgress`). The second pod of `ScanLife` is there for a scan to
start in: `ConcurrencyPolicy` must keep it from doing so. Two
disturbances let a Task be deleted while a scan is under way and its file be
replaced on top; with two additions of a name the content of a file and that
of its Task can differ. In `SpecsLife` a template brings none, one, two or all
of the volumes, and containers that mount a volume only some Jobs add, mount
one elsewhere, or take the path of another. In `BlueprintLife` three generations and caches two versions
behind let the worker miss one edit while it writes another, and two faults let
a request land late after a second one failed.
Deadlock is not checked, except in `JobSpecs`: a Task that is Ready, or waits
for a pod that failed, stops for good.

**Fairness.** Weak fairness of the informer's delivery, of each worker and of
each pod: controller-runtime's queues drop no key and retry with a back-off
that is bounded, and a pod that does not fail ends. Nothing is assumed of
faults, failures, restarts and resyncs. In `Scan`: the CronJob follows the
Blueprint and starts a scan whenever its policy allows it; a started scan goes
on; a Task that can take its next step takes it in the end (`EventuallyReady`).
In `Blueprint`: both informers and the worker. Nothing is assumed of users,
late requests, faults, failing scans and deletions.

**Findings.** Each of these runs ends in a counterexample to one line of the
repository's documentation.

| Run | What the code does |
|---|---|
| `TaskMerge` | the same completion is appended twice, the count of finished slices reaches the plan and the merge starts early (`handler.go:31`). A Job's key that is queued again while it is being recorded is enough; the second record is based on a newer copy and meets no conflict |
| `FilesMerged` | the list for the merge names the segments, not their encodings (`countcmd/run.go:112`), and sorts them by name, so that of eleven segments segment 10 is merged before segment 2 (`countcmd/run.go:104`). `MergedTogetherAgain` asks for either of the two, so that its counterexample shows both at once |
| `SpecsLabels` | labels of a pod template replace those Kubernetes has set, each later reconcile fails (`taskcontroller/utils.go:28`) |
| `ScanParallel` | `CurrentTasks` is never written, the limit never reached (`blueprint_types.go:73`) |
| `BlueprintSuspend` | a Blueprint that is suspended and resumed before the cache shows the suspended CronJob leaves it suspended, although the Blueprint shows otherwise (`blueprintcontroller/controller.go:121`, `blueprint_types.go:14`) |

Other places where code and documentation part, which the modules contain and
no run is spent on:

- A Blueprint without claims that brings its volumes in its pod templates, as
  `common.go:13` to `19` offers it, is accepted; its CronJob and its count Job
  are refused (`blueprintcontroller/controller.go:166`, `count_job.go:45`;
  `Complete` in `JobSpecs`).
- The webhook accepts templates whose containers mount a volume that only some
  of the Jobs add, or that mount something else where a Job's own volume
  belongs; those Jobs are refused (`validator.go:48`, `utils.go:44`;
  `Complete`).
- A CronJob keeps the volumes it was created with, while later Tasks have those
  of the changed Blueprint (`blueprintcontroller/controller.go:133`; `cron` in
  `JobSpecs`).
- The default merge arguments name files of their own in place of `${INPUT}`
  and `${OUTPUT}` (`defaulter.go:45`; `DefaultArgs` in `JobSpecs`).
- A name with `#`, `?`, `%20` or the word `source` in it does not survive its
  URL, so that each scan creates another Task for it, and one with an invalid
  `%` makes each scan panic, so that the files after it wait for ever
  (`common.go:57`; `UrlPath` and `ToUrlPanics` in `Scan`).

No document of the repository says that a media file is kept until its own
content is encoded, and it is not. The modules contain four ways to lose one,
or its encoding:

- A user replaces a file while its Task is under way: the cleanup removes the
  new file, of which nothing is encoded (`cleanupcmd/run.go:98` to `100`;
  `ReplaceFile`, `TaskEncoded`).
- A file is added again under the name of a Ready Task. It counts as queued
  (`scancmd/run.go:141`), and after a restart of the operator that Task gets a
  second cleanup job, which removes it (`taskcontroller/controller.go:68`;
  `TaskRevisited`).
- Two Blueprints share a source volume. Both have a Task for a file; the first
  cleans up, the file is added again with new content, and the second's cleanup
  removes it (`cleanupcmd/run.go:100`).
- `target/a.mkv` and `a.mkv` have one target file, since `ToUrl` takes the first
  `target` out of the name: the second merge writes over the first
  (`scancmd/run.go:184`, `common.go:57`; `TargetPath`).

The properties of the passing runs that these touch say so. `StagesInOrder` is
about recorded completions; `SlicesHaveInput` and `NothingLeftBehind` exclude
double records; `AdmittedWhenComplete` names what makes a spec complete beyond
what the webhook asks; `CommandRuns` leaves a mount where the template has it;
`DefinitionStable` leaves templates with labels out; `FollowsOnceQuiet` and
`CronJobFollows` leave out settings that return to earlier ones.
`EncodingHeld` is about encodings, not about sources: the run and the theorem
have names that survive (`PlainNames`) and differ in the target volume
(`TargetsDiffer`). Two Blueprints write encodings of the same file, of one
content or another; that it is the Task's own is stated for one (`OneBlueprint`).
`EveryFileEncoded` gives each file its turn, once per name: a Task that is
Ready, or stuck because the file was gone for a while, counts as that turn
(`Settled`).

**Mutants.** Each property of a passing run is broken by a mutant of the code,
defined next to the definition it replaces: a limit compared with `>`, a patch
in place of the optimistic update, an error that is dropped, a completion that
is not tried again, segments numbered from 1, `ConcurrencyPolicy: Allow`,
a predicate that looks at status changes instead of the generation, an update
without a resourceVersion.

## 4. The proofs

| Theorem | States | For |
|---|---|---|
| `TypeCorrect` | `Spec => []TypeOK` | all constants |
| `Invariance` | `Spec => []IInv` | all constants |
| `ConcurrencyLimited` | `Spec => []ConcurrencyLimit` | all constants |
| `ListsStayDisjoint` | `Spec => []ListsDisjoint` | all constants |
| `BookingsBacked` | `Spec => []BookingsBackedByJobs` | all constants |
| `StagesFollow` | `Spec => []StagesInOrder` | all constants |
| `StatusGrows` | `Spec => StatusOnlyGrows` | all constants |
| `Refinement` | `Spec => ImplementsProgress` | all constants |
| `StepsRefine` | `Spec => StepsImplementProgress` | all constants |
| `FailureIsRetried` | `Spec => []FailureRetried` | all constants |
| `WaitInvariance` | `Spec => []WInv` | all constants |
| `OnlyPodsAwaited` | `Spec => []WaitsOnlyForPods` | all constants |
| `SlotsInUse` | `Spec => []SlotsUsed` | all constants |
| `FilesInvariance`, `FilesTypeCorrect` | `FilesSpec => []FilesInv`, `[]FilesTypeOK` | any number of segments |
| `SourceOutlivesMerge` | `FilesSpec => []SourceRemovedAfterMerge` | any number of segments |
| `SlicesFindInput` | `FilesSpec => []SlicesHaveInput` | any number of segments |
| `IntermediatesRemoved` | `FilesSpec => []NothingLeftBehind` | any number of segments |
| `ScanInvariance`, `ScanTypeCorrect` | `ScanSpec => []ScanInv`, `[]ScanTypeOK` | names that survive |
| `FilesQueuedOnce` | `ScanSpec => []OneTaskPerFile` | names that survive |
| `EncodingStays` | `ScanSpec => []EncodingHeld` | such names that differ in the target volume |
| `BpInvariance`, `BpTypeCorrect` | `BpSpec => []BpInv`, `[]BpTypeOK` | all constants |
| `ScanIsEntitled` | `BpSpec => []ScanHasRights` | all constants |
| `NothingOverlooked` | `BpSpec => []FollowsOnceQuiet` | all constants |
| `NeverBack` | `BpSpec => NeverOlder` | all constants |
| `JobsInvariance` | `SpecsSpec => []JobsIInv` | all templates |
| `DefinitionStaysStable` | `SpecsSpec => []DefinitionStable` | all templates |
| `CompleteJobsAdmitted` | `SpecsSpec => []AdmittedWhenComplete` | all templates |
| `CommandAlwaysRuns` | `SpecsSpec => []CommandRuns` | all templates |

Those about the operator rest on the three named assumptions of
`TaskOperator`: `MaxSlices` is positive, `MaxCount` a number or `Unlimited`, which is none, and the bounds are
numbers. Number of slices, slots, lag, faults, restarts and resyncs are
arbitrary, and so are the Jobs that may fail.

None of the properties is inductive: each speaks of the stored Task, while the
steps that could break it write from a copy. `IInv` says how the copies relate
to the stored Task.

- `VersionsOlder`: each undelivered version and the cache is `Sound` and
  `Older`. What an older version says has not been taken back since; and if
  the slice that is next *in the copy* has not had its turn since, nothing
  else was booked since. So a worker that picks the copy's next slice either
  picks one that has been booked already, or sees every slot that is taken.
- `TaskCopyOlder`: the task reconciler's copy is `Older`, or, in the finalizer
  after a failed update, a fresh copy `Advances` the stored Task by the
  booking of a slice whose Job exists.
- `JobCopyCurrent`: a fresh copy of the job reconciler is the stored Task.
- `JobsBacked`: a slice Job without a booking is the next to be booked, and a
  slot is free for it. This gives the limit: active Jobs are booked, or the
  one next, and there is only one next.
- `SliceJobsKept`, `ReadySpreads`: Jobs are only deleted when every copy that
  could still create one for a slice shows Ready.

`InvInit` and `InvNext` show it to be inductive, with one lemma per action and
under it one step per conjunct that the action disturbs. `StatusGrows` follows
from it: an update succeeds only with a fresh copy. `TLC` checks `IInv` too (in
`TaskSlices`).

**Refinement.** `PhaseOf` and the lists of the stored Task are the abstract
state, so that only what the API server takes is a step of `TaskProgress`, and
reads, queue operations, refused updates and restarts are stutters. An update
replaces the whole status; that it changes one thing only needs `RInv`: a fresh
copy is the stored Task (`JobCopyCurrent`), or holds one booking that was not
written (`BookingPending`), which `SetFailureCondition` may still write. That a
booking has a free slot and is the next is `JobsBacked` and `VersionsOlder`
again. The count's patch has no version check; `CountedOnce` says that it comes
only once before the Task is Ready.

**Nothing is forgotten.** The controllers are woken by events only, and events
are lost all the time: versions merge in a queue, a pass works with a copy that
is out of date, an update is refused, an answer does not arrive, the operator
restarts. `WaitsOnlyForPods` says what this must not lead to: a state in which
neither worker has anything to do or to expect although the Task could go on.
It is the safety part of `EventuallyReady`, which TLC checks with fairness on a
small instance, and unlike that it is proved, with failing pods and calls,
restarts and any lag. `SlotsUsed` is the same for the slots: one that is free
is not left unused while a slice waits, and a failed pod costs one slot only.
`WInv` adds to `RInv` what they need:

- `CompletionsQueued`: a Job that is complete is recorded, or its key is queued
  or being worked on. A conflict or a lost answer puts it back, a restart lists
  all Jobs again.
- `StaleIsQueued`: a task reconciler whose copy is out of date has another pass
  before it, since the version it does not know is an event or has queued the
  Task; so only passes with a current copy (`CopyStored`) matter.
- `StagesBehind`: such a pass has, for each stage behind it that is due, a Job
  to show, and past the booking no slice can begin; when it ends, this holds of
  all stages. A stage is only made due by a write, which is an event.
- `PlanFollowed`: the booked slices have no gap, and while slices are encoded
  the number of recorded completions is below the plan. So when no slice can
  begin, one that is planned has a Job that is not complete, unless there is no
  slot at all (`MaxCount` 0, the case that `WaitsOnlyForPods` names).
- `CountPatched`: the count reports the plan before it ends.

`FailureRetried` is proved next to it from `RInv` and `StaleIsQueued`: the copy
that fails to remove *Failed* was out of date, or a second call has failed.

**Files.** `FilesInv` follows a file from the split to the cleanup: the split
cuts all segments, numbered without a gap (`CutInOrder`); the list names each
of them (`ListedAll`); what runs is in the plan, and what is recorded has run
(`SlicesFollowPlan`); the target is the list as far as it is merged
(`MergedAsListed`); nothing is removed before (`CleanupLast`); and the cleanup
knows of every file unless a slice was still encoded (`FilesAccounted`). That
sorting by name keeps every segment is `SortedSegments`: the names are totally
ordered (`NamesOrdered`), first by their digits and then, of `1.` and `10.`, by
their length, so that the ranks of n segments are n different numbers below n,
and therefore all of them. `FilesAssumption` says of `Width` that the indexes
have no more digits, and that the powers of ten up to it are positive, which
TLC evaluates; the provers have no theory of powers.

**Scan.** `ScanInv`: the scans of a Blueprint follow one another
(`OneScanEach`), and while one selects, each listed Task is one it knows of
(`ScanKnowsTasks`), since only it creates Tasks and those that go only make
the set smaller; this gives `OneTaskPerFile`. `EncodingHeld` follows step by
step: a merge writes only the path of its own Task, and another Task with that
path has the same file (`UrlsNamed`, `TargetsDiffer`), so that with one
Blueprint it is about to be deleted. The assumptions `PlainNames` and
`TargetsDiffer` are stated in the theorems.

**Blueprint.** `BpInv`: what is stored is what the informers have or are about
to deliver; what was written or may still be written was read before and is no
newer than what the worker holds (`WrittenWasRead`, `WorkerIsCurrent`), which
gives `NeverOlder`; the worker's copy is that of the cache or the key is in the
queue; a pipeline without an error leaves the CronJob with its copy's settings
(`SettledOnceDone`); and the rights come first (`RightsFirst`).

**Job definitions.** A Job is what its Task defines plus the labels of the Job
controller (`JobsFollowTask`), and a Task keeps the spec it was created with
whatever becomes of the Blueprint; applied to such a pod the definition gives
the pod again, unless the template has labels (`DefinitionRepeats`). For
the count job, which adds to the volumes that are there, this is
`EnsureVolumeTwice`. `CompleteJobsAdmitted` rests on `AdmittedInv`: the
Blueprint and the spec that a Task has kept of it have both passed the webhook,
so that each volume has a claim or is in both templates (`Admitted`), never
both. Adding the volumes of a Job one by one then completes them, without a
second of a name and without an empty claim (`VolumesAdded`,
`TemplateCompleted`); the mounts take the paths of the Job's volumes if these
are free (`MountsAdded`, `ClustercodeIsOwn`). So the definition is valid exactly
when `Complete` says so (`TemplateJobValid`, `CountJobValid`, `CronPodValid`).
`CommandRuns` follows from `JobsFollowTask`, whether the template brings a
container of the Job's name or not (`OwnContainerThere`).

TLC checks `IInv`, `WInv`, `FilesInv`, `ScanInv` and `BpInv` too;
`RInv` is a part of `WInv`.

**Only model-checked:** liveness (`EventuallyReady`, `CompletionRecorded`,
`EveryFileEncoded`, `CronJobFollows`), which is out of the prover's reach. Every
other property of a passing run is a theorem.

## 5. What is left out

- *Deletion of a Task* in `TaskOperator`: the reconcilers return at once for an
  object that is being deleted, and Kubernetes removes its Jobs.
- *The cache of the Jobs*: a Job's end and the job controller's knowledge of it
  are one step. A Job that is created or deleted is seen at once; with a cache
  that trails, a second creation ends in an error, which `Fault` covers, and a
  deleted Job may be taken to exist until the next reconcile.
- *Repeated failures of* `setFailureCondition`: its error is only logged, and
  with two lost calls *Failed* can stay on a Task that goes on;
  `FailureRetried` is stated for one.
- *Failed pods*: that a Task waits for ever when a pod fails is in the model
  (`JobFails`, `PodFails`); `SlotsUsed` only limits it to the pod's own slot.
- `MaxCount: 0`, with which no slice is ever scheduled: the theorems include
  it, and `WaitsOnlyForPods` names it as a state in which a Task stays.
- *The second count of a Ready Task* is in `TaskOperator` and not in `TaskFiles`.
- *The intermediate volume of several Tasks*: file names begin with the Task's
  id, so that Tasks do not meet there. `Scan` has the volumes they share.
- *The Jobs of a Task that a user deletes* end with it in `Scan`; in a cluster
  a pod of theirs may go on for a moment.
- *A CronJob, account or binding that a user deletes or changes*: nothing
  watches them, they are ensured again with the next generation or restart.
- *Deletion of a Blueprint*: Kubernetes removes what it owns.
- *Contents of Jobs*: init containers (`taskcontroller/utils.go:35`), images,
  environment, resources, security contexts, annotations and sub-paths are
  copied by the code and left out of `JobSpecs`.
- *Names of files*: control characters, which make `ToUrl` panic too, and
  escapes other than that of a space.
- *Leader election, web UI, command line,
  logging, charts, generated code*: no state that the modelled parts read.

## 6. Not modelled, and what could come next

The web UI serves static files and forwards requests to the API server, the
command line and the logger build what the commands need, the deep copies are
generated and the charts are manifests: none keeps state or takes a decision
that the other parts depend on. What could still be added to the modules:

1. `TaskFiles`: the second count and cleanup of a Task that is reconciled again
   after it is Ready, and the file list it overwrites.
2. `TaskOperator`: deletion of a Task in flight, and the trailing cache of the
   Jobs.
3. `JobSpecs`: init containers, whose mounts the API server checks as well.
