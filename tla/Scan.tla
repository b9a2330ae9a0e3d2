-------------------------------- MODULE Scan --------------------------------
(***************************************************************************)
(* From a Blueprint to its Tasks: the blueprint controller keeps a CronJob *)
(* (src/pkg/operator/blueprintcontroller), the CronJob starts scan pods,   *)
(* and a scan (src/pkg/scancmd) creates a Task for the first media file    *)
(* that no Task of the Blueprint names.  The Task's Jobs read the source   *)
(* file, write its encoding to the target volume and remove it; users add, *)
(* replace and remove files at any time, delete Tasks and suspend          *)
(* Blueprints, and the operator may look at a Ready Task again.            *)
(***************************************************************************)
EXTENDS Naturals, SequencesExt

CONSTANTS
    Blueprints,        \* they share the namespace and the source volume
    Walk,              \* the files the source volume may hold, as Walk visits them
    Accepted,          \* those with one of MediaFileExtensions
    ScanPods,          \* bound: scan pods that may run at a time
    MaxParallelTasks,  \* BlueprintSpec.MaxParallelTasks
    MaxVersions,       \* bound: contents that users add under the same name
    MaxDisturbances    \* bound: changes of BlueprintSpec.Suspend, Tasks that users
                       \* delete, files they replace or remove, scans that fail and
                       \* Ready Tasks that are looked at again, taken together

\* A file is the sequence of the parts of its path that matter to its URL.
ASSUME ScanAssumption ==
    /\ Blueprints # {}
    /\ Walk \in Seq(Seq(STRING))
    /\ \A k, l \in DOMAIN Walk : Walk[k] = Walk[l] => k = l
    /\ Accepted \subseteq {Walk[k] : k \in DOMAIN Walk}
    /\ MaxParallelTasks \in Nat /\ MaxVersions \in Nat /\ MaxDisturbances \in Nat

VARIABLES
    present,    \* the files in the source volume
    added,      \* how often each was added: the content it has, if it is present
    target,     \* what each path of the target volume holds: the encoding of a
                \* source file with a content, or of NoFile
    tasks,      \* the Tasks, in the order of their creation, each with the file
                \* it was created for, the paths its SourceUrl and its TargetUrl
                \* stand for, and the content its split job read
    suspend,    \* BlueprintSpec.Suspend
    suspended,  \* CronJobSpec.Suspend
    pods,       \* the scan pods
    disturbances  \* how often the bounded events happened

volumes == <<present, added, target>>
scanVars == <<volumes, tasks, suspend, suspended, pods, disturbances>>

Files == {Walk[k] : k \in DOMAIN Walk}
NoFile == <<>>
Idle == [pc |-> "idle", blueprint |-> CHOOSE b \in Blueprints : TRUE,
         queued |-> {}, selected |-> NoFile]
-----------------------------------------------------------------------------
(* The path of a file, turned into a URL and back.                         *)

\* The positions of part in the path.
Occurrences(path, part) == {k \in DOMAIN path : path[k] = part}

\* strings.Replace(path, root, "", 1).
WithoutRoot(root, path) ==
    LET roots == Occurrences(path, root)
        first == CHOOSE k \in roots : \A l \in roots : k <= l
    IN IF roots = {} THEN path
       ELSE SubSeq(path, 1, first - 1) \o SubSeq(path, first + 1, Len(path))

\* What url.Parse takes for the path ends at a fragment or a query, and its
\* escapes are decoded: "%20" stands for a valid one.
UrlPath(path) ==
    LET ends == Occurrences(path, "#") \cup Occurrences(path, "?")
        first == CHOOSE k \in ends : \A l \in ends : k <= l
        kept == IF ends = {} THEN path ELSE SubSeq(path, 1, first - 1)
    IN [k \in DOMAIN kept |-> IF kept[k] = "%20" THEN " " ELSE kept[k]]

\* ToUrl, GetRoot and GetPath: the paths that a Task's URLs stand for.
SourcePath(file) == UrlPath(WithoutRoot("source", file))
TargetPath(file) == UrlPath(WithoutRoot("target", file))
TargetPaths == {TargetPath(file) : file \in Files}

\* ToUrl panics at an invalid escape, "%", unless it is in the query.
ToUrlPanics(file) ==
    \E k \in Occurrences(file, "%") :
        \/ \A q \in Occurrences(file, "?") : q > k
        \/ \E f \in Occurrences(file, "#") : f < k
-----------------------------------------------------------------------------
(* The Blueprint and its CronJob.                                          *)

Disturbance ==
    disturbances < MaxDisturbances /\ disturbances' = disturbances + 1

SetSuspend(b) ==
    /\ Disturbance
    /\ suspend' = [suspend EXCEPT ![b] = ~ @]
    /\ UNCHANGED <<volumes, tasks, suspended, pods>>

EnsureCronJob(b) ==
    /\ suspended[b] # suspend[b]
    /\ suspended' = [suspended EXCEPT ![b] = suspend[b]]
    /\ UNCHANGED <<volumes, tasks, suspend, pods, disturbances>>

\* Pods are all the same: a scan runs in any that is not in use.
IdlePods == {pod \in ScanPods : pods[pod].pc = "idle"}

\* Mutant: the default ConcurrencyPolicy, Allow.
StartConcurrentScan(b) ==
    /\ ~ suspended[b]
    /\ IdlePods # {}
    /\ pods' = [pods EXCEPT ![CHOOSE pod \in IdlePods : TRUE] =
                   [Idle EXCEPT !.pc = "fetch", !.blueprint = b]]
    /\ UNCHANGED <<volumes, tasks, suspend, suspended, disturbances>>

\* The schedule of the CronJob; ConcurrencyPolicy is Forbid.
StartScan(b) ==
    /\ ~ suspended[b]
    /\ \A pod \in ScanPods \ IdlePods : pods[pod].blueprint # b
    /\ IdlePods # {}
    /\ pods' = [pods EXCEPT ![CHOOSE pod \in IdlePods : TRUE] =
                   [Idle EXCEPT !.pc = "fetch", !.blueprint = b]]
    /\ UNCHANGED <<volumes, tasks, suspend, suspended, disturbances>>
-----------------------------------------------------------------------------
(* The scan command.                                                       *)

\* Nothing in the program ever adds to BlueprintStatus.CurrentTasks.
CurrentTasks(b) == {}

IsMaxParallelTaskLimitReached(b) == Cardinality(CurrentTasks(b)) >= MaxParallelTasks

FetchBlueprint(pod) ==
    /\ pods[pod].pc = "fetch"
    /\ pods' = [pods EXCEPT ![pod] =
           IF IsMaxParallelTaskLimitReached(@.blueprint) THEN Idle ELSE [@ EXCEPT !.pc = "list"]]
    /\ UNCHANGED <<volumes, tasks, suspend, suspended, disturbances>>

\* Encoded stands for Ready.
Unfinished == {"new", "split", "merged"}

\* Tasks about to be deleted are left out, Tasks that are Ready are not.
IsListed(k) == tasks[k].state # "deleting"
OwnTasks(b) == {k \in DOMAIN tasks : tasks[k].owner = b /\ IsListed(k)}

FetchCurrentTasks(pod) ==
    /\ pods[pod].pc = "list"
    /\ pods' = [pods EXCEPT ![pod].pc = "select",
                            ![pod].queued = {tasks[k].source : k \in OwnTasks(pods[pod].blueprint)}]
    /\ UNCHANGED <<volumes, tasks, suspend, suspended, disturbances>>

\* The positions of the files in S that Walk comes to before any other of S.
FirstOf(S) ==
    {k \in DOMAIN Walk : Walk[k] \in S /\ \A l \in 1 .. (k - 1) : Walk[l] \notin S}

\* Mutant: Walk ends at the first accepted file, queued or not.
SelectedUnlessFirstQueued(queued) ==
    {k \in FirstOf(present \cap Accepted) : Walk[k] \notin queued}

\* Mutant: the extension is not looked at.
SelectedOfAnyExtension(queued) == FirstOf(present \ queued)

\* The first file Walk comes to that is accepted and not queued.
Selected(queued) == FirstOf((present \cap Accepted) \ queued)

\* Without a file to select the command ends, which is no error.
SelectNewFile(pod) ==
    /\ pods[pod].pc = "select"
    /\ LET selection == Selected(pods[pod].queued) IN
         \/ /\ selection = {}
            /\ pods' = [pods EXCEPT ![pod] = Idle]
         \/ \E k \in selection :
               pods' = [pods EXCEPT ![pod].pc = "create", ![pod].selected = Walk[k]]
    /\ UNCHANGED <<volumes, tasks, suspend, suspended, disturbances>>

CreateTask(pod) ==
    /\ pods[pod].pc = "create"
    /\ IF ToUrlPanics(pods[pod].selected)
       THEN UNCHANGED tasks
       ELSE tasks' = Append(tasks, [owner |-> pods[pod].blueprint,
                                    file |-> pods[pod].selected,
                                    source |-> SourcePath(pods[pod].selected),
                                    target |-> TargetPath(pods[pod].selected),
                                    input |-> 0, state |-> "new"])
    /\ pods' = [pods EXCEPT ![pod] = Idle]
    /\ UNCHANGED <<volumes, suspend, suspended, disturbances>>

\* An error of a step, or the end of its pod, ends the scan: BackoffLimit is 0.
ScanFails(pod) ==
    /\ pods[pod].pc # "idle"
    /\ Disturbance
    /\ pods' = [pods EXCEPT ![pod] = Idle]
    /\ UNCHANGED <<volumes, tasks, suspend, suspended>>
-----------------------------------------------------------------------------
(* What happens to Tasks and files meanwhile.                              *)

\* The split job reads the source file.
TaskSplit(k) ==
    /\ tasks[k].state = "new"
    /\ tasks[k].source \in present
    /\ tasks' = [tasks EXCEPT ![k].state = "split", ![k].input = added[tasks[k].source]]
    /\ UNCHANGED <<volumes, suspend, suspended, pods, disturbances>>

\* The merge job writes the target file, over the one that is there (ffmpeg -y).
TaskMerged(k) ==
    /\ tasks[k].state = "split"
    /\ tasks' = [tasks EXCEPT ![k].state = "merged"]
    /\ target' = [target EXCEPT ![tasks[k].target] =
                      [file |-> tasks[k].source, content |-> tasks[k].input]]
    /\ UNCHANGED <<present, added, suspend, suspended, pods, disturbances>>

\* The split and the cleanup fail for good without a source file.
TaskFails(k) ==
    /\ tasks[k].state \in {"new", "merged"}
    /\ tasks[k].source \notin present
    /\ tasks' = [tasks EXCEPT ![k].state = "failed"]
    /\ UNCHANGED <<volumes, suspend, suspended, pods, disturbances>>

\* The cleanup job removes whatever has the name of the source file.
TaskEncoded(k) ==
    /\ tasks[k].state = "merged"
    /\ tasks[k].source \in present
    /\ present' = present \ {tasks[k].source}
    /\ tasks' = [tasks EXCEPT ![k].state = "encoded"]
    /\ UNCHANGED <<added, target, suspend, suspended, pods, disturbances>>

\* The operator looks at a Ready Task again, as after a restart: it creates the
\* cleanup job anew, whose pod may run before the job is deleted.
TaskRevisited(k) ==
    /\ tasks[k].state = "encoded"
    /\ tasks[k].source \in present
    /\ Disturbance
    /\ present' = present \ {tasks[k].source}
    /\ UNCHANGED <<added, target, tasks, suspend, suspended, pods>>

\* A user deletes a Task; it is listed until its Jobs are gone.
DeleteTask(k) ==
    /\ IsListed(k)
    /\ Disturbance
    /\ tasks' = [tasks EXCEPT ![k].state = "deleting"]
    /\ UNCHANGED <<volumes, suspend, suspended, pods>>

TaskDeleted(k) ==
    /\ tasks[k].state = "deleting"
    /\ tasks' = RemoveAt(tasks, k)
    /\ UNCHANGED <<volumes, suspend, suspended, pods, disturbances>>

AddFile(file) ==
    /\ file \notin present
    /\ added[file] < MaxVersions
    /\ present' = present \cup {file}
    /\ added' = [added EXCEPT ![file] = @ + 1]
    /\ UNCHANGED <<target, tasks, suspend, suspended, pods, disturbances>>

\* A user replaces a file, whether or not a Task is under way for it.
ReplaceFile(file) ==
    /\ file \in present
    /\ added[file] < MaxVersions
    /\ Disturbance
    /\ added' = [added EXCEPT ![file] = @ + 1]
    /\ UNCHANGED <<present, target, tasks, suspend, suspended, pods>>

RemoveFile(file) ==
    /\ file \in present
    /\ Disturbance
    /\ present' = present \ {file}
    /\ UNCHANGED <<added, target, tasks, suspend, suspended, pods>>

ScanInit ==
    /\ present = {}
    /\ added = [file \in Files |-> 0]
    /\ target = [path \in TargetPaths |-> [file |-> NoFile, content |-> 0]]
    /\ tasks = <<>>
    /\ suspend = [b \in Blueprints |-> FALSE]
    /\ suspended = [b \in Blueprints |-> FALSE]
    /\ pods = [pod \in ScanPods |-> Idle]
    /\ disturbances = 0

ScanStep(pod) ==
    FetchBlueprint(pod) \/ FetchCurrentTasks(pod) \/ SelectNewFile(pod) \/ CreateTask(pod)

TaskStep(k) == TaskSplit(k) \/ TaskMerged(k) \/ TaskEncoded(k) \/ TaskFails(k)

ScanNext ==
    \/ \E b \in Blueprints :
          SetSuspend(b) \/ EnsureCronJob(b) \/ StartScan(b)
    \/ \E pod \in ScanPods : ScanStep(pod) \/ ScanFails(pod)
    \/ \E k \in DOMAIN tasks :
          TaskStep(k) \/ TaskRevisited(k) \/ DeleteTask(k) \/ TaskDeleted(k)
    \/ \E file \in Files : AddFile(file) \/ ReplaceFile(file) \/ RemoveFile(file)

ScanSpec == ScanInit /\ [][ScanNext]_scanVars

\* The CronJob follows the Blueprint and starts a scan whenever it may; a scan
\* goes on until it ends or fails, and so does a Task (EventuallyReady); users
\* owe nothing.
ScanFairness ==
    /\ \A b \in Blueprints :
          WF_scanVars(EnsureCronJob(b)) /\ WF_scanVars(StartScan(b))
    /\ \A pod \in ScanPods : WF_scanVars(ScanStep(pod))
    /\ WF_scanVars(\E k \in DOMAIN tasks : TaskStep(k))

ScanFairSpec == ScanSpec /\ ScanFairness
-----------------------------------------------------------------------------
(* Properties.                                                             *)

OneBlueprint == \A b, c \in Blueprints : b = c

TaskStates == Unfinished \cup {"encoded", "failed", "deleting"}
Tasks == [owner : Blueprints, file : Accepted, source : Seq(STRING), target : TargetPaths,
          input : 0 .. MaxVersions, state : TaskStates]
Encodings == [file : Seq(STRING), content : 0 .. MaxVersions]
PodStates == [pc : {"idle", "fetch", "list", "select", "create"}, blueprint : Blueprints,
              queued : SUBSET Seq(STRING), selected : Accepted \cup {NoFile}]

ScanTypeOK ==
    /\ present \subseteq Files
    /\ added \in [Files -> 0 .. MaxVersions] /\ target \in [TargetPaths -> Encodings]
    /\ tasks \in Seq(Tasks)
    /\ suspend \in [Blueprints -> BOOLEAN] /\ suspended \in [Blueprints -> BOOLEAN]
    /\ pods \in [ScanPods -> PodStates]
    /\ disturbances \in Nat

\* A Blueprint has at most one Task for a file that is not being deleted: a scan
\* is only for new files (README.adoc:26), although it lists the Tasks long
\* before it creates one, and Tasks are finished and deleted meanwhile.
OneTaskPerFile ==
    \A k, l \in DOMAIN tasks :
        /\ tasks[k].owner = tasks[l].owner
        /\ tasks[k].file = tasks[l].file
        /\ IsListed(k) /\ IsListed(l)
        => k = l

\* The target volume holds the encoding of what a Task that is merged or Ready
\* has read: no other Task writes over it (ffmpeg -y in merge_job.go), although
\* files are replaced and removed and Tasks are deleted and created anew
\* meanwhile.  Blueprints that share the volume may write over an encoding, with
\* one of the same file (README.adoc:24).
EncodingHeld ==
    \A k \in DOMAIN tasks : tasks[k].state \in {"merged", "encoded"} =>
        LET encoding == target[tasks[k].target] IN
        /\ encoding.file = tasks[k].source
        /\ OneBlueprint => encoding.content = tasks[k].input

\* A Task of b for the file is through, or stuck since the file was missing.
Settled(b, file) ==
    \E k \in DOMAIN tasks :
        tasks[k].owner = b /\ tasks[k].file = file /\ tasks[k].state \in {"encoded", "failed"}

\* Each media file gets its turn (README.adoc:24), however many come before it,
\* as long as it stays and the Blueprint is not suspended: scans that fail and
\* Tasks that are deleted, Ready or stuck do not keep others waiting.
EveryFileEncoded ==
    \A b \in Blueprints, file \in Accepted :
        file \in present ~>
            Settled(b, file) \/ file \notin present \/ suspend[b] \/ suspended[b]

\* No more than MaxParallelTasks Tasks of a Blueprint are current
\* (blueprint_types.go:71).
ParallelTasksLimited ==
    \A b \in Blueprints :
        Cardinality({k \in DOMAIN tasks : tasks[k].owner = b /\ tasks[k].state \in Unfinished})
            <= MaxParallelTasks
-----------------------------------------------------------------------------
(* The invariant that OneTaskPerFile and EncodingHeld follow from.         *)

\* The names of the media files survive their conversion to a URL.
PlainNames == \A file \in Accepted : SourcePath(file) = file

\* No two media files have the same name in the target volume.
TargetsDiffer == \A f, g \in Accepted : TargetPath(f) = TargetPath(g) => f = g

UrlsNamed ==
    \A k \in DOMAIN tasks :
        tasks[k].source = SourcePath(tasks[k].file) /\ tasks[k].target = TargetPath(tasks[k].file)

\* The scans of a Blueprint follow one another.
OneScanEach ==
    \A p, q \in ScanPods \ IdlePods : pods[p].blueprint = pods[q].blueprint => p = q

\* While a scan selects, no Task comes into being that it does not know of.
ScanKnowsTasks ==
    \A pod \in ScanPods :
        /\ pods[pod].pc \in {"select", "create"} =>
              \A k \in OwnTasks(pods[pod].blueprint) : tasks[k].source \in pods[pod].queued
        /\ pods[pod].pc = "create" => pods[pod].selected \in Accepted \ pods[pod].queued

ScanInv ==
    ScanTypeOK /\ UrlsNamed /\ OneScanEach /\ ScanKnowsTasks /\ OneTaskPerFile
=============================================================================
