------------------------------ MODULE JobSpecs ------------------------------
(***************************************************************************)
(* From a Blueprint's spec to the pods of its Jobs: the webhook defaults   *)
(* and validates the Blueprint (src/pkg/webhook/blueprintwebhook), the     *)
(* blueprint controller derives the CronJob of its scans, a scan copies    *)
(* the spec into a Task, and the task controller derives the Task's Jobs   *)
(* and applies them again each time it reconciles the Task                 *)
(* (src/pkg/operator/taskcontroller).  The API server refuses a pod that   *)
(* is not valid, and a change of the pod template of a Job.                *)
(***************************************************************************)
EXTENDS Naturals, FiniteSets, SequencesExt

CONSTANTS
    Templates,     \* the pod templates users write
    Customised,    \* the sets of commands whose arguments users write
    None,          \* no object
    MaxEdits       \* bound: changes of the Blueprint

ASSUME EditsAssumption == MaxEdits \in Nat \ {0}

VARIABLES
    blueprint,     \* the Blueprint's spec as the API server stores it
    cron,          \* the volumes of the CronJob's pods
    task,          \* the part of a Task's spec that is copied from the Blueprint
    jobs,          \* the pod template of each of the Task's Jobs
    refused,       \* the requests that the API server has refused, each with the
                   \* spec that the Job was derived from
    edits          \* how often the Blueprint was changed

specVars == <<blueprint, cron, task, jobs, refused, edits>>

Storage == {"source", "intermediate", "target"}
Kinds == {"split", "count", "slice", "merge", "cleanup"}

\* Of a pod template only what the definition of a Job touches is kept:
\* volumes by name and origin, containers by name, mounts and arguments, mounts
\* by volume and path, and whose labels there are.  The path "source" stands for
\* /clustercode/source, and so on.
Names(named) == {x.name : x \in ToSet(named)}
Paths(mounts) == {m.path : m \in ToSet(mounts)}
-----------------------------------------------------------------------------
(* The webhook.                                                            *)

\* The arguments of a command that the user does not write.  They keep of
\* each argument that is no option what it stands for.
DefaultArgs ==
    [split |-> <<"${INPUT}", "${SLICE_SIZE}", "${OUTPUT}">>,
     slice |-> <<"${INPUT}", "${OUTPUT}">>,
     merge |-> <<"concat.txt", "media_out.mkv">>]

\* What users write instead (docs/modules/ROOT/examples/blueprint.yaml).
CustomArgs == [DefaultArgs EXCEPT !.merge = <<"${INPUT}", "${OUTPUT}">>]

Default(customised) ==
    [kind \in DOMAIN DefaultArgs |->
        IF kind \in customised THEN CustomArgs[kind] ELSE DefaultArgs[kind]]

HasPodVolume(template, name) == name \in Names(template.volumes)

ValidateStorage(bp, name) ==
    IF name \in bp.claims
    THEN ~ HasPodVolume(bp.encode, name) /\ ~ HasPodVolume(bp.cleanup, name)
    ELSE HasPodVolume(bp.encode, name) /\ HasPodVolume(bp.cleanup, name)

\* A user creates or changes the Blueprint and the webhook lets it pass.
ApplyBlueprint ==
    /\ edits < MaxEdits
    /\ edits' = edits + 1
    /\ \E claims \in SUBSET Storage, encode, cleanup \in Templates, own \in Customised :
         blueprint' = [claims |-> claims, encode |-> encode, cleanup |-> cleanup,
                       args |-> Default(own)]
    /\ \A name \in Storage : ValidateStorage(blueprint', name)
    /\ UNCHANGED <<cron, task, jobs, refused>>
-----------------------------------------------------------------------------
(* The definition of a Job.                                                *)

\* The volumes that a Job asks createClustercodeJobDefinition to mount.
Mounts ==
    [split |-> {"source", "intermediate"}, count |-> {"intermediate"},
     slice |-> {"intermediate"}, merge |-> {"intermediate", "target", "config"},
     cleanup |-> {"source", "intermediate"}]

\* Mutant: a volume is added although the template has one of this name.
AddVolume(owner, volumes, name) ==
    Append(volumes, [name |-> name,
                     from |-> IF name = "config" THEN "file list"
                              ELSE IF name \in owner.claims THEN "claim" ELSE "empty claim"])

\* EnsurePVCVolume and EnsureConfigMapVolume.
EnsureVolume(owner, volumes, name) ==
    IF name \in Names(volumes) THEN volumes
    ELSE Append(volumes, [name |-> name,
                          from |-> IF name = "config" THEN "file list"
                                   ELSE IF name \in owner.claims THEN "claim" ELSE "empty claim"])

EnsureVolumeIf(enabled, owner, volumes, name) ==
    IF enabled THEN EnsureVolume(owner, volumes, name) ELSE volumes

\* Those that are asked for, in the order of createClustercodeJobDefinition.
EnsureVolumes(owner, volumes, names) ==
    LET source == EnsureVolumeIf("source" \in names, owner, volumes, "source")
        intermediate == EnsureVolumeIf("intermediate" \in names, owner, source, "intermediate")
        target == EnsureVolumeIf("target" \in names, owner, intermediate, "target")
    IN EnsureVolumeIf("config" \in names, owner, target, "config")

\* A volume that is mounted stays where it is mounted.
EnsureVolumeMountIf(enabled, mounts, name) ==
    IF ~ enabled \/ name \in Names(mounts) THEN mounts
    ELSE Append(mounts, [name |-> name, path |-> name])

EnsureVolumeMounts(mounts, names) ==
    LET source == EnsureVolumeMountIf("source" \in names, mounts, "source")
        intermediate == EnsureVolumeMountIf("intermediate" \in names, source, "intermediate")
        target == EnsureVolumeMountIf("target" \in names, intermediate, "target")
    IN EnsureVolumeMountIf("config" \in names, target, "config")

\* What the variables of each command stand for.
SplitMeaning ==
    [v \in {"${INPUT}", "${OUTPUT}", "${SLICE_SIZE}"} |->
        CASE v = "${INPUT}" -> "source file"
          [] v = "${OUTPUT}" -> "segments"
          [] OTHER -> "slice size"]

SliceMeaning ==
    [v \in {"${INPUT}", "${OUTPUT}"} |-> IF v = "${INPUT}" THEN "segment" ELSE "encoding"]

MergeMeaning ==
    [v \in {"${INPUT}", "${OUTPUT}"} |-> IF v = "${INPUT}" THEN "file list" ELSE "target file"]

Meaning == [split |-> SplitMeaning, slice |-> SliceMeaning, merge |-> MergeMeaning]

MergeArgsAndReplaceVariables(kind, args) ==
    [k \in DOMAIN args |->
        IF args[k] \in DOMAIN Meaning[kind] THEN Meaning[kind][args[k]] ELSE args[k]]

\* What the Job's own container runs.
Command(owner, kind) ==
    IF kind \in DOMAIN Meaning THEN MergeArgsAndReplaceVariables(kind, owner.args[kind])
                               ELSE <<kind>>

Clustercode(owner, kind, mounts) ==
    [name |-> "clustercode", args |-> Command(owner, kind),
     mounts |-> EnsureVolumeMounts(mounts, Mounts[kind])]

\* Mutant: the copy of a container that exists is changed and not stored.
AppendContainer(owner, kind, containers) ==
    IF \E c \in ToSet(containers) : c.name = "clustercode"
    THEN containers
    ELSE Append(containers, Clustercode(owner, kind, <<>>))

\* Of several containers of this name the code changes the first; the API
\* server refuses the pod then.
CreateOrUpdateContainer(owner, kind, containers) ==
    IF \E c \in ToSet(containers) : c.name = "clustercode"
    THEN [k \in DOMAIN containers |->
             IF containers[k].name = "clustercode"
             THEN Clustercode(owner, kind, containers[k].mounts) ELSE containers[k]]
    ELSE Append(containers, Clustercode(owner, kind, <<>>))

EmptyPod == [labels |-> {}, volumes |-> <<>>, containers |-> <<>>]

TemplateOf(owner, kind) == IF kind = "cleanup" THEN owner.cleanup ELSE owner.encode

\* Mutant: the containers of the template are added to those that are there.
AddJobDefinition(owner, kind, pod) ==
    LET template == TemplateOf(owner, kind) IN
    [labels |-> IF template.labels = {} THEN pod.labels ELSE template.labels,
     volumes |-> EnsureVolumes(owner, template.volumes, Mounts[kind]),
     containers |-> CreateOrUpdateContainer(owner, kind, pod.containers \o template.containers)]

\* createClustercodeJobDefinition, applied to the pod template that is there.
CreateClustercodeJobDefinition(owner, kind, pod) ==
    LET template == TemplateOf(owner, kind) IN
    [labels |-> IF template.labels = {} THEN pod.labels ELSE template.labels,
     volumes |-> EnsureVolumes(owner, template.volumes, Mounts[kind]),
     containers |-> CreateOrUpdateContainer(owner, kind, template.containers)]

\* The count job has no template; its volumes are added to those that are there.
CountJobDefinition(owner, pod) ==
    [labels |-> pod.labels,
     volumes |-> EnsureVolume(owner, pod.volumes, "intermediate"),
     containers |-> <<Clustercode(owner, "count", <<>>)>>]

JobDefinition(owner, kind, pod) ==
    IF kind = "count" THEN CountJobDefinition(owner, pod)
                      ELSE CreateClustercodeJobDefinition(owner, kind, pod)
-----------------------------------------------------------------------------
(* The API server.                                                         *)

UniqueNames(named) == Cardinality(Names(named)) = Len(named)
HasClaims(volumes) == \A v \in ToSet(volumes) : v.from # "empty claim"

\* Each mount has its volume, and a path of its own in the container.
Mountable(mounts, volumes) ==
    Names(mounts) \subseteq volumes /\ Cardinality(Paths(mounts)) = Len(mounts)

ValidPod(pod) ==
    /\ UniqueNames(pod.volumes) /\ HasClaims(pod.volumes)
    /\ UniqueNames(pod.containers)
    /\ \A c \in ToSet(pod.containers) : Mountable(c.mounts, Names(pod.volumes))

\* Users write any lists; what is wrong with them is for the API server to say.
IsSequence(s) == s \in Seq(ToSet(s))

ASSUME TemplatesAssumption ==
    \A t \in Templates :
        /\ IsSequence(t.volumes) /\ IsSequence(t.containers)
        /\ \A c \in ToSet(t.containers) : IsSequence(c.mounts)

\* The pods of a Job get labels of their own that its selector names.
WithControllerLabels(pod) == [pod EXCEPT !.labels = @ \cup {"controller"}]
-----------------------------------------------------------------------------
CronPod(bp) ==
    [labels |-> {}, volumes |-> EnsureVolumes(bp, <<>>, {"source", "intermediate"}),
     containers |-> <<[name |-> "scanner", args |-> <<"scan">>,
                       mounts |-> EnsureVolumeMounts(<<>>, {"source", "intermediate"})]>>]

Refuse(kind, request, owner) ==
    refused' = refused \cup {[kind |-> kind, request |-> request, owner |-> owner]}

\* The containers and volumes of a CronJob that exists are left as they are.
EnsureCronJob ==
    /\ blueprint # None
    /\ cron = None
    /\ IF ValidPod(CronPod(blueprint))
       THEN cron' = CronPod(blueprint).volumes /\ UNCHANGED refused
       ELSE Refuse("scan", "create", blueprint) /\ UNCHANGED cron
    /\ UNCHANGED <<blueprint, task, jobs, edits>>

\* A scan copies the Blueprint's spec, as it is by then, into a Task.
CreateTask ==
    /\ cron # None
    /\ task = None
    /\ task' = blueprint
    /\ UNCHANGED <<blueprint, cron, jobs, refused, edits>>

\* controllerutil.CreateOrUpdate: an update that changes nothing is not sent.
EnsureJob(kind) ==
    /\ task # None
    /\ IF jobs[kind] = None
       THEN LET pod == JobDefinition(task, kind, EmptyPod) IN
            IF ValidPod(pod)
            THEN jobs' = [jobs EXCEPT ![kind] = WithControllerLabels(pod)] /\ UNCHANGED refused
            ELSE Refuse(kind, "create", task) /\ UNCHANGED jobs
       ELSE /\ jobs' = jobs
            /\ IF JobDefinition(task, kind, jobs[kind]) = jobs[kind] THEN UNCHANGED refused
               ELSE Refuse(kind, "update", task)
    /\ UNCHANGED <<blueprint, cron, task, edits>>

SpecsInit ==
    /\ blueprint = None /\ cron = None /\ task = None
    /\ jobs = [kind \in Kinds |-> None]
    /\ refused = {}
    /\ edits = 0

SpecsNext == ApplyBlueprint \/ EnsureCronJob \/ CreateTask \/ \E kind \in Kinds : EnsureJob(kind)

SpecsSpec == SpecsInit /\ [][SpecsNext]_specVars
-----------------------------------------------------------------------------
(* Properties.                                                             *)

\* What it takes for a Job of a spec that the webhook has let pass to be
\* created: the count Job and the CronJob have no template and need claims, and
\* the others need a template that is valid with the volumes that the Job adds.
Complete(owner, kind) ==
    CASE kind = "scan" -> {"source", "intermediate"} \subseteq owner.claims
      [] kind = "count" -> "intermediate" \in owner.claims
      [] OTHER ->
            LET template == TemplateOf(owner, kind) IN
            /\ UniqueNames(template.volumes) /\ HasClaims(template.volumes)
            /\ UniqueNames(template.containers)
            /\ \A c \in ToSet(template.containers) :
                  /\ Mountable(c.mounts, Names(template.volumes) \cup Mounts[kind])
                  /\ c.name = "clustercode" =>
                        Paths(c.mounts) \cap (Mounts[kind] \ Names(c.mounts)) = {}

\* Where the webhook and the definitions of the Jobs agree, however the
\* Blueprint has changed since its CronJob and its Task were created: no Job of
\* a complete spec is refused, and no other Job comes into being.  A volume that
\* the spec has as a claim or in both templates is never missing or there twice
\* (validateStorage, EnsurePVCVolume).  The webhook also lets specs pass that
\* are not complete: without a claim, as common.go:13 to 19 offers it, the count
\* Job and the CronJob are refused for good.
AdmittedWhenComplete ==
    /\ \A r \in refused : r.request = "create" => ~ Complete(r.owner, r.kind)
    /\ \A kind \in Kinds : jobs[kind] # None => Complete(task, kind)

\* To apply the definition to a Job that exists changes nothing, so that the
\* task controller may do so at each reconcile, as it does.  This is what
\* CreateOrUpdate of TaskOperator stands for.  Templates with labels are left
\* out (see LabelsMerged).
DefinitionStable ==
    \A r \in refused : r.request = "update" => TemplateOf(r.owner, r.kind).labels # {}

\* Whatever containers the template has, the pod runs the Job's own command
\* once, in a container that has each volume the command works on where the
\* command looks for it, unless the template mounts it elsewhere there.
CommandRuns ==
    \A kind \in Kinds : jobs[kind] # None =>
        \E c \in ToSet(jobs[kind].containers) :
            /\ c.name = "clustercode"
            /\ c.args = Command(task, kind)
            /\ \A name \in Mounts[kind] :
                  \/ [name |-> name, path |-> name] \in ToSet(c.mounts)
                  \/ \E own \in ToSet(TemplateOf(task, kind).containers) :
                        own.name = "clustercode" /\ name \in Names(own.mounts)

\* Labels of a pod template do not get in the way (podtemplate_types.go:40:
\* "Labels will be merged with internal labels").
LabelsMerged == \A r \in refused : r.request # "update"
=============================================================================
