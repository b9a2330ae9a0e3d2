--------------------------- MODULE JobSpecsProofs ---------------------------
(***************************************************************************)
(* The Jobs of a complete spec, and no others, are admitted; a Job runs    *)
(* its command, and the task controller may apply its definition again     *)
(* whenever it reconciles the Task: for every set of pod templates, valid  *)
(* or not, and however the Blueprint changes meanwhile.                    *)
(***************************************************************************)
EXTENDS JobSpecs, FiniteSetTheorems, SequenceTheorems, TLAPS

\* A Job is what its Task defines and what the Job controller adds, although
\* the Blueprint may have changed since.
JobsFollowTask ==
    \A kind \in Kinds : jobs[kind] # None =>
        /\ task # None
        /\ jobs[kind] = WithControllerLabels(JobDefinition(task, kind, EmptyPod))

\* What was refused as an update is a definition with labels.
RefusedHaveLabels ==
    \A q \in refused : q.request = "update" => TemplateOf(q.owner, q.kind).labels # {}

JobsIInv ==
    /\ jobs = [kind \in Kinds |-> jobs[kind]]
    /\ JobsFollowTask
    /\ RefusedHaveLabels

-----------------------------------------------------------------------------
(* Definitions are stable.                                                 *)

\* EnsurePVCVolume adds the volume of the count Job once (internal/utils/utils.go).
LEMMA EnsureVolumeTwice ==
    ASSUME NEW owner, NEW name
    PROVE  LET volumes == EnsureVolume(owner, <<>>, name) IN
           EnsureVolume(owner, volumes, name) = volumes
<1> DEFINE from == IF name = "config" THEN "file list"
                   ELSE IF name \in owner.claims THEN "claim" ELSE "empty claim"
           v == [name |-> name, from |-> from]
           volumes == EnsureVolume(owner, <<>>, name)
<1>1. Names(<<>>) = {}
  BY DEF Names, ToSet
<1>2. volumes = Append(<<>>, v)
  BY <1>1 DEF EnsureVolume
<1>3. v.name = name
  OBVIOUS
<1>4. v \in ToSet(Append(<<>>, v))
  <2> HIDE DEF v
  <2>1. Append(<<>>, v) = <<v>>
    OBVIOUS
  <2> QED
    BY <2>1 DEF ToSet
<1>5. name \in Names(volumes)
  <2> HIDE DEF v, volumes
  <2> QED
    BY <1>2, <1>3, <1>4 DEF Names
<1> QED
  BY <1>5 DEF EnsureVolume

\* Without labels of the user's own, a definition changes nothing in a pod
\* that follows it (createClustercodeJobDefinition, ensureCountJob).
LEMMA DefinitionRepeats ==
    ASSUME NEW owner, NEW kind \in Kinds, TemplateOf(owner, kind).labels = {}
    PROVE  LET pod == WithControllerLabels(JobDefinition(owner, kind, EmptyPod)) IN
           JobDefinition(owner, kind, pod) = pod
<1> DEFINE pod == WithControllerLabels(JobDefinition(owner, kind, EmptyPod))
<1>1. CASE kind = "count"
  <2> DEFINE vs == EnsureVolume(owner, <<>>, "intermediate")
             cs == <<Clustercode(owner, "count", <<>>)>>
  <2>0. JobDefinition(owner, kind, EmptyPod) = [labels |-> {}, volumes |-> vs, containers |-> cs]
    BY <1>1 DEF JobDefinition, CountJobDefinition, EmptyPod
  <2>1. pod = [labels |-> {"controller"}, volumes |-> vs, containers |-> cs]
    <3> HIDE DEF vs, cs
    <3> QED
      BY <2>0 DEF WithControllerLabels
  <2>2. JobDefinition(owner, kind, pod) =
            [labels |-> pod.labels, volumes |-> EnsureVolume(owner, pod.volumes, "intermediate"),
             containers |-> cs]
    BY <1>1 DEF JobDefinition, CountJobDefinition
  <2>3. EnsureVolume(owner, vs, "intermediate") = vs
    BY EnsureVolumeTwice
  <2> HIDE DEF vs, cs, pod
  <2>4. pod.labels = {"controller"} /\ pod.volumes = vs
    BY <2>1
  <2>5. JobDefinition(owner, kind, pod) = pod
    BY <2>1, <2>2, <2>3, <2>4
  <2> QED
    BY <2>5 DEF pod
<1>2. CASE kind # "count"
  <2> DEFINE template == TemplateOf(owner, kind)
             vs == EnsureVolumes(owner, template.volumes, Mounts[kind])
             cs == CreateOrUpdateContainer(owner, kind, template.containers)
  <2>1. pod = [labels |-> {"controller"}, volumes |-> vs, containers |-> cs]
    BY <1>2 DEF JobDefinition, CreateClustercodeJobDefinition, WithControllerLabels, EmptyPod
  <2>2. JobDefinition(owner, kind, pod) =
            [labels |-> pod.labels, volumes |-> vs, containers |-> cs]
    BY <1>2 DEF JobDefinition, CreateClustercodeJobDefinition
  <2> HIDE DEF vs, cs, pod
  <2>3. pod.labels = {"controller"}
    BY <2>1
  <2>4. JobDefinition(owner, kind, pod) = pod
    BY <2>1, <2>2, <2>3
  <2> QED
    BY <2>4 DEF pod
<1> QED
  BY <1>1, <1>2

-----------------------------------------------------------------------------
LEMMA JobsIInvInit == SpecsInit => JobsIInv
BY DEF SpecsInit, JobsIInv, JobsFollowTask, RefusedHaveLabels

\* The two branches of controllerutil.CreateOrUpdate.
LEMMA EnsureJobInvariant ==
    ASSUME JobsIInv, NEW kind \in Kinds, EnsureJob(kind)
    PROVE  JobsIInv'
<1> USE DEF JobsIInv
<1>0. task # None /\ task' = task
  BY DEF EnsureJob
<1>1. CASE jobs[kind] = None
  <2> DEFINE pod == JobDefinition(task, kind, EmptyPod)
  <2>1. CASE ValidPod(pod)
    <3>1. jobs' = [jobs EXCEPT ![kind] = WithControllerLabels(pod)] /\ refused' = refused
      BY <1>1, <2>1 DEF EnsureJob
    <3> HIDE DEF pod
    <3>2. jobs' = [k \in Kinds |-> jobs'[k]]
      BY <3>1
    <3>3. ASSUME NEW k \in Kinds, jobs'[k] # None
          PROVE  jobs'[k] = WithControllerLabels(JobDefinition(task, k, EmptyPod))
      <4>1. CASE k = kind
        BY <3>1, <4>1 DEF pod
      <4>2. CASE k # kind
        BY <3>1, <3>3, <4>2 DEF JobsFollowTask
      <4> QED
        BY <4>1, <4>2
    <3>4. JobsFollowTask'
      <4>1. ASSUME NEW k \in Kinds, jobs'[k] # None
            PROVE  (jobs[k] = WithControllerLabels(JobDefinition(task, k, EmptyPod)))'
        BY <1>0, <3>3, <4>1 DEF JobDefinition, CreateClustercodeJobDefinition,
           CountJobDefinition, TemplateOf
      <4> QED
        BY <1>0, <4>1 DEF JobsFollowTask
    <3>5. RefusedHaveLabels'
      BY <1>0, <3>1 DEF RefusedHaveLabels, TemplateOf
    <3> QED
      BY <3>2, <3>4, <3>5
  <2>2. CASE ~ ValidPod(pod)
    <3>1. jobs' = jobs /\ Refuse(kind, "create", task)
      BY <1>1, <2>2 DEF EnsureJob
    <3>2. \A q \in refused' : q.request = "update" => q \in refused
      BY <3>1 DEF Refuse
    <3> QED
      BY <1>0, <3>1, <3>2 DEF JobsFollowTask, RefusedHaveLabels
  <2> QED
    BY <2>1, <2>2
<1>2. CASE jobs[kind] # None
  <2>1. jobs' = jobs
    BY <1>2 DEF EnsureJob
  <2>2. jobs[kind] = WithControllerLabels(JobDefinition(task, kind, EmptyPod))
    BY <1>2 DEF JobsFollowTask
  <2>3. CASE JobDefinition(task, kind, jobs[kind]) = jobs[kind]
    <3>1. refused' = refused
      BY <1>2, <2>3 DEF EnsureJob
    <3> QED
      BY <1>0, <2>1, <3>1 DEF JobsFollowTask, RefusedHaveLabels
  <2>4. CASE JobDefinition(task, kind, jobs[kind]) # jobs[kind]
    <3>1. refused' = refused \cup {[kind |-> kind, request |-> "update", owner |-> task]}
      BY <1>2, <2>4 DEF EnsureJob, Refuse
    <3>2. TemplateOf(task, kind).labels # {}
      BY <2>2, <2>4, DefinitionRepeats
    <3>3. RefusedHaveLabels'
      BY <1>0, <3>1, <3>2 DEF RefusedHaveLabels, TemplateOf
    <3> QED
      BY <1>0, <2>1, <3>3 DEF JobsFollowTask
  <2> QED
    BY <2>3, <2>4
<1> QED
  BY <1>1, <1>2

LEMMA JobsIInvNext == JobsIInv /\ [SpecsNext]_specVars => JobsIInv'
<1> SUFFICES ASSUME JobsIInv, [SpecsNext]_specVars
             PROVE  JobsIInv'
  OBVIOUS
<1>1. ASSUME task' = task, jobs' = jobs,
             \A q \in refused' : q.request = "update" => q \in refused
      PROVE  JobsIInv'
  BY <1>1 DEF JobsIInv, JobsFollowTask, RefusedHaveLabels, TemplateOf
<1>2. CASE ApplyBlueprint
  BY <1>1, <1>2 DEF ApplyBlueprint
<1>3. CASE EnsureCronJob
  <2>1. \A q \in refused' : q.request = "update" => q \in refused
    BY <1>3 DEF EnsureCronJob, Refuse
  <2> QED
    BY <1>1, <1>3, <2>1 DEF EnsureCronJob
<1>4. CASE CreateTask
  \* No Job is older than its Task.
  BY <1>4 DEF CreateTask, JobsIInv, JobsFollowTask, RefusedHaveLabels, TemplateOf
<1>5. ASSUME NEW kind \in Kinds, EnsureJob(kind)
      PROVE  JobsIInv'
  BY <1>5, EnsureJobInvariant
<1>6. CASE UNCHANGED specVars
  BY <1>1, <1>6 DEF specVars
<1> QED
  BY <1>2, <1>3, <1>4, <1>5, <1>6 DEF SpecsNext

\* JobsIInv holds in every state of the specification.
THEOREM JobsInvariance == SpecsSpec => []JobsIInv
<1>1. SpecsInit => JobsIInv
  BY JobsIInvInit
<1>2. JobsIInv /\ [SpecsNext]_specVars => JobsIInv'
  BY JobsIInvNext
<1> QED
  BY <1>1, <1>2, PTL DEF SpecsSpec

\* The task controller may apply the definition of a Job at each reconcile:
\* only a template with labels makes it ask for a change
\* (controllerutil.CreateOrUpdate in ensureSplitJob and its siblings).
THEOREM DefinitionStaysStable == SpecsSpec => []DefinitionStable
<1>1. JobsIInv => DefinitionStable
  BY DEF JobsIInv, RefusedHaveLabels, DefinitionStable
<1> QED
  BY <1>1, JobsInvariance, PTL
-----------------------------------------------------------------------------
(* What the definition of a Job adds.                                      *)

LEMMA AppendAdds ==
    ASSUME NEW s, IsSequence(s), NEW e
    PROVE  /\ IsSequence(Append(s, e))
           /\ Len(Append(s, e)) = Len(s) + 1
           /\ ToSet(Append(s, e)) = ToSet(s) \cup {e}
<1> DEFINE S == ToSet(s) \cup {e}
<1>1. s \in Seq(S) /\ e \in S
  <2>1. s \in Seq(ToSet(s)) /\ ToSet(s) \subseteq S
    BY DEF IsSequence
  <2> HIDE DEF S
  <2>2. s \in Seq(S)
    BY <2>1
  <2> QED
    BY <2>2 DEF S
<1>2. ToSet(s) = {s[k] : k \in 1 .. Len(s)}
  BY <1>1 DEF ToSet
<1> HIDE DEF S
<1>3. /\ Append(s, e) \in Seq(S) /\ Len(Append(s, e)) = Len(s) + 1
      /\ \A k \in 1 .. Len(s) : Append(s, e)[k] = s[k]
      /\ Append(s, e)[Len(s) + 1] = e
  BY <1>1
<1>4. ToSet(Append(s, e)) = {Append(s, e)[k] : k \in 1 .. (Len(s) + 1)}
  BY <1>3 DEF ToSet
<1>5. 1 .. (Len(s) + 1) = (1 .. Len(s)) \cup {Len(s) + 1}
  BY <1>1
<1>6. ToSet(Append(s, e)) = ToSet(s) \cup {e}
  BY <1>2, <1>3, <1>4, <1>5
<1> QED
  BY <1>3, <1>6 DEF IsSequence, S

LEMMA NamesFinite ==
    ASSUME NEW vs, IsSequence(vs)
    PROVE  IsFiniteSet(Names(vs))
<1> DEFINE f == [k \in 1 .. Len(vs) |-> vs[k].name]
<1>1. f \in Surjection(1 .. Len(vs), Names(vs))
  <2>1. ToSet(vs) = {vs[k] : k \in 1 .. Len(vs)}
    BY DEF ToSet, IsSequence
  <2>2. \A n \in Names(vs) : \E k \in 1 .. Len(vs) : n = vs[k].name
    BY <2>1 DEF Names
  <2> QED
    BY <2>1, <2>2 DEF Names, Surjection
<1>2. IsFiniteSet(1 .. Len(vs))
  BY FS_Interval DEF IsSequence
<1> QED
  BY <1>1, <1>2, FS_Surjection

LEMMA PathsFinite ==
    ASSUME NEW ms, IsSequence(ms)
    PROVE  IsFiniteSet(Paths(ms)) /\ Cardinality(Paths(ms)) \in Nat
           /\ Cardinality(Paths(ms)) <= Len(ms)
<1> DEFINE f == [k \in 1 .. Len(ms) |-> ms[k].path]
<1>1. f \in Surjection(1 .. Len(ms), Paths(ms))
  <2>1. ToSet(ms) = {ms[k] : k \in 1 .. Len(ms)}
    BY DEF ToSet, IsSequence
  <2>2. \A n \in Paths(ms) : \E k \in 1 .. Len(ms) : n = ms[k].path
    BY <2>1 DEF Paths
  <2> QED
    BY <2>1, <2>2 DEF Paths, Surjection
<1>2. IsFiniteSet(1 .. Len(ms)) /\ Cardinality(1 .. Len(ms)) = Len(ms)
  <2>1. Len(ms) \in Nat
    BY DEF IsSequence
  <2>2. /\ IsFiniteSet(1 .. Len(ms))
        /\ Cardinality(1 .. Len(ms)) = IF 1 > Len(ms) THEN 0 ELSE Len(ms) - 1 + 1
    BY <2>1, FS_Interval
  <2> QED
    BY <2>1, <2>2
<1> HIDE DEF f
<1> QED
  BY <1>1, <1>2, FS_Surjection, FS_CardinalityType

LEMMA EmptyIsSequence ==
    /\ IsSequence(<<>>) /\ ToSet(<<>>) = {}
    /\ Names(<<>>) = {} /\ Paths(<<>>) = {}
    /\ UniqueNames(<<>>) /\ HasClaims(<<>>)
<1>1. IsSequence(<<>>) /\ ToSet(<<>>) = {}
  BY DEF IsSequence, ToSet
<1>2. Names(<<>>) = {} /\ Paths(<<>>) = {}
  BY <1>1 DEF Names, Paths
<1> QED
  BY <1>1, <1>2, FS_EmptySet DEF UniqueNames, HasClaims

\* us is vs with the volumes of these names: a volume that is added and has no
\* claim makes the pod invalid.
VolumesAdded(owner, vs, us, names) ==
    /\ IsSequence(us)
    /\ Names(us) = Names(vs) \cup names
    /\ UniqueNames(us) <=> UniqueNames(vs)
    /\ HasClaims(us) <=>
          HasClaims(vs) /\ names \subseteq Names(vs) \cup owner.claims \cup {"config"}

\* EnsurePVCVolume and EnsureConfigMapVolume add the volume unless it is there.
LEMMA EnsureVolumeAdds ==
    ASSUME NEW owner, NEW vs, IsSequence(vs), NEW name
    PROVE  VolumesAdded(owner, vs, EnsureVolume(owner, vs, name), {name})
<1>1. CASE name \in Names(vs)
  BY <1>1 DEF EnsureVolume, VolumesAdded
<1>2. CASE name \notin Names(vs)
  <2> DEFINE from == IF name = "config" THEN "file list"
                     ELSE IF name \in owner.claims THEN "claim" ELSE "empty claim"
             v == [name |-> name, from |-> from]
  <2>1. EnsureVolume(owner, vs, name) = Append(vs, v)
    BY <1>2 DEF EnsureVolume
  <2>2. v.name = name
    OBVIOUS
  <2>3. v.from # "empty claim" <=> name \in owner.claims \cup {"config"}
    OBVIOUS
  <2> HIDE DEF v
  <2>4. /\ IsSequence(Append(vs, v)) /\ Len(Append(vs, v)) = Len(vs) + 1
        /\ ToSet(Append(vs, v)) = ToSet(vs) \cup {v}
    BY AppendAdds
  <2>5. Names(Append(vs, v)) = Names(vs) \cup {name}
    BY <2>2, <2>4 DEF Names
  <2>6. /\ Cardinality(Names(vs) \cup {name}) = Cardinality(Names(vs)) + 1
        /\ Cardinality(Names(vs)) \in Nat /\ Len(vs) \in Nat
    BY <1>2, NamesFinite, FS_AddElement, FS_CardinalityType DEF IsSequence
  <2>7. UniqueNames(Append(vs, v)) <=> UniqueNames(vs)
    BY <2>4, <2>5, <2>6 DEF UniqueNames
  <2>8. HasClaims(Append(vs, v)) <=> HasClaims(vs) /\ v.from # "empty claim"
    BY <2>4 DEF HasClaims
  <2> QED
    BY <1>2, <2>1, <2>3, <2>4, <2>5, <2>7, <2>8 DEF VolumesAdded
<1> QED
  BY <1>1, <1>2

LEMMA EnsureVolumeIfAdds ==
    ASSUME NEW owner, NEW vs, IsSequence(vs), NEW names, NEW name
    PROVE  VolumesAdded(owner, vs, EnsureVolumeIf(name \in names, owner, vs, name),
                        names \cap {name})
<1>1. CASE name \in names
  <2>1. EnsureVolumeIf(name \in names, owner, vs, name) = EnsureVolume(owner, vs, name)
    BY <1>1 DEF EnsureVolumeIf
  <2>2. names \cap {name} = {name}
    BY <1>1
  <2> QED
    BY <2>1, <2>2, EnsureVolumeAdds
<1>2. CASE name \notin names
  BY <1>2 DEF EnsureVolumeIf, VolumesAdded
<1> QED
  BY <1>1, <1>2

LEMMA VolumesAddedTwice ==
    ASSUME NEW owner, NEW vs, NEW us, NEW ws, NEW m, NEW n,
           VolumesAdded(owner, vs, us, m), VolumesAdded(owner, us, ws, n)
    PROVE  VolumesAdded(owner, vs, ws, m \cup n)
BY DEF VolumesAdded

LEMMA EnsureVolumesAdds ==
    ASSUME NEW owner, NEW vs, IsSequence(vs), NEW names, names \subseteq Storage \cup {"config"}
    PROVE  VolumesAdded(owner, vs, EnsureVolumes(owner, vs, names), names)
<1> DEFINE source == EnsureVolumeIf("source" \in names, owner, vs, "source")
           intermediate == EnsureVolumeIf("intermediate" \in names, owner, source, "intermediate")
           target == EnsureVolumeIf("target" \in names, owner, intermediate, "target")
           config == EnsureVolumeIf("config" \in names, owner, target, "config")
           asked(n) == names \cap {n}
<1>1. config = EnsureVolumes(owner, vs, names)
  BY DEF EnsureVolumes
<1>2. VolumesAdded(owner, vs, source, asked("source"))
  BY EnsureVolumeIfAdds
<1> HIDE DEF source
<1>3. VolumesAdded(owner, source, intermediate, asked("intermediate"))
  BY <1>2, EnsureVolumeIfAdds DEF VolumesAdded
<1> HIDE DEF intermediate
<1>4. VolumesAdded(owner, intermediate, target, asked("target"))
  BY <1>3, EnsureVolumeIfAdds DEF VolumesAdded
<1> HIDE DEF target
<1>5. VolumesAdded(owner, target, config, asked("config"))
  BY <1>4, EnsureVolumeIfAdds DEF VolumesAdded
<1>6. names = asked("source") \cup asked("intermediate") \cup asked("target") \cup asked("config")
  BY DEF Storage
<1> HIDE DEF config, asked
<1>7. VolumesAdded(owner, vs, intermediate, asked("source") \cup asked("intermediate"))
  BY <1>2, <1>3, VolumesAddedTwice
<1>8. VolumesAdded(owner, vs, target, asked("source") \cup asked("intermediate") \cup asked("target"))
  BY <1>4, <1>7, VolumesAddedTwice
<1> QED
  BY <1>1, <1>5, <1>6, <1>8, VolumesAddedTwice

\* Where a volume is mounted that the template does not mount.
Own(name) == [name |-> name, path |-> name]

UniquePaths(mounts) == Cardinality(Paths(mounts)) = Len(mounts)

\* ns is ms with these volumes mounted at paths of their own.
MountsAdded(ms, ns, names) ==
    /\ IsSequence(ns)
    /\ ToSet(ns) = ToSet(ms) \cup {Own(n) : n \in names}
    /\ Names(ns) = Names(ms) \cup names /\ Paths(ns) = Paths(ms) \cup names
    /\ UniquePaths(ns) <=> UniquePaths(ms) /\ Paths(ms) \cap names = {}

\* EnsureVolumeMountIf, for one volume and then for all.
LEMMA EnsureVolumeMountAdds ==
    ASSUME NEW ms, IsSequence(ms), NEW names, NEW name
    PROVE  MountsAdded(ms, EnsureVolumeMountIf(name \in names, ms, name),
                       (names \ Names(ms)) \cap {name})
<1> DEFINE new == (names \ Names(ms)) \cap {name}
<1>1. CASE name \notin names \/ name \in Names(ms)
  <2>1. EnsureVolumeMountIf(name \in names, ms, name) = ms /\ new = {}
    BY <1>1 DEF EnsureVolumeMountIf
  <2> HIDE DEF new
  <2>2. MountsAdded(ms, EnsureVolumeMountIf(name \in names, ms, name), new)
    BY <2>1 DEF MountsAdded
  <2> QED
    BY <2>2 DEF new
<1>2. CASE name \in names /\ name \notin Names(ms)
  <2> DEFINE ns == Append(ms, Own(name))
  <2>1. EnsureVolumeMountIf(name \in names, ms, name) = ns
    BY <1>2 DEF EnsureVolumeMountIf, Own
  <2>2. /\ IsSequence(ns) /\ Len(ns) = Len(ms) + 1
        /\ ToSet(ns) = ToSet(ms) \cup {Own(name)}
    BY AppendAdds
  <2> HIDE DEF ns
  <2>3. Own(name).name = name /\ Own(name).path = name
    BY DEF Own
  <2>4. Names(ns) = Names(ms) \cup {name} /\ Paths(ns) = Paths(ms) \cup {name}
    BY <2>2, <2>3 DEF Names, Paths
  <2>5. /\ IsFiniteSet(Paths(ms)) /\ Cardinality(Paths(ms)) \in Nat /\ Len(ms) \in Nat
        /\ Cardinality(Paths(ms)) <= Len(ms)
    BY PathsFinite DEF IsSequence
  <2>6. Cardinality(Paths(ms) \cup {name}) =
            IF name \in Paths(ms) THEN Cardinality(Paths(ms)) ELSE Cardinality(Paths(ms)) + 1
    BY <2>5, FS_AddElement
  <2>7. UniquePaths(ns) <=> UniquePaths(ms) /\ name \notin Paths(ms)
    BY <2>2, <2>4, <2>5, <2>6 DEF UniquePaths
  <2>8. MountsAdded(ms, ns, {name})
    BY <2>2, <2>4, <2>7 DEF MountsAdded
  <2>9. new = {name}
    BY <1>2
  <2> QED
    BY <2>1, <2>8, <2>9
<1> QED
  BY <1>1, <1>2

LEMMA MountsAddedTwice ==
    ASSUME NEW ms, NEW ns, NEW os, NEW m, NEW n, m \cap n = {},
           MountsAdded(ms, ns, m), MountsAdded(ns, os, n)
    PROVE  MountsAdded(ms, os, m \cup n)
BY DEF MountsAdded

LEMMA EnsureVolumeMountsAdds ==
    ASSUME NEW mounts, IsSequence(mounts), NEW names, names \subseteq Storage \cup {"config"}
    PROVE  MountsAdded(mounts, EnsureVolumeMounts(mounts, names), names \ Names(mounts))
<1> DEFINE source == EnsureVolumeMountIf("source" \in names, mounts, "source")
           intermediate == EnsureVolumeMountIf("intermediate" \in names, source, "intermediate")
           target == EnsureVolumeMountIf("target" \in names, intermediate, "target")
           config == EnsureVolumeMountIf("config" \in names, target, "config")
           new(n) == (names \ Names(mounts)) \cap {n}
<1>1. config = EnsureVolumeMounts(mounts, names)
  BY DEF EnsureVolumeMounts
<1>2. MountsAdded(mounts, source, new("source"))
  BY EnsureVolumeMountAdds
<1> HIDE DEF source
<1>3. MountsAdded(source, intermediate, new("intermediate"))
  <2>1. IsSequence(source) /\ Names(source) = Names(mounts) \cup new("source")
    BY <1>2 DEF MountsAdded
  <2>2. new("intermediate") = (names \ Names(source)) \cap {"intermediate"}
    BY <2>1
  <2> QED
    BY <2>1, <2>2, EnsureVolumeMountAdds
<1> HIDE DEF intermediate
<1>4. MountsAdded(intermediate, target, new("target"))
  <2>1. /\ IsSequence(intermediate)
        /\ Names(intermediate) = Names(mounts) \cup new("source") \cup new("intermediate")
    BY <1>2, <1>3 DEF MountsAdded
  <2>2. new("target") = (names \ Names(intermediate)) \cap {"target"}
    BY <2>1
  <2> QED
    BY <2>1, <2>2, EnsureVolumeMountAdds
<1> HIDE DEF target
<1>5. MountsAdded(target, config, new("config"))
  <2>1. /\ IsSequence(target)
        /\ Names(target) = Names(mounts) \cup new("source") \cup new("intermediate") \cup new("target")
    BY <1>2, <1>3, <1>4 DEF MountsAdded
  <2>2. new("config") = (names \ Names(target)) \cap {"config"}
    BY <2>1
  <2> QED
    BY <2>1, <2>2, EnsureVolumeMountAdds
<1> HIDE DEF config
<1>6. names \ Names(mounts) =
          new("source") \cup new("intermediate") \cup new("target") \cup new("config")
  BY DEF Storage
<1>7. /\ new("source") \cap new("intermediate") = {}
      /\ (new("source") \cup new("intermediate")) \cap new("target") = {}
      /\ (new("source") \cup new("intermediate") \cup new("target")) \cap new("config") = {}
  OBVIOUS
<1> HIDE DEF new
<1>8. MountsAdded(mounts, intermediate, new("source") \cup new("intermediate"))
  BY <1>2, <1>3, <1>7, MountsAddedTwice
<1>9. MountsAdded(mounts, target, new("source") \cup new("intermediate") \cup new("target"))
  BY <1>4, <1>7, <1>8, MountsAddedTwice
<1> QED
  BY <1>1, <1>5, <1>6, <1>7, <1>9, MountsAddedTwice

\* The container c with what the Job adds to it, if it is the Job's own.
Fits(kind, c, volumes) ==
    /\ Mountable(c.mounts, volumes)
    /\ c.name = "clustercode" => Paths(c.mounts) \cap (Mounts[kind] \ Names(c.mounts)) = {}

\* The Job's own container, as it comes out of a definition.
IsOwn(owner, kind, c, mounts) ==
    /\ c.name = "clustercode"
    /\ c.args = Command(owner, kind)
    /\ \A name \in Mounts[kind] : Own(name) \in ToSet(c.mounts) \/ name \in Names(mounts)

LEMMA MountsAreNames == \A kind \in Kinds : Mounts[kind] \subseteq Storage \cup {"config"}
BY DEF Mounts, Kinds, Storage

LEMMA ClustercodeIsOwn ==
    ASSUME NEW owner, NEW kind \in Kinds, NEW mounts, IsSequence(mounts)
    PROVE  LET c == Clustercode(owner, kind, mounts) IN
           /\ IsOwn(owner, kind, c, mounts)
           /\ \A volumes : Mounts[kind] \subseteq volumes =>
                 (Mountable(c.mounts, volumes) <=>
                     /\ Mountable(mounts, volumes)
                     /\ Paths(mounts) \cap (Mounts[kind] \ Names(mounts)) = {})
<1> DEFINE c == Clustercode(owner, kind, mounts)
           ns == EnsureVolumeMounts(mounts, Mounts[kind])
<1>1. c.name = "clustercode" /\ c.args = Command(owner, kind) /\ c.mounts = ns
  BY DEF Clustercode
<1>2. /\ ToSet(ns) = ToSet(mounts) \cup {Own(n) : n \in Mounts[kind] \ Names(mounts)}
      /\ Names(ns) = Names(mounts) \cup Mounts[kind]
      /\ UniquePaths(ns) <=>
           UniquePaths(mounts) /\ Paths(mounts) \cap (Mounts[kind] \ Names(mounts)) = {}
  <2>1. MountsAdded(mounts, ns, Mounts[kind] \ Names(mounts))
    BY MountsAreNames, EnsureVolumeMountsAdds
  <2> HIDE DEF ns
  <2> QED
    BY <2>1 DEF MountsAdded
<1> HIDE DEF c, ns
<1>3. IsOwn(owner, kind, c, mounts)
  BY <1>1, <1>2 DEF IsOwn
<1>4. ASSUME NEW volumes, Mounts[kind] \subseteq volumes
      PROVE  Mountable(c.mounts, volumes) <=>
                 /\ Mountable(mounts, volumes)
                 /\ Paths(mounts) \cap (Mounts[kind] \ Names(mounts)) = {}
  BY <1>1, <1>2, <1>4 DEF Mountable, UniquePaths
<1> QED
  BY <1>3, <1>4 DEF c

\* A container that starts without mounts always fits.
LEMMA NewClustercodeFits ==
    ASSUME NEW owner, NEW kind \in Kinds, NEW volumes, Mounts[kind] \subseteq volumes
    PROVE  LET c == Clustercode(owner, kind, <<>>) IN
           /\ IsOwn(owner, kind, c, <<>>) /\ Mountable(c.mounts, volumes)
<1>1. Mountable(<<>>, volumes)
  BY EmptyIsSequence, FS_EmptySet DEF Mountable
<1>2. Paths(<<>>) \cap (Mounts[kind] \ Names(<<>>)) = {}
  BY EmptyIsSequence
<1> QED
  BY <1>1, <1>2, EmptyIsSequence, ClustercodeIsOwn

\* createOrUpdateContainer: the Job's own container is there afterwards, no
\* name is there twice that was not before, and all containers can mount what
\* they ask for if they could before, with the volumes that the Job adds.
LEMMA ContainersUpdated ==
    ASSUME NEW owner, NEW kind \in Kinds, NEW cs, IsSequence(cs),
           \A c \in ToSet(cs) : IsSequence(c.mounts),
           NEW volumes, Mounts[kind] \subseteq volumes
    PROVE  LET us == CreateOrUpdateContainer(owner, kind, cs) IN
           /\ \E u \in ToSet(us) :
                 \/ IsOwn(owner, kind, u, <<>>)
                 \/ \E c \in ToSet(cs) : c.name = "clustercode" /\ IsOwn(owner, kind, u, c.mounts)
           /\ UniqueNames(us) <=> UniqueNames(cs)
           /\ (\A u \in ToSet(us) : Mountable(u.mounts, volumes)) <=>
                  \A c \in ToSet(cs) : Fits(kind, c, volumes)
<1> DEFINE us == CreateOrUpdateContainer(owner, kind, cs)
           own(c) == Clustercode(owner, kind, c.mounts)
<1>0. ToSet(cs) = {cs[k] : k \in 1 .. Len(cs)} /\ DOMAIN cs = 1 .. Len(cs) /\ Len(cs) \in Nat
  BY DEF ToSet, IsSequence
<1>1. CASE \E c \in ToSet(cs) : c.name = "clustercode"
  <2> DEFINE new(c) == IF c.name = "clustercode" THEN own(c) ELSE c
  <2>1. us = [k \in 1 .. Len(cs) |-> new(cs[k])]
    BY <1>0, <1>1 DEF CreateOrUpdateContainer
  <2>2. \A c \in ToSet(cs) :
            /\ IsOwn(owner, kind, own(c), c.mounts)
            /\ Mountable(own(c).mounts, volumes) <=>
                  /\ Mountable(c.mounts, volumes)
                  /\ Paths(c.mounts) \cap (Mounts[kind] \ Names(c.mounts)) = {}
    BY ClustercodeIsOwn
  <2> HIDE DEF us, own
  <2>3. \A c \in ToSet(cs) : /\ new(c).name = c.name
                             /\ Mountable(new(c).mounts, volumes) <=> Fits(kind, c, volumes)
    BY <2>2 DEF IsOwn, Fits
  <2>4. \E c \in ToSet(cs) : c.name = "clustercode" /\ IsOwn(owner, kind, new(c), c.mounts)
    BY <1>1, <2>2
  <2> HIDE DEF new
  <2>5. ToSet(us) = {new(c) : c \in ToSet(cs)}
    BY <1>0, <2>1 DEF ToSet
  <2>6. Len(us) = Len(cs)
    BY <1>0, <2>1
  <2>7. Names(us) = Names(cs)
    BY <2>3, <2>5 DEF Names
  <2>8. (\A u \in ToSet(us) : Mountable(u.mounts, volumes)) <=>
            \A c \in ToSet(cs) : Fits(kind, c, volumes)
    BY <2>3, <2>5
  <2>9. UniqueNames(us) <=> UniqueNames(cs)
    BY <2>6, <2>7 DEF UniqueNames
  <2> QED
    BY <2>4, <2>5, <2>8, <2>9 DEF us
<1>2. CASE ~ \E c \in ToSet(cs) : c.name = "clustercode"
  <2> DEFINE first == Clustercode(owner, kind, <<>>)
  <2>1. us = Append(cs, first)
    BY <1>2 DEF CreateOrUpdateContainer
  <2>2. IsOwn(owner, kind, first, <<>>) /\ Mountable(first.mounts, volumes)
    BY NewClustercodeFits
  <2> HIDE DEF us, first
  <2>3. Len(us) = Len(cs) + 1 /\ ToSet(us) = ToSet(cs) \cup {first}
    BY <2>1, AppendAdds
  <2>4. Names(us) = Names(cs) \cup {"clustercode"}
    BY <2>2, <2>3 DEF Names, IsOwn
  <2>5. "clustercode" \notin Names(cs)
    BY <1>2 DEF Names
  <2>6. UniqueNames(us) <=> UniqueNames(cs)
    <3>1. Cardinality(Names(cs) \cup {"clustercode"}) = Cardinality(Names(cs)) + 1
          /\ Cardinality(Names(cs)) \in Nat
      BY <2>5, NamesFinite, FS_AddElement, FS_CardinalityType
    <3> QED
      BY <1>0, <2>3, <2>4, <3>1 DEF UniqueNames
  <2>7. \A c \in ToSet(cs) : Fits(kind, c, volumes) <=> Mountable(c.mounts, volumes)
    BY <1>2 DEF Fits
  <2> QED
    BY <2>2, <2>3, <2>6, <2>7 DEF us
<1> QED
  BY <1>1, <1>2

-----------------------------------------------------------------------------
(* Complete says which definitions are valid.                              *)

\* The webhook has let it pass: a volume has a claim or is in both templates.
Admitted(owner) ==
    /\ owner.encode \in Templates /\ owner.cleanup \in Templates
    /\ \A name \in Storage : ValidateStorage(owner, name)

\* createClustercodeJobDefinition adds volumes that have claims to a template
\* of a spec that the webhook has let pass.
LEMMA TemplateCompleted ==
    ASSUME NEW owner, Admitted(owner), NEW kind \in Kinds
    PROVE  LET t == TemplateOf(owner, kind)
               vs == EnsureVolumes(owner, t.volumes, Mounts[kind])
           IN /\ IsSequence(t.containers) /\ \A c \in ToSet(t.containers) : IsSequence(c.mounts)
              /\ Names(vs) = Names(t.volumes) \cup Mounts[kind]
              /\ UniqueNames(vs) <=> UniqueNames(t.volumes)
              /\ HasClaims(vs) <=> HasClaims(t.volumes)
<1> DEFINE t == TemplateOf(owner, kind)
<1>1. t \in Templates
  BY DEF Admitted, TemplateOf
<1>2. \A name \in Storage : name \in owner.claims \/ name \in Names(t.volumes)
  BY DEF Admitted, TemplateOf, ValidateStorage, HasPodVolume
<1> HIDE DEF t
<1>3. /\ IsSequence(t.volumes) /\ IsSequence(t.containers)
      /\ \A c \in ToSet(t.containers) : IsSequence(c.mounts)
  BY <1>1, TemplatesAssumption
<1>4. Mounts[kind] \subseteq Names(t.volumes) \cup owner.claims \cup {"config"}
  BY <1>2, MountsAreNames
<1>5. VolumesAdded(owner, t.volumes, EnsureVolumes(owner, t.volumes, Mounts[kind]), Mounts[kind])
  BY <1>3, MountsAreNames, EnsureVolumesAdds
<1> QED
  BY <1>3, <1>4, <1>5 DEF t, VolumesAdded

\* The definition of a Job with a template is valid if the template is complete.
LEMMA TemplateJobValid ==
    ASSUME NEW owner, Admitted(owner), NEW kind \in Kinds \ {"count"}
    PROVE  ValidPod(JobDefinition(owner, kind, EmptyPod)) <=> Complete(owner, kind)
<1> DEFINE t == TemplateOf(owner, kind)
           vs == EnsureVolumes(owner, t.volumes, Mounts[kind])
           us == CreateOrUpdateContainer(owner, kind, t.containers)
           pod == JobDefinition(owner, kind, EmptyPod)
           volumes == Names(t.volumes) \cup Mounts[kind]
<1>1. pod.volumes = vs /\ pod.containers = us
  BY DEF JobDefinition, CreateClustercodeJobDefinition
<1>2. kind \in Kinds /\ kind # "scan"
  BY DEF Kinds
<1>3. /\ IsSequence(t.containers) /\ \A c \in ToSet(t.containers) : IsSequence(c.mounts)
      /\ Names(vs) = volumes
      /\ UniqueNames(vs) <=> UniqueNames(t.volumes)
      /\ HasClaims(vs) <=> HasClaims(t.volumes)
  BY <1>2, TemplateCompleted
<1>4. Complete(owner, kind) <=>
          /\ UniqueNames(t.volumes) /\ HasClaims(t.volumes)
          /\ UniqueNames(t.containers)
          /\ \A c \in ToSet(t.containers) : Fits(kind, c, volumes)
  BY <1>2 DEF Complete, Fits
<1> HIDE DEF pod, vs, t
<1>5. /\ UniqueNames(us) <=> UniqueNames(t.containers)
      /\ (\A u \in ToSet(us) : Mountable(u.mounts, volumes)) <=>
            \A c \in ToSet(t.containers) : Fits(kind, c, volumes)
  BY <1>2, <1>3, ContainersUpdated
<1> HIDE DEF us, volumes
<1>6. ValidPod(pod) <=> Complete(owner, kind)
  BY <1>1, <1>3, <1>4, <1>5 DEF ValidPod
<1> QED
  BY <1>6 DEF pod

\* One container with a mount for each volume: its claims decide.
LEMMA SingletonPod ==
    ASSUME NEW c
    PROVE  ToSet(<<c>>) = {c} /\ UniqueNames(<<c>>)
<1>1. ToSet(<<c>>) = {c}
  BY DEF ToSet
<1>2. Names(<<c>>) = {c.name}
  BY <1>1 DEF Names
<1> QED
  BY <1>1, <1>2, FS_Singleton DEF UniqueNames

LEMMA CountJobValid ==
    ASSUME NEW owner
    PROVE  ValidPod(JobDefinition(owner, "count", EmptyPod)) <=> Complete(owner, "count")
<1> DEFINE vs == EnsureVolume(owner, <<>>, "intermediate")
           own == Clustercode(owner, "count", <<>>)
           pod == JobDefinition(owner, "count", EmptyPod)
<1>1. pod.volumes = vs /\ pod.containers = <<own>>
  BY DEF JobDefinition, CountJobDefinition, EmptyPod
<1>2. /\ Names(vs) = {"intermediate"} /\ UniqueNames(vs)
      /\ HasClaims(vs) <=> "intermediate" \in owner.claims
  <2>1. VolumesAdded(owner, <<>>, vs, {"intermediate"})
    BY EmptyIsSequence, EnsureVolumeAdds
  <2>2. Names(<<>>) = {} /\ UniqueNames(<<>>) /\ HasClaims(<<>>)
    BY EmptyIsSequence
  <2> HIDE DEF vs
  <2> QED
    BY <2>1, <2>2 DEF VolumesAdded
<1>3. Mounts["count"] = {"intermediate"} /\ "count" \in Kinds
  BY DEF Mounts, Kinds
<1>4. Mountable(own.mounts, {"intermediate"})
  BY <1>3, NewClustercodeFits
<1> HIDE DEF pod, vs, own
<1>5. ValidPod(pod) <=> "intermediate" \in owner.claims
  BY <1>1, <1>2, <1>4, SingletonPod DEF ValidPod
<1> QED
  BY <1>5 DEF pod, Complete

LEMMA CronPodValid ==
    ASSUME NEW owner, Complete(owner, "scan")
    PROVE  ValidPod(CronPod(owner))
<1> DEFINE names == {"source", "intermediate"}
           vs == EnsureVolumes(owner, <<>>, names)
           ms == EnsureVolumeMounts(<<>>, names)
           c == [name |-> "scanner", args |-> <<"scan">>, mounts |-> ms]
           pod == CronPod(owner)
<1>1. pod.volumes = vs /\ pod.containers = <<c>>
  BY DEF CronPod
<1>2. names \subseteq owner.claims /\ names \subseteq Storage \cup {"config"}
  BY DEF Complete, Storage
<1>3. Names(vs) = names /\ UniqueNames(vs) /\ HasClaims(vs)
  <2>1. VolumesAdded(owner, <<>>, vs, names)
    BY <1>2, EmptyIsSequence, EnsureVolumesAdds
  <2> HIDE DEF vs
  <2> QED
    BY <1>2, <2>1, EmptyIsSequence DEF VolumesAdded
<1>4. Names(ms) = names /\ UniquePaths(ms)
  <2>1. UniquePaths(<<>>)
    BY EmptyIsSequence, FS_EmptySet DEF UniquePaths
  <2>2. MountsAdded(<<>>, ms, names \ Names(<<>>))
    BY <1>2, EmptyIsSequence, EnsureVolumeMountsAdds
  <2> HIDE DEF ms
  <2> QED
    BY <2>1, <2>2, EmptyIsSequence DEF MountsAdded
<1> HIDE DEF ms
<1>5. c.mounts = ms
  OBVIOUS
<1> HIDE DEF pod, vs, c
<1>6. Mountable(c.mounts, Names(vs))
  BY <1>3, <1>4, <1>5 DEF Mountable, UniquePaths
<1>7. ValidPod(pod)
  BY <1>1, <1>3, <1>6, SingletonPod DEF ValidPod
<1> QED
  BY <1>7 DEF pod

-----------------------------------------------------------------------------
(* Jobs are admitted when they are complete.                               *)

\* A Task has the spec that its Blueprint had when it was scanned, so that a
\* change of the Blueprint is of no account: both have passed the webhook.
AdmittedInv ==
    /\ blueprint # None => Admitted(blueprint)
    /\ task # None => Admitted(task)
    /\ AdmittedWhenComplete

\* A Task's Jobs are created when they are complete.
LEMMA EnsureJobAdmitted ==
    ASSUME JobsIInv, AdmittedInv, NEW kind \in Kinds, EnsureJob(kind)
    PROVE  AdmittedWhenComplete'
<1> DEFINE pod == JobDefinition(task, kind, EmptyPod)
<1>1. task # None /\ task' = task /\ Admitted(task)
  BY DEF EnsureJob, AdmittedInv
<1>2. ValidPod(pod) <=> Complete(task, kind)
  BY <1>1, TemplateJobValid, CountJobValid
<1> HIDE DEF pod
<1>3. \A k \in Kinds : jobs'[k] # None => jobs[k] # None \/ (k = kind /\ ValidPod(pod))
  BY DEF EnsureJob, JobsIInv, pod
<1>4. \A q \in refused' : q.request = "create" =>
          q \in refused \/ (q.owner = task /\ q.kind = kind /\ ~ ValidPod(pod))
  BY DEF EnsureJob, Refuse, pod
<1>5. \A k \in Kinds : jobs'[k] # None => Complete(task, k)
  BY <1>2, <1>3 DEF AdmittedInv, AdmittedWhenComplete
<1>6. \A q \in refused' : q.request = "create" => ~ Complete(q.owner, q.kind)
  BY <1>2, <1>4 DEF AdmittedInv, AdmittedWhenComplete
<1> QED
  BY <1>1, <1>5, <1>6 DEF AdmittedWhenComplete, Complete, TemplateOf

LEMMA AdmittedInvNext == JobsIInv /\ AdmittedInv /\ [SpecsNext]_specVars => AdmittedInv'
<1> SUFFICES ASSUME JobsIInv, AdmittedInv, [SpecsNext]_specVars
             PROVE  AdmittedInv'
  OBVIOUS
<1> USE DEF AdmittedInv
<1>0. ASSUME task' = task, jobs' = jobs, refused' = refused
      PROVE  AdmittedWhenComplete'
  BY <1>0 DEF AdmittedWhenComplete, Complete, TemplateOf
<1>1. CASE ApplyBlueprint
  <2>1. task' = task /\ refused' = refused /\ jobs' = jobs
    BY <1>1 DEF ApplyBlueprint
  <2>2. Admitted(blueprint')
    BY <1>1 DEF ApplyBlueprint, Admitted
  <2>3. (blueprint # None => Admitted(blueprint))'
    BY <2>2 DEF Admitted, ValidateStorage, HasPodVolume
  <2>4. (task # None => Admitted(task))'
    BY <2>1 DEF Admitted, ValidateStorage, HasPodVolume
  <2> QED
    BY <1>0, <2>1, <2>3, <2>4
<1>2. CASE EnsureCronJob
  <2>1. blueprint' = blueprint /\ task' = task /\ jobs' = jobs
    BY <1>2 DEF EnsureCronJob
  <2>2. \A q \in refused' : q.request = "create" =>
            q \in refused \/ (q.owner = blueprint /\ q.kind = "scan" /\ ~ ValidPod(CronPod(blueprint)))
    BY <1>2 DEF EnsureCronJob, Refuse
  <2>3. \A q \in refused' : q.request = "create" => ~ Complete(q.owner, q.kind)
    BY <2>2, CronPodValid DEF AdmittedWhenComplete
  <2>4. AdmittedWhenComplete'
    BY <2>1, <2>3 DEF AdmittedWhenComplete, Complete, TemplateOf
  <2> QED
    BY <2>1, <2>4 DEF Admitted, ValidateStorage, HasPodVolume
<1>3. CASE CreateTask
  <2>1. blueprint' = blueprint /\ task' = blueprint /\ refused' = refused /\ jobs' = jobs
        /\ \A kind \in Kinds : jobs[kind] = None
    BY <1>3 DEF CreateTask, JobsIInv, JobsFollowTask
  <2>2. AdmittedWhenComplete'
    BY <2>1 DEF AdmittedWhenComplete, Complete, TemplateOf
  <2> QED
    BY <2>1, <2>2 DEF Admitted, ValidateStorage, HasPodVolume
<1>4. ASSUME NEW kind \in Kinds, EnsureJob(kind)
      PROVE  AdmittedInv'
  <2>1. blueprint' = blueprint /\ task' = task
    BY <1>4 DEF EnsureJob
  <2>2. AdmittedWhenComplete'
    BY <1>4, EnsureJobAdmitted
  <2> QED
    BY <2>1, <2>2 DEF Admitted, ValidateStorage, HasPodVolume
<1>5. CASE UNCHANGED specVars
  <2>1. blueprint' = blueprint /\ task' = task /\ jobs' = jobs /\ refused' = refused
    BY <1>5 DEF specVars
  <2> QED
    BY <1>0, <2>1 DEF Admitted, ValidateStorage, HasPodVolume
<1> QED
  BY <1>1, <1>2, <1>3, <1>4, <1>5 DEF SpecsNext

LEMMA AdmittedInvInit == SpecsInit => AdmittedInv
BY DEF SpecsInit, AdmittedInv, AdmittedWhenComplete

\* Which Jobs of the specs that the webhook lets pass are admitted, for all
\* templates, valid or not: those that Complete names.  However the Blueprint
\* changes meanwhile, no volume that the spec has is missing or there twice
\* (validateStorage, createClustercodeJobDefinition).
THEOREM CompleteJobsAdmitted == SpecsSpec => []AdmittedWhenComplete
<1>1. AdmittedInv => AdmittedWhenComplete
  BY DEF AdmittedInv
<1> QED
  BY <1>1, AdmittedInvInit, AdmittedInvNext, JobsInvariance, PTL DEF SpecsSpec

-----------------------------------------------------------------------------
(* Commands run.                                                           *)

\* The containers of a definition, with the Job's own among them.
LEMMA OwnContainerThere ==
    ASSUME NEW owner, Admitted(owner), NEW kind \in Kinds
    PROVE  \E u \in ToSet(JobDefinition(owner, kind, EmptyPod).containers) :
               \/ IsOwn(owner, kind, u, <<>>)
               \/ \E c \in ToSet(TemplateOf(owner, kind).containers) :
                     c.name = "clustercode" /\ IsOwn(owner, kind, u, c.mounts)
<1>1. CASE kind = "count"
  <2> DEFINE own == Clustercode(owner, "count", <<>>)
  <2>1. JobDefinition(owner, kind, EmptyPod).containers = <<own>>
    BY <1>1 DEF JobDefinition, CountJobDefinition
  <2>2. IsOwn(owner, kind, own, <<>>)
    BY <1>1, NewClustercodeFits
  <2> HIDE DEF own
  <2> QED
    BY <2>1, <2>2, SingletonPod
<1>2. CASE kind # "count"
  <2> DEFINE t == TemplateOf(owner, kind)
  <2>1. JobDefinition(owner, kind, EmptyPod).containers =
            CreateOrUpdateContainer(owner, kind, t.containers)
    BY <1>2 DEF JobDefinition, CreateClustercodeJobDefinition
  <2>2. IsSequence(t.containers) /\ \A c \in ToSet(t.containers) : IsSequence(c.mounts)
    BY TemplateCompleted
  <2> HIDE DEF t
  <2>3. \E u \in ToSet(CreateOrUpdateContainer(owner, kind, t.containers)) :
            \/ IsOwn(owner, kind, u, <<>>)
            \/ \E c \in ToSet(t.containers) :
                  c.name = "clustercode" /\ IsOwn(owner, kind, u, c.mounts)
    BY <2>2, ContainersUpdated
  <2> QED
    BY <2>1, <2>3 DEF t
<1> QED
  BY <1>1, <1>2

\* Each Job runs its own command with the volumes that the command works on,
\* whatever containers the template has (createOrUpdateContainer).
THEOREM CommandAlwaysRuns == SpecsSpec => []CommandRuns
<1>1. JobsIInv /\ AdmittedInv => CommandRuns
  <2> SUFFICES ASSUME JobsIInv, AdmittedInv, NEW kind \in Kinds, jobs[kind] # None
               PROVE  \E u \in ToSet(jobs[kind].containers) :
                          \/ IsOwn(task, kind, u, <<>>)
                          \/ \E c \in ToSet(TemplateOf(task, kind).containers) :
                                c.name = "clustercode" /\ IsOwn(task, kind, u, c.mounts)
    BY EmptyIsSequence DEF CommandRuns, IsOwn, Own
  <2> DEFINE pod == JobDefinition(task, kind, EmptyPod)
  <2>1. Admitted(task) /\ jobs[kind] = WithControllerLabels(pod)
    BY DEF JobsIInv, JobsFollowTask, AdmittedInv
  <2>2. \E u \in ToSet(pod.containers) :
            \/ IsOwn(task, kind, u, <<>>)
            \/ \E c \in ToSet(TemplateOf(task, kind).containers) :
                  c.name = "clustercode" /\ IsOwn(task, kind, u, c.mounts)
    BY <2>1, OwnContainerThere
  <2>3. pod = [labels |-> pod.labels, volumes |-> pod.volumes, containers |-> pod.containers]
    BY DEF JobDefinition, CountJobDefinition, CreateClustercodeJobDefinition
  <2> HIDE DEF pod
  <2>4. jobs[kind].containers = pod.containers
    BY <2>1, <2>3 DEF WithControllerLabels
  <2> QED
    BY <2>2, <2>4
<1> QED
  BY <1>1, JobsInvariance, AdmittedInvInit, AdmittedInvNext, PTL DEF SpecsSpec
=============================================================================
