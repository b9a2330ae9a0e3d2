----------------------------- MODULE ScanProofs -----------------------------
(***************************************************************************)
(* What TLAPS proves of Scan, for every volume, number of pods and bound,  *)
(* when the names of the media files survive their conversion to a URL:    *)
(* one Task per file, and that no Task writes over the encoding of another *)
(* when the files' names in the target volume differ as well.              *)
(***************************************************************************)
EXTENDS Scan, SequenceTheorems, TLAPS

(* Sequences of Tasks.                                                     *)

\* RemoveAt shifts what comes after the element it removes.
LEMMA RemoveAtProperties ==
    ASSUME NEW S, NEW s \in Seq(S), NEW i \in 1 .. Len(s)
    PROVE  /\ RemoveAt(s, i) \in Seq(S)
           /\ Len(RemoveAt(s, i)) = Len(s) - 1
           /\ \A k \in 1 .. Len(s) - 1 : RemoveAt(s, i)[k] = s[IF k < i THEN k ELSE k + 1]
  <1> DEFINE a == SubSeq(s, 1, i - 1)
             b == SubSeq(s, i + 1, Len(s))
  <1>1. a \in Seq(S) /\ Len(a) = i - 1 /\ \A k \in 1 .. i - 1 : a[k] = s[k]
    BY SMTT(20)
  <1>2. b \in Seq(S) /\ Len(b) = Len(s) - i /\ \A k \in 1 .. Len(s) - i : b[k] = s[i + k]
    BY SMTT(20)
  <1>3. RemoveAt(s, i) = a \o b
    BY DEF RemoveAt
  <1> HIDE DEF a, b
  <1>4. /\ a \o b \in Seq(S)
        /\ Len(a \o b) = Len(a) + Len(b)
        /\ \A k \in 1 .. Len(a) + Len(b) :
              (a \o b)[k] = IF k <= Len(a) THEN a[k] ELSE b[k - Len(a)]
    BY <1>1, <1>2, ConcatProperties
  <1>5. ASSUME NEW k \in 1 .. Len(s) - 1
        PROVE  (a \o b)[k] = s[IF k < i THEN k ELSE k + 1]
    <2>1. CASE k < i
      BY <1>1, <1>2, <1>4, <2>1
    <2>2. CASE ~ (k < i)
      <3>1. (a \o b)[k] = b[k - (i - 1)] /\ k - (i - 1) \in 1 .. Len(s) - i
        BY <1>1, <1>2, <1>4, <2>2
      <3>2. b[k - (i - 1)] = s[i + (k - (i - 1))]
        BY <1>2, <3>1
      <3>3. i + (k - (i - 1)) = k + 1
        OBVIOUS
      <3> QED
        BY <2>2, <3>1, <3>2, <3>3
    <2> QED
      BY <2>1, <2>2
  <1> QED
    BY <1>1, <1>2, <1>3, <1>4, <1>5

\* Every Task that is left is one of before, and different ones are different.
LEMMA RemovalKeeps ==
    ASSUME tasks \in Seq(Tasks), NEW i \in DOMAIN tasks, tasks' = RemoveAt(tasks, i)
    PROVE  /\ tasks' \in Seq(Tasks)
           /\ \E at \in [DOMAIN tasks' -> DOMAIN tasks] :
                 /\ \A k \in DOMAIN tasks' : tasks'[k] = tasks[at[k]]
                 /\ \A k, l \in DOMAIN tasks' : at[k] = at[l] => k = l
  <1>1. DOMAIN tasks = 1 .. Len(tasks) /\ Len(tasks) \in Nat
    OBVIOUS
  <1>2. /\ tasks' \in Seq(Tasks) /\ Len(tasks') = Len(tasks) - 1
        /\ \A k \in 1 .. Len(tasks) - 1 : tasks'[k] = tasks[IF k < i THEN k ELSE k + 1]
    BY <1>1, RemoveAtProperties
  <1>3. DOMAIN tasks' = 1 .. Len(tasks) - 1
    BY <1>2
  <1> DEFINE at == [k \in DOMAIN tasks' |-> IF k < i THEN k ELSE k + 1]
  <1>4. at \in [DOMAIN tasks' -> DOMAIN tasks]
    BY <1>1, <1>3
  <1>5. \A k \in DOMAIN tasks' : tasks'[k] = tasks[at[k]]
    BY <1>2, <1>3
  <1>6. \A k, l \in DOMAIN tasks' : at[k] = at[l] => k = l
    BY <1>1, <1>3
  <1> HIDE DEF at
  <1> QED
    BY <1>2, <1>4, <1>5, <1>6
-----------------------------------------------------------------------------
(* Types.                                                                  *)

\* With names that survive, what Walk finds are paths and so are the sources.
LEMMA PathTypes ==
    /\ Accepted \subseteq Files /\ Files \subseteq Seq(STRING) /\ NoFile \in Seq(STRING)
    /\ \A k \in DOMAIN Walk : Walk[k] \in Files
    /\ Idle \in PodStates
    /\ MaxVersions \in Nat
  <1>1. Files \subseteq Seq(STRING)
    BY ScanAssumption, ElementOfSeq DEF Files
  <1>2. NoFile \in Seq(STRING)
    BY DEF NoFile
  <1>3. Idle \in PodStates
    BY ScanAssumption, <1>2 DEF Idle, PodStates
  <1> QED
    BY <1>1, <1>2, <1>3, ScanAssumption DEF Files

\* Putting another Task in the place of one leaves the others.
LEMMA TaskReplaced ==
    ASSUME tasks \in Seq(Tasks), NEW k \in DOMAIN tasks, NEW t \in Tasks,
           tasks' = [tasks EXCEPT ![k] = t]
    PROVE  /\ tasks' \in Seq(Tasks) /\ DOMAIN tasks' = DOMAIN tasks
           /\ tasks'[k] = t
           /\ \A l \in DOMAIN tasks : l # k => tasks'[l] = tasks[l]
  BY ExceptSeq

LEMMA TaskInputUpdated ==
    ASSUME tasks \in Seq(Tasks), NEW k \in DOMAIN tasks,
           NEW input \in 0 .. MaxVersions,
           tasks' = [tasks EXCEPT ![k].state = "split", ![k].input = input]
    PROVE  /\ tasks' \in Seq(Tasks) /\ DOMAIN tasks' = DOMAIN tasks
           /\ tasks'[k] = [tasks[k] EXCEPT !.state = "split", !.input = input]
           /\ \A l \in DOMAIN tasks : l # k => tasks'[l] = tasks[l]
  <1>1. tasks[k] \in Tasks
    BY ElementOfSeq
  <1>2. [tasks[k] EXCEPT !.state = "split", !.input = input] \in Tasks
    BY <1>1 DEF Tasks, TaskStates, Unfinished
  <1>3. tasks' = [tasks EXCEPT ![k] = [tasks[k] EXCEPT !.state = "split", !.input = input]]
    BY <1>1 DEF Tasks
  <1> QED
    BY <1>2, <1>3, TaskReplaced

LEMMA TaskStateUpdated ==
    ASSUME tasks \in Seq(Tasks), NEW k \in DOMAIN tasks,
           NEW state \in TaskStates,
           tasks' = [tasks EXCEPT ![k].state = state]
    PROVE  /\ tasks' \in Seq(Tasks) /\ DOMAIN tasks' = DOMAIN tasks
           /\ tasks'[k] = [tasks[k] EXCEPT !.state = state]
           /\ \A l \in DOMAIN tasks : l # k => tasks'[l] = tasks[l]
  <1>1. tasks[k] \in Tasks
    BY ElementOfSeq
  <1>2. [tasks[k] EXCEPT !.state = state] \in Tasks
    BY <1>1 DEF Tasks
  <1> QED
    BY <1>2, TaskReplaced
-----------------------------------------------------------------------------
(* Steps of Tasks and steps of scans.                                      *)

\* The Tasks are some of those before, and none is listed that was not.
Follow ==
    \E at \in [DOMAIN tasks' -> DOMAIN tasks] :
        /\ \A k \in DOMAIN tasks' :
              /\ tasks'[k].owner = tasks[at[k]].owner /\ tasks'[k].file = tasks[at[k]].file
              /\ tasks'[k].source = tasks[at[k]].source /\ tasks'[k].target = tasks[at[k]].target
              /\ tasks'[k].state # "deleting" => tasks[at[k]].state # "deleting"
        /\ \A k, l \in DOMAIN tasks' : at[k] = at[l] => k = l

LEMMA ReplacedFollows ==
    ASSUME NEW k \in DOMAIN tasks, DOMAIN tasks' = DOMAIN tasks, tasks[k].state # "deleting",
           /\ tasks'[k].owner = tasks[k].owner /\ tasks'[k].file = tasks[k].file
           /\ tasks'[k].source = tasks[k].source /\ tasks'[k].target = tasks[k].target,
           \A l \in DOMAIN tasks : l # k => tasks'[l] = tasks[l]
    PROVE  Follow
  <1> DEFINE at == [l \in DOMAIN tasks' |-> l]
  <1>1. at \in [DOMAIN tasks' -> DOMAIN tasks] /\ \A l \in DOMAIN tasks' : at[l] = l
    OBVIOUS
  <1> HIDE DEF at
  <1> QED
    BY <1>1 DEF Follow

\* What becomes of Tasks after their creation does not disturb the scans.
LEMMA FollowKeeps ==
    ASSUME ScanInv, ScanTypeOK', Follow, pods' = pods
    PROVE  ScanInv'
  <1>1. PICK at \in [DOMAIN tasks' -> DOMAIN tasks] :
           /\ \A k \in DOMAIN tasks' :
                 /\ tasks'[k].owner = tasks[at[k]].owner /\ tasks'[k].file = tasks[at[k]].file
                 /\ tasks'[k].source = tasks[at[k]].source /\ tasks'[k].target = tasks[at[k]].target
                 /\ tasks'[k].state # "deleting" => tasks[at[k]].state # "deleting"
           /\ \A k, l \in DOMAIN tasks' : at[k] = at[l] => k = l
    BY DEF Follow
  <1>2. \A k \in DOMAIN tasks' : at[k] \in DOMAIN tasks
    BY <1>1
  <1>3. UrlsNamed'
    BY <1>1, <1>2 DEF ScanInv, UrlsNamed
  <1>4. OneScanEach'
    BY DEF ScanInv, OneScanEach, IdlePods
  <1>5. ScanKnowsTasks'
    BY <1>1, <1>2 DEF ScanInv, ScanKnowsTasks, OwnTasks, IsListed
  <1>6. OneTaskPerFile'
    BY <1>1, <1>2 DEF ScanInv, OneTaskPerFile, IsListed
  <1> QED
    BY <1>3, <1>4, <1>5, <1>6 DEF ScanInv

\* A pod goes on with its scan, ends it or begins one that no other pod has.
LEMMA PodKeeps ==
    ASSUME ScanInv, ScanTypeOK', tasks' = tasks,
           NEW pod \in ScanPods, NEW p, pods' = [pods EXCEPT ![pod] = p],
           p.pc # "idle" =>
               \A q \in ScanPods \ {pod} : pods[q].pc # "idle" => pods[q].blueprint # p.blueprint,
           p.pc \in {"select", "create"} =>
               \A k \in OwnTasks(p.blueprint) : tasks[k].source \in p.queued,
           p.pc = "create" => p.selected \in Accepted \ p.queued
    PROVE  ScanInv'
  <1>1. pods'[pod] = p /\ \A q \in ScanPods \ {pod} : pods'[q] = pods[q]
    BY DEF ScanInv, ScanTypeOK
  <1>2. UrlsNamed' /\ OneTaskPerFile'
    BY DEF ScanInv, UrlsNamed, OneTaskPerFile, IsListed
  <1>3. OneScanEach'
    BY <1>1 DEF ScanInv, OneScanEach, IdlePods
  <1>4. ScanKnowsTasks'
    BY <1>1 DEF ScanInv, ScanKnowsTasks, OwnTasks, IsListed
  <1> QED
    BY <1>2, <1>3, <1>4 DEF ScanInv
-----------------------------------------------------------------------------
(* The invariant, action by action.                                        *)

LEMMA ScanInvInit == ScanInit => ScanInv
  <1> SUFFICES ASSUME ScanInit PROVE ScanInv
    OBVIOUS
  <1>1. tasks \in Seq(Tasks) /\ DOMAIN tasks = {}
    BY DEF ScanInit
  <1>2. ScanTypeOK
    <2>1. [file |-> NoFile, content |-> 0] \in Encodings
      BY PathTypes DEF Encodings
    <2> QED
      BY <1>1, <2>1, PathTypes DEF ScanInit, ScanTypeOK
  <1>3. IdlePods = ScanPods
    BY DEF ScanInit, IdlePods, Idle
  <1>4. ScanKnowsTasks
    BY DEF ScanInit, ScanKnowsTasks, Idle
  <1> QED
    BY <1>1, <1>2, <1>3, <1>4 DEF ScanInv, UrlsNamed, OneScanEach, OneTaskPerFile

\* The CronJob's part: the pod that starts is alone with its Blueprint.
LEMMA SuspendKeeps ==
    ASSUME ScanInv, NEW b \in Blueprints, SetSuspend(b) \/ EnsureCronJob(b)
    PROVE  ScanInv'
  <1>1. UNCHANGED <<present, added, target, tasks, pods>>
    BY DEF SetSuspend, EnsureCronJob, volumes
  <1>2. /\ suspend' \in [Blueprints -> BOOLEAN] /\ suspended' \in [Blueprints -> BOOLEAN]
        /\ disturbances' \in Nat
    <2>1. suspend[b] \in BOOLEAN /\ (~ suspend[b]) \in BOOLEAN
      BY DEF ScanInv, ScanTypeOK
    <2>2. disturbances' \in Nat
      BY DEF SetSuspend, EnsureCronJob, Disturbance, ScanInv, ScanTypeOK
    <2>3. CASE SetSuspend(b)
      BY <2>1, <2>2, <2>3, Zenon DEF SetSuspend, ScanInv, ScanTypeOK
    <2>4. CASE EnsureCronJob(b)
      BY <2>1, <2>2, <2>4, Zenon DEF EnsureCronJob, ScanInv, ScanTypeOK
    <2> QED
      BY <2>3, <2>4
  <1> QED
    BY <1>1, <1>2 DEF ScanInv, ScanTypeOK, UrlsNamed, OneScanEach, IdlePods, ScanKnowsTasks,
                      OwnTasks, IsListed, OneTaskPerFile

LEMMA StartScanKeeps ==
    ASSUME ScanInv, NEW b \in Blueprints, StartScan(b)
    PROVE  ScanInv'
  <1> DEFINE pod == CHOOSE q \in IdlePods : TRUE
             p == [Idle EXCEPT !.pc = "fetch", !.blueprint = b]
  <1>1. pod \in ScanPods /\ pods' = [pods EXCEPT ![pod] = p]
    BY DEF StartScan, IdlePods
  <1>2. p \in PodStates /\ p.pc = "fetch" /\ p.blueprint = b
    BY PathTypes DEF PodStates, Idle
  <1>3. \A q \in ScanPods : pods[q].pc # "idle" => pods[q].blueprint # b
    BY DEF StartScan, IdlePods
  <1>4. UNCHANGED <<present, added, target, tasks, suspend, suspended, disturbances>>
    BY DEF StartScan, volumes
  <1> HIDE DEF pod, p
  <1>5. ScanTypeOK'
    BY <1>1, <1>2, <1>4 DEF ScanInv, ScanTypeOK
  <1> QED
    BY <1>1, <1>2, <1>3, <1>4, <1>5, PodKeeps

\* Other pods keep to other Blueprints.
LEMMA OthersElsewhere ==
    ASSUME ScanInv, NEW pod \in ScanPods, pods[pod].pc # "idle"
    PROVE  \A q \in ScanPods \ {pod} :
               pods[q].pc # "idle" => pods[q].blueprint # pods[pod].blueprint
  BY DEF ScanInv, OneScanEach, IdlePods

LEMMA PodTyped ==
    ASSUME ScanInv, NEW pod \in ScanPods
    PROVE  pods[pod] \in PodStates
  BY DEF ScanInv, ScanTypeOK

LEMMA TasksTyped ==
    ASSUME ScanInv
    PROVE  /\ tasks \in Seq(Tasks) /\ DOMAIN tasks = 1 .. Len(tasks) /\ Len(tasks) \in Nat
           /\ \A k \in DOMAIN tasks : tasks[k] \in Tasks
  BY ElementOfSeq DEF ScanInv, ScanTypeOK

LEMMA FetchBlueprintKeeps ==
    ASSUME ScanInv, NEW pod \in ScanPods, FetchBlueprint(pod)
    PROVE  ScanInv'
  <1>1. PICK p \in {Idle, [pods[pod] EXCEPT !.pc = "list"]} : pods' = [pods EXCEPT ![pod] = p]
    BY DEF FetchBlueprint
  <1>2. /\ p \in PodStates /\ p.pc \in {"idle", "list"}
        /\ p.pc # "idle" => p.blueprint = pods[pod].blueprint
    BY <1>1, PathTypes, PodTyped DEF PodStates, Idle
  <1>3. UNCHANGED <<present, added, target, tasks, suspend, suspended, disturbances>>
        /\ pods[pod].pc # "idle"
    BY DEF FetchBlueprint, volumes
  <1>4. ScanTypeOK'
    BY <1>1, <1>2, <1>3 DEF ScanInv, ScanTypeOK
  <1> QED
    BY <1>1, <1>2, <1>3, <1>4, OthersElsewhere, PodKeeps

\* From here on the scan knows the Tasks of its Blueprint.
LEMMA FetchCurrentTasksKeeps ==
    ASSUME ScanInv, NEW pod \in ScanPods, FetchCurrentTasks(pod)
    PROVE  ScanInv'
  <1> DEFINE queued == {tasks[k].source : k \in OwnTasks(pods[pod].blueprint)}
             p == [pods[pod] EXCEPT !.pc = "select", !.queued = queued]
  <1>1. queued \in SUBSET Seq(STRING)
    <2>1. \A k \in DOMAIN tasks : tasks[k].source \in Seq(STRING)
      BY TasksTyped DEF Tasks
    <2> QED
      BY <2>1 DEF OwnTasks
  <1>2. pods[pod] \in PodStates
    BY PodTyped
  <1>3. /\ p \in PodStates /\ p.pc = "select" /\ p.queued = queued
        /\ p.blueprint = pods[pod].blueprint
    BY <1>1, <1>2 DEF PodStates
  <1>4. pods' = [pods EXCEPT ![pod] = p]
    BY <1>2 DEF FetchCurrentTasks, ScanInv, ScanTypeOK, PodStates
  <1>5. UNCHANGED <<present, added, target, tasks, suspend, suspended, disturbances>>
        /\ pods[pod].pc # "idle"
    BY DEF FetchCurrentTasks, volumes
  <1>6. \A k \in OwnTasks(p.blueprint) : tasks[k].source \in p.queued
    BY <1>3
  <1> HIDE DEF p, queued
  <1>7. ScanTypeOK'
    BY <1>3, <1>4, <1>5 DEF ScanInv, ScanTypeOK
  <1> QED
    BY <1>3, <1>4, <1>5, <1>6, <1>7, OthersElsewhere, PodKeeps

LEMMA SelectNewFileKeeps ==
    ASSUME ScanInv, NEW pod \in ScanPods, SelectNewFile(pod)
    PROVE  ScanInv'
  <1>1. UNCHANGED <<present, added, target, tasks, suspend, suspended, disturbances>>
        /\ pods[pod].pc = "select"
    BY DEF SelectNewFile, volumes
  <1>2. pods[pod] \in PodStates
    BY PodTyped
  <1>3. CASE pods' = [pods EXCEPT ![pod] = Idle]
    <2>1. ScanTypeOK' /\ Idle.pc = "idle"
      BY <1>1, <1>3, PathTypes DEF ScanInv, ScanTypeOK, Idle
    <2> QED
      BY <1>1, <1>3, <2>1, PodKeeps
  <1>4. ASSUME NEW k \in Selected(pods[pod].queued),
               pods' = [pods EXCEPT ![pod].pc = "create", ![pod].selected = Walk[k]]
        PROVE  ScanInv'
    <2> DEFINE p == [pods[pod] EXCEPT !.pc = "create", !.selected = Walk[k]]
    <2>1. Walk[k] \in Accepted /\ Walk[k] \notin pods[pod].queued
      BY <1>4 DEF Selected, FirstOf
    <2>2. /\ p \in PodStates /\ p.pc = "create" /\ p.queued = pods[pod].queued
          /\ p.blueprint = pods[pod].blueprint /\ p.selected = Walk[k]
      BY <1>2, <2>1 DEF PodStates
    <2>3. pods' = [pods EXCEPT ![pod] = p]
      BY <1>2, <1>4 DEF ScanInv, ScanTypeOK, PodStates
    <2>4. \A l \in OwnTasks(p.blueprint) : tasks[l].source \in p.queued
      BY <1>1, <2>2 DEF ScanInv, ScanKnowsTasks
    <2> HIDE DEF p
    <2>5. ScanTypeOK'
      BY <1>1, <2>2, <2>3 DEF ScanInv, ScanTypeOK
    <2> QED
      BY <1>1, <2>1, <2>2, <2>3, <2>4, <2>5, OthersElsewhere, PodKeeps
  <1> QED
    BY <1>3, <1>4 DEF SelectNewFile

LEMMA ScanFailsKeeps ==
    ASSUME ScanInv, NEW pod \in ScanPods, ScanFails(pod)
    PROVE  ScanInv'
  <1>1. UNCHANGED <<present, added, target, tasks, suspend, suspended>>
        /\ pods' = [pods EXCEPT ![pod] = Idle]
    BY DEF ScanFails, volumes
  <1>2. disturbances' \in Nat
    BY DEF ScanFails, Disturbance, ScanInv, ScanTypeOK
  <1>3. ScanTypeOK' /\ Idle.pc = "idle"
    BY <1>1, <1>2, PathTypes DEF ScanInv, ScanTypeOK, Idle
  <1> QED
    BY <1>1, <1>3, PodKeeps

\* The scan knows all Tasks of its Blueprint, so that the new one is the first
\* of its file; the scans that go on belong to other Blueprints.
LEMMA CreateTaskKeeps ==
    ASSUME PlainNames, ScanInv, NEW pod \in ScanPods, CreateTask(pod)
    PROVE  ScanInv'
  <1> DEFINE b == pods[pod].blueprint
             file == pods[pod].selected
             new == [owner |-> b, file |-> file, source |-> SourcePath(file),
                     target |-> TargetPath(file), input |-> 0, state |-> "new"]
  <1>1. UNCHANGED <<present, added, target, suspend, suspended, disturbances>>
        /\ pods' = [pods EXCEPT ![pod] = Idle] /\ pods[pod].pc = "create"
    BY DEF CreateTask, volumes
  <1>2. Idle.pc = "idle" /\ pods' \in [ScanPods -> PodStates]
    BY <1>1, PathTypes DEF ScanInv, ScanTypeOK, Idle
  <1>3. CASE tasks' = tasks
    <2>1. ScanTypeOK'
      BY <1>1, <1>2, <1>3 DEF ScanInv, ScanTypeOK
    <2> QED
      BY <1>1, <1>2, <1>3, <2>1, PodKeeps
  <1>4. CASE tasks' = Append(tasks, new)
    <2>1. /\ file \in Accepted /\ file \notin pods[pod].queued /\ b \in Blueprints
          /\ \A k \in OwnTasks(b) : tasks[k].source \in pods[pod].queued
      BY <1>1, PodTyped DEF ScanInv, ScanKnowsTasks, PodStates
    <2>2. new \in Tasks /\ new.source = SourcePath(file) /\ new.source = file
          /\ new.target = TargetPath(file)
          /\ new.owner = b /\ new.file = file
      BY <2>1, PathTypes DEF PlainNames, Tasks, TaskStates, Unfinished, TargetPaths
    <2> HIDE DEF new
    <2>3. /\ tasks' \in Seq(Tasks) /\ DOMAIN tasks' = 1 .. Len(tasks) + 1
          /\ tasks'[Len(tasks) + 1] = new
          /\ \A k \in DOMAIN tasks : k \in DOMAIN tasks' /\ tasks'[k] = tasks[k]
          /\ \A k \in DOMAIN tasks' : k \in DOMAIN tasks \/ k = Len(tasks) + 1
      BY <1>4, <2>2, AppendProperties, TasksTyped
    <2>4. ScanTypeOK'
      BY <1>1, <1>2, <2>3 DEF ScanInv, ScanTypeOK
    <2>5. UrlsNamed'
      BY <2>2, <2>3 DEF ScanInv, UrlsNamed
    <2>6. /\ pods'[pod] = Idle
          /\ \A q \in ScanPods \ {pod} : pods'[q] = pods[q]
      BY <1>1 DEF ScanInv, ScanTypeOK
    <2>7. OneScanEach'
      BY <1>2, <2>6 DEF ScanInv, OneScanEach, IdlePods
    <2>8. ScanKnowsTasks'
      <3> SUFFICES ASSUME NEW q \in ScanPods, pods'[q].pc \in {"select", "create"}
                   PROVE  /\ \A k \in OwnTasks(pods[q].blueprint)' :
                                 tasks'[k].source \in pods'[q].queued
                          /\ pods'[q].pc = "create" =>
                                 pods'[q].selected \in Accepted \ pods'[q].queued
        BY <1>2, <2>6 DEF ScanKnowsTasks, OwnTasks
      <3>1. q # pod /\ pods'[q] = pods[q]
        BY <1>2, <2>6
      <3>2. pods[q].blueprint # b
        BY <1>1, <3>1, OthersElsewhere
      <3>3. \A k \in OwnTasks(pods[q].blueprint)' : k \in OwnTasks(pods[q].blueprint)
        BY <2>2, <2>3, <3>1, <3>2 DEF OwnTasks, IsListed
      <3>4. \A k \in OwnTasks(pods[q].blueprint) : k \in DOMAIN tasks
        BY DEF OwnTasks
      <3> QED
        BY <2>3, <3>1, <3>3, <3>4 DEF ScanInv, ScanKnowsTasks
    <2>9. \A k \in DOMAIN tasks : tasks[k].owner = b /\ tasks[k].file = file => ~ IsListed(k)
      <3> SUFFICES ASSUME NEW k \in DOMAIN tasks, tasks[k].owner = b, tasks[k].file = file,
                          IsListed(k)
                   PROVE  FALSE
        OBVIOUS
      <3>1. k \in OwnTasks(b)
        BY DEF OwnTasks
      <3>2. tasks[k].source = file
        BY <2>1 DEF ScanInv, UrlsNamed, PlainNames
      <3> QED
        BY <2>1, <3>1, <3>2
    <2>10. OneTaskPerFile'
      BY <2>2, <2>3, <2>9 DEF ScanInv, OneTaskPerFile, IsListed
    <2> QED
      BY <2>4, <2>5, <2>7, <2>8, <2>10 DEF ScanInv
  <1> QED
    BY <1>3, <1>4 DEF CreateTask

\* One Task is changed, and neither its names nor the scans are.
LEMMA TaskKeeps ==
    ASSUME ScanInv, NEW k \in DOMAIN tasks, NEW t, tasks[k].state # "deleting",
           /\ t.owner = tasks[k].owner /\ t.file = tasks[k].file
           /\ t.source = tasks[k].source /\ t.target = tasks[k].target,
           tasks' \in Seq(Tasks), DOMAIN tasks' = DOMAIN tasks, tasks'[k] = t,
           \A l \in DOMAIN tasks : l # k => tasks'[l] = tasks[l],
           present' \subseteq Files, target' \in [TargetPaths -> Encodings],
           disturbances' \in Nat, UNCHANGED <<added, suspend, suspended, pods>>
    PROVE  ScanInv'
  <1>1. ScanTypeOK'
    BY DEF ScanInv, ScanTypeOK
  <1>2. Follow
    BY ReplacedFollows
  <1> QED
    BY <1>1, <1>2, FollowKeeps

LEMMA SourceIsFile ==
    ASSUME PlainNames, ScanInv, NEW k \in DOMAIN tasks
    PROVE  tasks[k].source = tasks[k].file /\ tasks[k].file \in Accepted
           /\ tasks[k].source \in Files
  BY TasksTyped, PathTypes DEF PlainNames, ScanInv, UrlsNamed, Tasks

LEMMA TaskStepKeeps ==
    ASSUME PlainNames, ScanInv, NEW k \in DOMAIN tasks,
           TaskStep(k) \/ TaskRevisited(k) \/ DeleteTask(k)
    PROVE  ScanInv'
  <1>1. tasks \in Seq(Tasks) /\ tasks[k] \in Tasks
    BY TasksTyped
  <1>2. tasks[k].source \in Files /\ added[tasks[k].source] \in 0 .. MaxVersions
    BY SourceIsFile DEF ScanInv, ScanTypeOK
  <1>3. present \subseteq Files /\ target \in [TargetPaths -> Encodings] /\ disturbances \in Nat
    BY DEF ScanInv, ScanTypeOK
  <1>4. CASE TaskSplit(k)
    <2> DEFINE t == [tasks[k] EXCEPT !.state = "split", !.input = added[tasks[k].source]]
    <2>1. /\ tasks' \in Seq(Tasks) /\ DOMAIN tasks' = DOMAIN tasks /\ tasks'[k] = t
          /\ \A l \in DOMAIN tasks : l # k => tasks'[l] = tasks[l]
      BY <1>1, <1>2, <1>4, TaskInputUpdated DEF TaskSplit
    <2>2. /\ t.owner = tasks[k].owner /\ t.file = tasks[k].file
          /\ t.source = tasks[k].source /\ t.target = tasks[k].target
      BY <1>1 DEF Tasks
    <2> HIDE DEF t
    <2> QED
      BY <1>3, <1>4, <2>1, <2>2, TaskKeeps DEF TaskSplit, volumes
  <1>5. ASSUME NEW state \in TaskStates,
               tasks' = [tasks EXCEPT ![k].state = state], tasks[k].state # "deleting",
               present' \subseteq Files, target' \in [TargetPaths -> Encodings],
               disturbances' \in Nat, UNCHANGED <<added, suspend, suspended, pods>>
        PROVE  ScanInv'
    <2> DEFINE t == [tasks[k] EXCEPT !.state = state]
    <2>1. /\ tasks' \in Seq(Tasks) /\ DOMAIN tasks' = DOMAIN tasks /\ tasks'[k] = t
          /\ \A l \in DOMAIN tasks : l # k => tasks'[l] = tasks[l]
      BY <1>1, <1>5, TaskStateUpdated
    <2>2. /\ t.owner = tasks[k].owner /\ t.file = tasks[k].file
          /\ t.source = tasks[k].source /\ t.target = tasks[k].target
      BY <1>1 DEF Tasks
    <2> HIDE DEF t
    <2> QED
      BY <1>5, <2>1, <2>2, TaskKeeps
  <1>6. CASE TaskMerged(k)
    <2>1. tasks[k].input \in 0 .. MaxVersions
      BY <1>1 DEF Tasks
    <2>2. target' \in [TargetPaths -> Encodings]
      <3>1. [file |-> tasks[k].source, content |-> tasks[k].input] \in Encodings
        BY <1>1, <2>1 DEF Tasks, Encodings
      <3> QED
        BY <1>3, <1>6, <3>1 DEF TaskMerged
    <2> QED
      BY <1>3, <1>5, <1>6, <2>2 DEF TaskMerged, TaskStates, Unfinished
  <1>7. CASE TaskEncoded(k)
    <2>1. present' \subseteq Files
      BY <1>3, <1>7 DEF TaskEncoded
    <2> QED
      BY <1>3, <1>5, <1>7, <2>1 DEF TaskEncoded, TaskStates
  <1>8. CASE DeleteTask(k)
    <2>1. disturbances' \in Nat
      BY <1>3, <1>8 DEF DeleteTask, Disturbance
    <2> QED
      BY <1>3, <1>5, <1>8, <2>1 DEF DeleteTask, IsListed, TaskStates, volumes
  <1>9. CASE TaskRevisited(k)
    <2>1. present' \subseteq Files /\ disturbances' \in Nat
      BY <1>3, <1>9 DEF TaskRevisited, Disturbance
    <2>2. tasks[k].state # "deleting"
      BY <1>9 DEF TaskRevisited
    <2> QED
      BY <1>1, <1>3, <1>9, <2>1, <2>2, TaskKeeps DEF TaskRevisited
  <1>10. CASE TaskFails(k)
    BY <1>3, <1>5, <1>10 DEF TaskFails, TaskStates, volumes
  <1> QED
    BY <1>4, <1>6, <1>7, <1>8, <1>9, <1>10 DEF TaskStep

LEMMA TaskDeletedKeeps ==
    ASSUME ScanInv, NEW k \in DOMAIN tasks, TaskDeleted(k)
    PROVE  ScanInv'
  <1>1. tasks \in Seq(Tasks) /\ tasks' = RemoveAt(tasks, k)
    BY TasksTyped DEF TaskDeleted
  <1>2. UNCHANGED <<present, added, target, suspend, suspended, pods, disturbances>>
    BY DEF TaskDeleted, volumes
  <1>3. PICK at \in [DOMAIN tasks' -> DOMAIN tasks] :
           /\ \A l \in DOMAIN tasks' : tasks'[l] = tasks[at[l]]
           /\ \A l, m \in DOMAIN tasks' : at[l] = at[m] => l = m
    BY <1>1, RemovalKeeps
  <1>4. Follow
    BY <1>3 DEF Follow
  <1>5. ScanTypeOK'
    BY <1>1, <1>2, RemovalKeeps DEF ScanInv, ScanTypeOK
  <1> QED
    BY <1>2, <1>4, <1>5, FollowKeeps

\* What users do to files is not seen by scans and Tasks at once.
LEMMA UserKeeps ==
    ASSUME ScanInv, NEW file \in Files,
           AddFile(file) \/ ReplaceFile(file) \/ RemoveFile(file)
    PROVE  ScanInv'
  <1>1. UNCHANGED <<target, tasks, suspend, suspended, pods>>
    BY DEF AddFile, ReplaceFile, RemoveFile
  <1>2. disturbances' \in Nat
    BY DEF AddFile, ReplaceFile, RemoveFile, Disturbance, ScanInv, ScanTypeOK
  <1>3. present' \subseteq Files
    BY DEF AddFile, ReplaceFile, RemoveFile, ScanInv, ScanTypeOK
  <1>4. added' \in [Files -> 0 .. MaxVersions]
    <2>1. CASE AddFile(file) \/ ReplaceFile(file)
      <3>1. added[file] \in 0 .. MaxVersions /\ added[file] < MaxVersions
        BY <2>1 DEF AddFile, ReplaceFile, ScanInv, ScanTypeOK
      <3>2. added[file] + 1 \in 0 .. MaxVersions
        BY <3>1, PathTypes
      <3> QED
        BY <2>1, <3>2 DEF AddFile, ReplaceFile, ScanInv, ScanTypeOK
    <2>2. CASE RemoveFile(file)
      BY <2>2 DEF RemoveFile, ScanInv, ScanTypeOK
    <2> QED
      BY <2>1, <2>2
  <1> QED
    BY <1>1, <1>2, <1>3, <1>4 DEF ScanInv, ScanTypeOK, UrlsNamed, OneScanEach, IdlePods,
                                  ScanKnowsTasks, OwnTasks, IsListed, OneTaskPerFile

LEMMA ScanInvNext ==
    ASSUME PlainNames
    PROVE  ScanInv /\ [ScanNext]_scanVars => ScanInv'
  <1> SUFFICES ASSUME ScanInv, [ScanNext]_scanVars PROVE ScanInv'
    OBVIOUS
  <1>1. CASE \E b \in Blueprints : SetSuspend(b) \/ EnsureCronJob(b) \/ StartScan(b)
    BY <1>1, SuspendKeeps, StartScanKeeps
  <1>2. CASE \E pod \in ScanPods : ScanStep(pod) \/ ScanFails(pod)
    BY <1>2, FetchBlueprintKeeps, FetchCurrentTasksKeeps, SelectNewFileKeeps, CreateTaskKeeps,
       ScanFailsKeeps DEF ScanStep
  <1>3. CASE \E k \in DOMAIN tasks :
               TaskStep(k) \/ TaskRevisited(k) \/ DeleteTask(k) \/ TaskDeleted(k)
    BY <1>3, TaskStepKeeps, TaskDeletedKeeps
  <1>4. CASE \E file \in Files : AddFile(file) \/ ReplaceFile(file) \/ RemoveFile(file)
    BY <1>4, UserKeeps
  <1>5. CASE UNCHANGED scanVars
    BY <1>5 DEF scanVars, volumes, ScanInv, ScanTypeOK, UrlsNamed, OneScanEach, IdlePods,
                ScanKnowsTasks, OwnTasks, IsListed, OneTaskPerFile
  <1> QED
    BY <1>1, <1>2, <1>3, <1>4, <1>5 DEF ScanNext
-----------------------------------------------------------------------------
(* The theorems.                                                           *)

\* Scans and Tasks keep the invariant, if names survive their conversion.
THEOREM ScanInvariance ==
    ASSUME PlainNames
    PROVE  ScanSpec => []ScanInv
  BY ScanInvInit, ScanInvNext, PTL DEF ScanSpec

\* Every variable keeps its type.
THEOREM ScanTypeCorrect ==
    ASSUME PlainNames
    PROVE  ScanSpec => []ScanTypeOK
  <1>1. ScanInv => ScanTypeOK
    BY DEF ScanInv
  <1> QED
    BY <1>1, ScanInvariance, PTL

\* No file has two Tasks of a Blueprint, whatever happens between the steps of a
\* scan, for every number of Blueprints, pods and files.
THEOREM FilesQueuedOnce ==
    ASSUME PlainNames
    PROVE  ScanSpec => []OneTaskPerFile
  <1>1. ScanInv => OneTaskPerFile
    BY DEF ScanInv
  <1> QED
    BY <1>1, ScanInvariance, PTL
-----------------------------------------------------------------------------
(* No Task writes over the encoding of another.                            *)

\* The Task is where it was, a step further.
LEMMA StateUpdated ==
    ASSUME ScanInv, NEW k \in DOMAIN tasks, NEW state \in TaskStates,
           tasks' = [tasks EXCEPT ![k].state = state]
    PROVE  /\ DOMAIN tasks' = DOMAIN tasks
           /\ tasks'[k].state = state /\ tasks'[k].input = tasks[k].input
           /\ tasks'[k].source = tasks[k].source /\ tasks'[k].target = tasks[k].target
           /\ \A l \in DOMAIN tasks : l # k => tasks'[l] = tasks[l]
  <1>1. tasks \in Seq(Tasks) /\ tasks[k] \in Tasks
    BY TasksTyped
  <1>2. /\ DOMAIN tasks' = DOMAIN tasks /\ tasks'[k] = [tasks[k] EXCEPT !.state = state]
        /\ \A l \in DOMAIN tasks : l # k => tasks'[l] = tasks[l]
    BY <1>1, TaskStateUpdated
  <1> QED
    BY <1>1, <1>2 DEF Tasks

\* Tasks with the same name in the target volume are for the same file, and
\* with one Blueprint they are the same Task.
LEMMA TargetsOfTasks ==
    ASSUME TargetsDiffer, ScanInv, NEW k \in DOMAIN tasks, NEW l \in DOMAIN tasks,
           tasks[k].target = tasks[l].target
    PROVE  /\ tasks[k].source = tasks[l].source
           /\ OneBlueprint /\ IsListed(k) /\ IsListed(l) => k = l
  <1>1. tasks[k] \in Tasks /\ tasks[l] \in Tasks
    BY TasksTyped
  <1>2. tasks[k].file = tasks[l].file
    BY <1>1 DEF TargetsDiffer, ScanInv, UrlsNamed, Tasks
  <1>3. tasks[k].source = tasks[l].source
    BY <1>2 DEF ScanInv, UrlsNamed
  <1>4. OneBlueprint => tasks[k].owner = tasks[l].owner
    BY <1>1 DEF OneBlueprint, Tasks
  <1> QED
    BY <1>2, <1>3, <1>4 DEF ScanInv, OneTaskPerFile

\* A Task is held if it is merged or Ready and the target volume has its encoding.
Held(t) ==
    /\ target[t.target].file = t.source
    /\ OneBlueprint => target[t.target].content = t.input

LEMMA EncodingHeldNext ==
    ASSUME TargetsDiffer
    PROVE  ScanInv /\ EncodingHeld /\ [ScanNext]_scanVars => EncodingHeld'
  <1> SUFFICES ASSUME ScanInv, EncodingHeld, [ScanNext]_scanVars PROVE EncodingHeld'
    OBVIOUS
  <1>1. CASE UNCHANGED <<target, tasks>>
    BY <1>1 DEF EncodingHeld
  <1>2. ASSUME NEW pod \in ScanPods, CreateTask(pod) PROVE EncodingHeld'
    <2>1. UNCHANGED target
      BY <1>2 DEF CreateTask, volumes
    <2>2. CASE tasks' = tasks
      BY <1>1, <2>1, <2>2
    <2>3. CASE tasks' # tasks
      <3> DEFINE new == [owner |-> pods[pod].blueprint, file |-> pods[pod].selected,
                         source |-> SourcePath(pods[pod].selected),
                         target |-> TargetPath(pods[pod].selected), input |-> 0, state |-> "new"]
      <3>1. tasks' = Append(tasks, new) /\ new.state = "new"
        BY <1>2, <2>3 DEF CreateTask
      <3> HIDE DEF new
      <3>2. /\ tasks'[Len(tasks) + 1] = new
            /\ \A k \in DOMAIN tasks' : k \in DOMAIN tasks \/ k = Len(tasks) + 1
            /\ \A k \in DOMAIN tasks : tasks'[k] = tasks[k]
        BY <3>1, TasksTyped
      <3> QED
        BY <2>1, <3>1, <3>2 DEF EncodingHeld
    <2> QED
      BY <2>2, <2>3
  <1>3. ASSUME NEW k \in DOMAIN tasks, TaskSplit(k) PROVE EncodingHeld'
    <2>1. tasks \in Seq(Tasks) /\ tasks[k] \in Tasks
      BY TasksTyped
    <2>2. added[tasks[k].source] \in 0 .. MaxVersions /\ UNCHANGED target
      BY <1>3 DEF TaskSplit, ScanInv, ScanTypeOK, volumes
    <2>3. /\ DOMAIN tasks' = DOMAIN tasks
          /\ tasks'[k] = [tasks[k] EXCEPT !.state = "split", !.input = added[tasks[k].source]]
          /\ \A l \in DOMAIN tasks : l # k => tasks'[l] = tasks[l]
      BY <1>3, <2>1, <2>2, TaskInputUpdated DEF TaskSplit
    <2>4. tasks'[k].state = "split"
      BY <2>1, <2>3 DEF Tasks
    <2> QED
      BY <2>2, <2>3, <2>4 DEF EncodingHeld
  <1>4. ASSUME NEW k \in DOMAIN tasks, TaskMerged(k) PROVE EncodingHeld'
    <2>1. /\ DOMAIN tasks' = DOMAIN tasks
          /\ tasks'[k].input = tasks[k].input
          /\ tasks'[k].source = tasks[k].source /\ tasks'[k].target = tasks[k].target
          /\ \A l \in DOMAIN tasks : l # k => tasks'[l] = tasks[l]
      BY <1>4, StateUpdated DEF TaskMerged, TaskStates, Unfinished
    <2> DEFINE written == [file |-> tasks[k].source, content |-> tasks[k].input]
    <2>2. /\ target' = [target EXCEPT ![tasks[k].target] = written]
          /\ target \in [TargetPaths -> Encodings] /\ tasks[k].target \in TargetPaths
          /\ tasks[k].state = "split"
      BY <1>4, TasksTyped DEF TaskMerged, ScanInv, ScanTypeOK, Tasks
    <2>3. target'[tasks[k].target] = written
      BY <2>2
    <2>4. \A path \in TargetPaths : path # tasks[k].target => target'[path] = target[path]
      BY <2>2
    <2>5. ASSUME NEW l \in DOMAIN tasks, l # k, tasks[l].state \in {"merged", "encoded"}
          PROVE  Held(tasks[l])'
      <3>1. tasks'[l] = tasks[l] /\ tasks[l].target \in TargetPaths
        BY <2>1, <2>5, TasksTyped DEF Tasks
      <3>2. CASE tasks[l].target = tasks[k].target
        <4>1. tasks[k].source = tasks[l].source /\ ~ OneBlueprint
          BY <2>2, <2>5, <3>2, TargetsOfTasks DEF IsListed
        <4> QED
          BY <2>3, <3>1, <3>2, <4>1 DEF Held
      <3>3. CASE tasks[l].target # tasks[k].target
        BY <2>4, <2>5, <3>1, <3>3 DEF Held, EncodingHeld
      <3> QED
        BY <3>2, <3>3
    <2>6. Held(tasks[k])'
      BY <2>1, <2>3 DEF Held
    <2> QED
      BY <2>1, <2>5, <2>6 DEF EncodingHeld, Held
  <1>5. ASSUME NEW k \in DOMAIN tasks, TaskEncoded(k) PROVE EncodingHeld'
    <2>1. tasks[k].state = "merged" /\ UNCHANGED target
      BY <1>5 DEF TaskEncoded
    <2>2. /\ DOMAIN tasks' = DOMAIN tasks
          /\ tasks'[k].state = "encoded" /\ tasks'[k].input = tasks[k].input
          /\ tasks'[k].source = tasks[k].source /\ tasks'[k].target = tasks[k].target
          /\ \A l \in DOMAIN tasks : l # k => tasks'[l] = tasks[l]
      BY <1>5, StateUpdated DEF TaskEncoded, TaskStates
    <2> QED
      BY <2>1, <2>2 DEF EncodingHeld
  <1>6. ASSUME NEW k \in DOMAIN tasks, TaskFails(k) \/ DeleteTask(k) PROVE EncodingHeld'
    <2>1. UNCHANGED target
      BY <1>6 DEF TaskFails, DeleteTask, volumes
    <2>2. PICK state \in {"failed", "deleting"} : tasks' = [tasks EXCEPT ![k].state = state]
      BY <1>6 DEF TaskFails, DeleteTask
    <2>3. /\ DOMAIN tasks' = DOMAIN tasks
          /\ tasks'[k].state = state
          /\ \A l \in DOMAIN tasks : l # k => tasks'[l] = tasks[l]
      BY <2>2, StateUpdated DEF TaskStates
    <2> QED
      BY <2>1, <2>2, <2>3 DEF EncodingHeld
  <1>7. ASSUME NEW k \in DOMAIN tasks, TaskDeleted(k) PROVE EncodingHeld'
    <2>1. tasks \in Seq(Tasks) /\ tasks' = RemoveAt(tasks, k) /\ UNCHANGED target
      BY <1>7, TasksTyped DEF TaskDeleted, volumes
    <2>2. PICK at \in [DOMAIN tasks' -> DOMAIN tasks] : \A l \in DOMAIN tasks' : tasks'[l] = tasks[at[l]]
      BY <2>1, RemovalKeeps
    <2> QED
      BY <2>1, <2>2 DEF EncodingHeld
  <1>8. ASSUME NEW b \in Blueprints, SetSuspend(b) \/ EnsureCronJob(b) \/ StartScan(b)
        PROVE  EncodingHeld'
    BY <1>1, <1>8 DEF SetSuspend, EnsureCronJob, StartScan, volumes
  <1>9. ASSUME NEW pod \in ScanPods,
               FetchBlueprint(pod) \/ FetchCurrentTasks(pod) \/ SelectNewFile(pod) \/ ScanFails(pod)
        PROVE  EncodingHeld'
    BY <1>1, <1>9 DEF FetchBlueprint, FetchCurrentTasks, SelectNewFile, ScanFails, volumes
  <1>10. ASSUME NEW k \in DOMAIN tasks, TaskRevisited(k) PROVE EncodingHeld'
    BY <1>1, <1>10 DEF TaskRevisited
  <1>11. ASSUME NEW file \in Files, AddFile(file) \/ ReplaceFile(file) \/ RemoveFile(file)
         PROVE  EncodingHeld'
    BY <1>1, <1>11 DEF AddFile, ReplaceFile, RemoveFile
  <1> QED
    BY <1>1, <1>2, <1>3, <1>4, <1>5, <1>6, <1>7, <1>8, <1>9, <1>10, <1>11
       DEF ScanNext, ScanStep, TaskStep, scanVars, volumes

\* When names survive their conversion and differ in the target volume, an
\* encoding stays in the target volume as long as its Task is there: for any
\* number of Blueprints it is one of the Task's file, and with one Blueprint
\* one of what the Task has read.
THEOREM EncodingStays ==
    ASSUME PlainNames, TargetsDiffer
    PROVE  ScanSpec => []EncodingHeld
  <1>1. ScanInit => EncodingHeld
    BY DEF ScanInit, EncodingHeld
  <1> QED
    BY <1>1, EncodingHeldNext, ScanInvariance, PTL DEF ScanSpec
=============================================================================
