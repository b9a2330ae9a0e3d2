--------------------------- MODULE BlueprintProofs ---------------------------
(***************************************************************************)
(* What TLAPS proves of Blueprint, for all settings and every bound: the   *)
(* invariant BpInv, and the properties of the CronJob that follow from it. *)
(***************************************************************************)
EXTENDS Blueprint, SequenceTheorems, TLAPS

\* A generation is a positive number, and the first one exists.
LEMMA GenerationNumbers ==
    /\ \A g \in Generations : g \in Nat /\ g > 0
    /\ 1 \in Generations
    /\ First \in Versions
    /\ \A v \in Versions : v.generation \in Generations /\ v.failed \in BOOLEAN
    /\ \A v \in Versions, f \in BOOLEAN : [v EXCEPT !.failed = f] \in Versions
  BY SettingsAssumption DEF Generations, First, Versions

LEMMA StoreBlueprintType ==
    ASSUME BpTypeOK, NEW new \in Versions, StoreBlueprint(new)
    PROVE  blueprint' \in Versions /\ events' \in Seq(Versions)
  BY AppendProperties DEF BpTypeOK, StoreBlueprint

LEMMA StoreCronJobType ==
    ASSUME BpTypeOK, NEW g \in Generations, StoreCronJob(g)
    PROVE  /\ cron' \in Generations \cup {0} /\ cronEvents' \in Seq(Generations \cup {0})
           /\ late' \in Generations \cup {0}
  BY AppendProperties DEF BpTypeOK, StoreCronJob

LEMMA BpTypeNext == BpTypeOK /\ [BpNext]_bpVars => BpTypeOK'
  <1> SUFFICES ASSUME BpTypeOK, [BpNext]_bpVars PROVE BpTypeOK'
    OBVIOUS
  <1> USE DEF cronVars, workerVars, limits
  <1>1. CASE BlueprintEvent
    BY <1>1, HeadTailProperties DEF BlueprintEvent, BpTypeOK
  <1>2. CASE CronJobEvent
    BY <1>2, HeadTailProperties DEF CronJobEvent, BpTypeOK
  <1>3. CASE \E account \in Accounts : AccountEvent(account)
    BY <1>3 DEF AccountEvent, BpTypeOK
  <1>4. CASE Edit
    <2>1. [blueprint EXCEPT !.generation = @ + 1] \in Versions
      BY <1>4 DEF Edit, BpTypeOK, Versions
    <2> QED
      BY <1>4, <2>1, StoreBlueprintType DEF Edit, BpTypeOK
  <1>5. CASE CronJobScheduled
    <2>1. cron \in Generations
      BY <1>5 DEF CronJobScheduled, BpTypeOK
    <2>2. statuses' \in Nat
      BY <1>5 DEF CronJobScheduled, BpTypeOK
    <2> QED
      BY <1>5, <2>1, <2>2, StoreCronJobType DEF CronJobScheduled, BpTypeOK
  <1>6. CASE LateWrite
    <2>1. late \in Generations
      BY <1>6 DEF LateWrite, BpTypeOK
    <2> QED
      BY <1>6, <2>1, StoreCronJobType DEF LateWrite, BpTypeOK
  <1>7. CASE Pop
    BY <1>7 DEF Pop, BpTypeOK
  <1>8. CASE Get
    BY <1>8 DEF Get, BpTypeOK
  <1>9. ASSUME NEW account \in Accounts, NEW next \in {"binding", "cron"},
               EnsureAccount(account, next)
        PROVE  BpTypeOK'
    <2>1. owned' \in [Accounts -> {"none", "stored", "cached"}] /\ faults' \in Nat
      BY <1>9 DEF EnsureAccount, Fault, BpTypeOK
    <2>2. /\ err' \in BOOLEAN
          /\ pc' \in {"idle", "get", "account", "binding", "cron", "finalize"}
      BY <1>9 DEF EnsureAccount, Goes, Fails, BpTypeOK
    <2> QED
      BY <1>9, <2>1, <2>2 DEF EnsureAccount, BpTypeOK
  <1>10. CASE EnsureServiceAccount \/ EnsureRoleBinding
    BY <1>9, <1>10 DEF EnsureServiceAccount, EnsureRoleBinding, Accounts
  <1>11. CASE EnsureCronJob
    <2>1. copy.generation \in Generations
      BY GenerationNumbers DEF BpTypeOK
    <2>2. /\ cron' \in Generations \cup {0} /\ cronEvents' \in Seq(Generations \cup {0})
          /\ late' \in Generations \cup {0} /\ cronCache' \in Generations \cup {0}
      BY <1>11, <2>1, StoreCronJobType DEF EnsureCronJob, BpTypeOK
    <2>3. faults' \in Nat
      BY <1>11 DEF EnsureCronJob, Fault, BpTypeOK
    <2>4. /\ err' \in BOOLEAN
          /\ pc' \in {"idle", "get", "account", "binding", "cron", "finalize"}
      BY <1>11 DEF EnsureCronJob, Goes, Fails, BpTypeOK
    <2> QED
      BY <1>11, <2>2, <2>3, <2>4 DEF EnsureCronJob, BpTypeOK
  <1>12. CASE SetFailureCondition
    <2>1. [copy EXCEPT !.failed = err] \in Versions
      BY GenerationNumbers DEF BpTypeOK
    <2>2. blueprint' \in Versions /\ events' \in Seq(Versions)
      BY <1>12, <2>1, StoreBlueprintType DEF SetFailureCondition, BpTypeOK
    <2>3. faults' \in Nat
      BY <1>12 DEF SetFailureCondition, Fault, BpTypeOK
    <2> QED
      BY <1>12, <2>2, <2>3, GenerationNumbers DEF SetFailureCondition, BpTypeOK
  <1>13. CASE Restart
    <2>1. events' \in Seq(Versions) /\ cronEvents' \in Seq(Generations \cup {0})
      BY <1>13 DEF Restart
    <2>2. owned' \in [Accounts -> {"none", "stored", "cached"}]
      BY <1>13 DEF Restart
    <2>3. /\ blueprint' \in Versions /\ cache' \in Versions /\ copy' \in Versions
          /\ cron' \in Generations \cup {0} /\ cronCache' \in Generations \cup {0}
          /\ late' \in Generations \cup {0}
      BY <1>13, GenerationNumbers DEF Restart, BpTypeOK
    <2>4. /\ queued' \in BOOLEAN /\ fresh' \in BOOLEAN /\ err' \in BOOLEAN
          /\ pc' \in {"idle", "get", "account", "binding", "cron", "finalize"}
      BY <1>13 DEF Restart
    <2>5. statuses' \in Nat /\ faults' \in Nat /\ restarts' \in Nat
      BY <1>13 DEF Restart, BpTypeOK
    <2> QED
      BY <2>1, <2>2, <2>3, <2>4, <2>5 DEF BpTypeOK
  <1>14. CASE UNCHANGED bpVars
    BY <1>14 DEF bpVars, BpTypeOK
  <1> QED
    BY <1>1, <1>2, <1>3, <1>4, <1>5, <1>6, <1>7, <1>8, <1>10, <1>11, <1>12, <1>13, <1>14
    DEF BpNext, Reconcile

LEMMA BpTypeInit == BpInit => BpTypeOK
  <1> SUFFICES ASSUME BpInit PROVE BpTypeOK
    OBVIOUS
  <1>1. events \in Seq(Versions) /\ cronEvents \in Seq(Generations \cup {0})
    BY DEF BpInit
  <1>2. owned \in [Accounts -> {"none", "stored", "cached"}]
    BY DEF BpInit
  <1>3. statuses \in Nat /\ faults \in Nat /\ restarts \in Nat
    BY DEF BpInit
  <1> QED
    BY <1>1, <1>2, <1>3, GenerationNumbers DEF BpInit, BpTypeOK

\* The state of the Blueprint's controller is always typed.
THEOREM BpTypeCorrect == BpSpec => []BpTypeOK
  BY BpTypeInit, BpTypeNext, PTL DEF BpSpec
-----------------------------------------------------------------------------
(* The informers' streams.                                                 *)

\* What the informer holds or has yet to deliver is no newer than the Blueprint.
LEMMA StoredIsLatest ==
    ASSUME BpTypeOK, BlueprintDelivered
    PROVE  /\ cache.generation <= blueprint.generation
           /\ \A i \in DOMAIN events : events[i].generation <= blueprint.generation
  <1>1. CASE events = <<>>
    <2>1. cache = blueprint /\ cache.generation \in Nat
      BY <1>1, GenerationNumbers DEF BlueprintDelivered, BpTypeOK
    <2> QED
      BY <1>1, <2>1
  <1>2. CASE events # <<>>
    <2>1. Len(events) \in DOMAIN events /\ DOMAIN events = 1 .. Len(events)
      BY <1>2, EmptySeq DEF BpTypeOK
    <2>2. \A i \in DOMAIN events : i <= Len(events)
      BY <2>1
    <2> QED
      BY <1>2, <2>1, <2>2 DEF BlueprintDelivered
  <1> QED
    BY <1>1, <1>2

LEMMA StoreBlueprintDelivers ==
    ASSUME BpTypeOK, BlueprintDelivered, cache' = cache,
           NEW new \in Versions, blueprint.generation <= new.generation, StoreBlueprint(new)
    PROVE  BlueprintDelivered'
  <1>1. CASE new = blueprint
    BY <1>1 DEF StoreBlueprint, BlueprintDelivered
  <1>2. CASE new # blueprint
    <2>1. events' = Append(events, new) /\ blueprint' = new
      BY <1>2 DEF StoreBlueprint
    <2>2. /\ events' # <<>> /\ Len(events') = Len(events) + 1
          /\ events'[Len(events')] = new /\ DOMAIN events' = 1 .. Len(events) + 1
          /\ \A i \in 1 .. Len(events) : events'[i] = events[i]
          /\ DOMAIN events = 1 .. Len(events) /\ Len(events) \in Nat
      BY <2>1, AppendProperties DEF BpTypeOK
    <2>3. /\ new.generation \in Nat /\ blueprint.generation \in Nat /\ cache.generation \in Nat
          /\ \A i \in 1 .. Len(events) : events[i].generation \in Nat
      BY GenerationNumbers, ElementOfSeq DEF BpTypeOK
    <2>4. /\ cache.generation <= new.generation
          /\ \A i \in 1 .. Len(events) : events[i].generation <= new.generation
      BY <2>2, <2>3, StoredIsLatest
    <2>5. \A i \in DOMAIN events' : cache'.generation <= events'[i].generation
      BY <2>2, <2>4 DEF BlueprintDelivered
    <2>6. ASSUME NEW i \in DOMAIN events', NEW j \in DOMAIN events', i <= j
          PROVE  events'[i].generation <= events'[j].generation
      <3>1. CASE j \in 1 .. Len(events)
        BY <3>1, <2>2, <2>6 DEF BlueprintDelivered
      <3>2. CASE j = Len(events) + 1
        BY <3>2, <2>2, <2>3, <2>4, <2>6
      <3> QED
        BY <3>1, <3>2, <2>2
    <2> QED
      BY <2>1, <2>2, <2>5, <2>6 DEF BlueprintDelivered
  <1> QED
    BY <1>1, <1>2

\* What is taken from the front of the stream leaves the rest in its order.
LEMMA BlueprintEventDelivers ==
    ASSUME BpTypeOK, BlueprintDelivered, BlueprintEvent
    PROVE  BlueprintDelivered' /\ cache.generation <= cache'.generation
  <1>1. /\ events # <<>> /\ cache' = Head(events) /\ events' = Tail(events)
        /\ blueprint' = blueprint
    BY DEF BlueprintEvent
  <1>2. /\ Len(events') = Len(events) - 1 /\ DOMAIN events' = 1 .. Len(events) - 1
        /\ \A i \in 1 .. Len(events) - 1 : events'[i] = events[i + 1]
        /\ Head(events) = events[1] /\ DOMAIN events = 1 .. Len(events)
        /\ Len(events) \in Nat \ {0}
    BY <1>1, HeadTailProperties, EmptySeq DEF BpTypeOK
  <1>3. 1 \in DOMAIN events
    BY <1>2
  <1>4. cache.generation <= cache'.generation
    BY <1>1, <1>2, <1>3 DEF BlueprintDelivered
  <1>5. \A i \in DOMAIN events' : i + 1 \in DOMAIN events /\ 1 <= i + 1
    BY <1>2
  <1>6. \A i \in DOMAIN events' : cache'.generation <= events'[i].generation
    BY <1>1, <1>2, <1>3, <1>5 DEF BlueprintDelivered
  <1>7. \A i, j \in DOMAIN events' : i <= j => events'[i].generation <= events'[j].generation
    <2> SUFFICES ASSUME NEW i \in DOMAIN events', NEW j \in DOMAIN events', i <= j
                 PROVE  events'[i].generation <= events'[j].generation
      OBVIOUS
    <2>1. i + 1 \in DOMAIN events /\ j + 1 \in DOMAIN events /\ i + 1 <= j + 1
      BY <1>2
    <2> QED
      BY <2>1, <1>2 DEF BlueprintDelivered
  <1>8. IF events' = <<>> THEN cache' = blueprint' ELSE events'[Len(events')] = blueprint'
    <2>1. CASE Len(events) = 1
      BY <2>1, <1>1, <1>2, EmptySeq DEF BlueprintDelivered
    <2>2. CASE Len(events) > 1
      BY <2>2, <1>1, <1>2, EmptySeq DEF BlueprintDelivered
    <2> QED
      BY <2>1, <2>2, <1>2
  <1> QED
    BY <1>4, <1>6, <1>7, <1>8 DEF BlueprintDelivered

\* The same of the CronJob's stream.
LEMMA StoreCronJobDelivers ==
    ASSUME BpTypeOK, CronJobDelivered, cronCache' = cronCache,
           NEW g \in Generations, cron <= g, StoreCronJob(g)
    PROVE  CronJobDelivered'
  <1>1. cronEvents' = Append(cronEvents, g) /\ cron' = g
    BY DEF StoreCronJob
  <1>2. /\ cronEvents' # <<>> /\ Len(cronEvents') = Len(cronEvents) + 1
        /\ cronEvents'[Len(cronEvents')] = g /\ DOMAIN cronEvents' = 1 .. Len(cronEvents) + 1
        /\ \A i \in 1 .. Len(cronEvents) : cronEvents'[i] = cronEvents[i]
        /\ DOMAIN cronEvents = 1 .. Len(cronEvents) /\ Len(cronEvents) \in Nat
    BY <1>1, AppendProperties DEF BpTypeOK
  <1>3. /\ g \in Nat /\ cron \in Nat /\ cronCache \in Nat
        /\ \A i \in 1 .. Len(cronEvents) : cronEvents[i] \in Nat
    BY GenerationNumbers, ElementOfSeq DEF BpTypeOK
  <1> QED
    BY <1>1, <1>2, <1>3 DEF CronJobDelivered

LEMMA CronJobEventDelivers ==
    ASSUME BpTypeOK, CronJobDelivered, CronJobEvent
    PROVE  CronJobDelivered'
  <1>1. /\ cronEvents # <<>> /\ cronCache' = Head(cronEvents)
        /\ cronEvents' = Tail(cronEvents) /\ cron' = cron
    BY DEF CronJobEvent
  <1>2. /\ Len(cronEvents') = Len(cronEvents) - 1 /\ DOMAIN cronEvents' = 1 .. Len(cronEvents) - 1
        /\ \A i \in 1 .. Len(cronEvents) - 1 : cronEvents'[i] = cronEvents[i + 1]
        /\ Head(cronEvents) = cronEvents[1] /\ DOMAIN cronEvents = 1 .. Len(cronEvents)
        /\ Len(cronEvents) \in Nat \ {0}
    BY <1>1, HeadTailProperties, EmptySeq DEF BpTypeOK
  <1>3. IF cronEvents' = <<>> THEN cronCache' = cron' ELSE cronEvents'[Len(cronEvents')] = cron'
    <2>1. CASE Len(cronEvents) = 1
      BY <2>1, <1>1, <1>2, EmptySeq DEF CronJobDelivered
    <2>2. CASE Len(cronEvents) > 1
      BY <2>2, <1>1, <1>2, EmptySeq DEF CronJobDelivered
    <2> QED
      BY <2>1, <2>2, <1>2
  <1> QED
    BY <1>1, <1>2, <1>3 DEF CronJobDelivered
-----------------------------------------------------------------------------
(* The invariant, action by action.                                        *)

LEMMA Numbers ==
    ASSUME BpTypeOK
    PROVE  /\ cron \in Nat /\ cronCache \in Nat /\ late \in Nat
           /\ blueprint.generation \in Nat /\ cache.generation \in Nat /\ copy.generation \in Nat
           /\ copy.generation \in Generations /\ copy.generation > 0
  BY GenerationNumbers DEF BpTypeOK

LEMMA BlueprintEventKeeps ==
    ASSUME BpInv, BpTypeOK', BlueprintEvent
    PROVE  BpInv'
  <1>1. /\ BpTypeOK /\ BlueprintDelivered /\ CronJobDelivered
        /\ WrittenWasRead /\ WorkerIsCurrent /\ SettledOnceDone /\ RightsFirst
    BY DEF BpInv
  <1>2. UNCHANGED <<blueprint, owned, cron, cronEvents, cronCache, late, pc, copy, fresh, err>>
    BY DEF BlueprintEvent, cronVars
  <1>3. BlueprintDelivered' /\ cache.generation <= cache'.generation
    BY <1>1, BlueprintEventDelivers
  <1>4. /\ cron \in Nat /\ late \in Nat /\ copy.generation \in Nat
        /\ cache.generation \in Nat /\ cache'.generation \in Nat
    BY <1>1, GenerationNumbers DEF BpTypeOK
  <1>5. queued' \/ (~ queued /\ cache'.generation = cache.generation)
    BY <1>1 DEF BlueprintEvent, BpTypeOK
  <1>6. CronJobDelivered' /\ RightsFirst'
    BY <1>1, <1>2 DEF CronJobDelivered, RightsFirst
  <1>7. WrittenWasRead'
    BY <1>1, <1>2, <1>3, <1>4 DEF WrittenWasRead
  <1>8. WorkerIsCurrent'
    <2> SUFFICES ASSUME InPipeline'
                 PROVE  /\ cron' <= copy'.generation /\ late' <= copy'.generation
                        /\ copy'.generation <= cache'.generation
                        /\ fresh' => copy' = blueprint'
                        /\ queued' \/ copy'.generation = cache'.generation
      BY DEF WorkerIsCurrent
    <2>1. InPipeline
      BY <1>2 DEF InPipeline
    <2>2. /\ cron <= copy.generation /\ late <= copy.generation
          /\ copy.generation <= cache.generation
          /\ fresh => copy = blueprint
      BY <1>1, <2>1 DEF WorkerIsCurrent
    <2>3. copy.generation <= cache'.generation
      BY <2>2, <1>3, <1>4
    <2>4. queued \/ copy.generation = cache.generation
      BY <1>1, <2>1 DEF WorkerIsCurrent
    <2>5. queued' \/ copy.generation = cache'.generation
      BY <1>5, <2>4
    <2> QED
      BY <1>2, <2>2, <2>3, <2>5
  <1>9. SettledOnceDone'
    BY <1>1, <1>2, <1>5 DEF SettledOnceDone
  <1> QED
    BY <1>3, <1>6, <1>7, <1>8, <1>9 DEF BpInv

\* Nothing but the CronJob's stream is involved.
LEMMA CronJobEventKeeps ==
    ASSUME BpInv, BpTypeOK', CronJobEvent
    PROVE  BpInv'
  <1>1. CronJobDelivered'
    BY CronJobEventDelivers DEF BpInv
  <1>2. UNCHANGED <<blueprint, events, cache, owned, cron, late, queued, pc, copy, fresh, err>>
    BY DEF CronJobEvent, workerVars
  <1> QED
    BY <1>1, <1>2 DEF BpInv, BlueprintDelivered, WrittenWasRead, WorkerIsCurrent, InPipeline,
                      SettledOnceDone, RightsFirst

LEMMA AccountEventKeeps ==
    ASSUME BpInv, BpTypeOK', NEW account \in Accounts, AccountEvent(account)
    PROVE  BpInv'
  <1>1. UNCHANGED <<blueprint, events, cache, cron, cronEvents, cronCache, late, queued, pc,
                    copy, fresh, err>>
    BY DEF AccountEvent, cronVars, workerVars
  <1>2. \A a \in Accounts : owned[a] # "none" => owned'[a] # "none"
    BY DEF AccountEvent, BpInv, BpTypeOK
  <1>3. RightsFirst'
    BY <1>1, <1>2 DEF BpInv, RightsFirst, Accounts
  <1> QED
    BY <1>1, <1>3 DEF BpInv, BlueprintDelivered, CronJobDelivered, WrittenWasRead,
                      WorkerIsCurrent, InPipeline, SettledOnceDone

\* An edit makes the worker's Blueprint stale; the informer has yet to tell.
LEMMA EditKeeps ==
    ASSUME BpInv, BpTypeOK', Edit
    PROVE  BpInv'
  <1>1. UNCHANGED <<cache, owned, cron, cronEvents, cronCache, late, queued, pc, copy, err>>
        /\ fresh' = FALSE
    BY DEF Edit, cronVars
  <1>2. BlueprintDelivered'
    <2> DEFINE new == [blueprint EXCEPT !.generation = @ + 1]
    <2>1. new \in Versions /\ new.generation = blueprint.generation + 1
      BY DEF Edit, BpInv, BpTypeOK, Versions
    <2>2. blueprint.generation <= new.generation
      BY <2>1, Numbers DEF BpInv
    <2> QED
      BY <1>1, <2>1, <2>2, StoreBlueprintDelivers DEF Edit, BpInv
  <1>3. WorkerIsCurrent'
    BY <1>1 DEF BpInv, WorkerIsCurrent, InPipeline
  <1> QED
    BY <1>1, <1>2, <1>3 DEF BpInv, CronJobDelivered, WrittenWasRead, SettledOnceDone, RightsFirst

\* A write of the CronJob that goes forward, but not past what the cache shows.
LEMMA WriteKeeps ==
    ASSUME BpInv, cronCache' = cronCache, cache' = cache,
           NEW g \in Generations, cron <= g, g <= cache.generation, StoreCronJob(g)
    PROVE  CronJobDelivered' /\ WrittenWasRead' /\ cron' = g /\ late' = 0
  <1>1. CronJobDelivered'
    BY StoreCronJobDelivers DEF BpInv
  <1> QED
    BY <1>1 DEF StoreCronJob, WrittenWasRead

LEMMA CronJobScheduledKeeps ==
    ASSUME BpInv, BpTypeOK', CronJobScheduled
    PROVE  BpInv'
  <1>1. UNCHANGED <<blueprint, events, cache, owned, cronCache, queued, pc, copy, fresh, err>>
    BY DEF CronJobScheduled, workerVars
  <1>2. cron \in Generations /\ StoreCronJob(cron)
    BY DEF CronJobScheduled, BpInv, BpTypeOK
  <1>3. cron \in Nat /\ cron <= cron /\ cron <= cache.generation /\ copy.generation \in Nat
    BY Numbers DEF BpInv, WrittenWasRead
  <1>4. CronJobDelivered' /\ WrittenWasRead' /\ cron' = cron /\ late' = 0
    BY <1>1, <1>2, <1>3, WriteKeeps
  <1>5. BlueprintDelivered'
    BY <1>1 DEF BpInv, BlueprintDelivered
  <1>6. WorkerIsCurrent'
    <2>1. InPipeline' => 0 <= copy.generation
      BY <1>3
    <2> QED
      BY <1>1, <1>4, <2>1 DEF BpInv, WorkerIsCurrent, InPipeline
  <1>7. SettledOnceDone' /\ RightsFirst'
    BY <1>1, <1>2, <1>4 DEF BpInv, SettledOnceDone, RightsFirst, CronJobScheduled
  <1> QED
    BY <1>4, <1>5, <1>6, <1>7 DEF BpInv

\* A late request has nothing to write once the worker is done and settled.
LEMMA LateWriteKeeps ==
    ASSUME BpInv, BpTypeOK', LateWrite
    PROVE  BpInv'
  <1>1. UNCHANGED <<blueprint, events, cache, owned, cronCache, queued, pc, copy, fresh, err>>
    BY DEF LateWrite, workerVars
  <1>2. /\ late \in Generations /\ StoreCronJob(late) /\ late # 0
        /\ cron < late /\ late <= cache.generation
    BY DEF LateWrite, BpInv, BpTypeOK, WrittenWasRead
  <1>3. cron \in Nat /\ late \in Nat /\ copy.generation \in Nat /\ cache.generation \in Nat
    BY Numbers DEF BpInv
  <1>4. CronJobDelivered' /\ WrittenWasRead' /\ cron' = late /\ late' = 0
    BY <1>1, <1>2, <1>3, WriteKeeps
  <1>5. BlueprintDelivered'
    BY <1>1 DEF BpInv, BlueprintDelivered
  <1>6. WorkerIsCurrent'
    <2>1. 0 <= copy.generation
      BY <1>3
    <2> QED
      BY <1>1, <1>4, <2>1 DEF BpInv, WorkerIsCurrent, InPipeline
  <1>7. SettledOnceDone'
    <2>1. cron # cache.generation
      BY <1>2, <1>3
    <2>2. InPipeline => cron # copy.generation
      <3> SUFFICES ASSUME InPipeline PROVE cron # copy.generation
        OBVIOUS
      <3>1. late <= copy.generation
        BY DEF BpInv, WorkerIsCurrent
      <3> QED
        BY <3>1, <1>2, <1>3
    <2> QED
      BY <1>1, <2>1, <2>2 DEF BpInv, SettledOnceDone, InPipeline
  <1>8. RightsFirst'
    BY <1>1, <1>2, <1>4 DEF BpInv, RightsFirst
  <1> QED
    BY <1>4, <1>5, <1>6, <1>7, <1>8 DEF BpInv

LEMMA PopKeeps ==
    ASSUME BpInv, BpTypeOK', Pop
    PROVE  BpInv'
  <1>1. UNCHANGED <<blueprint, events, cache, owned, cron, cronEvents, cronCache, late,
                    copy, fresh, err>> /\ pc' = "get"
    BY DEF Pop, cronVars
  <1> QED
    BY <1>1 DEF BpInv, BlueprintDelivered, CronJobDelivered, WrittenWasRead, WorkerIsCurrent,
                InPipeline, SettledOnceDone, RightsFirst

\* The worker takes what the cache shows, which is as new as anything written.
LEMMA GetKeeps ==
    ASSUME BpInv, BpTypeOK', Get
    PROVE  BpInv'
  <1>1. UNCHANGED <<blueprint, events, cache, owned, cron, cronEvents, cronCache, late,
                    queued, err>> /\ pc' = "account" /\ copy' = cache
    BY DEF Get, cronVars
  <1>2. fresh' => copy' = blueprint'
    BY DEF Get, BpInv, BlueprintDelivered, cronVars
  <1>3. cron <= cache.generation /\ late <= cache.generation /\ cache.generation <= cache.generation
    <2>1. cron \in Nat /\ late \in Nat /\ cache.generation \in Nat
      BY Numbers DEF BpInv
    <2> QED
      BY <2>1 DEF BpInv, WrittenWasRead
  <1>4. WorkerIsCurrent'
    BY <1>1, <1>2, <1>3 DEF WorkerIsCurrent
  <1> QED
    BY <1>1, <1>4 DEF BpInv, BlueprintDelivered, CronJobDelivered, WrittenWasRead,
                      SettledOnceDone, RightsFirst

\* An account is there before the pipeline passes on to what needs it.
LEMMA EnsureAccountKeeps ==
    ASSUME BpInv, BpTypeOK',
           NEW account, NEW next,
           (account = "account" /\ next = "binding") \/ (account = "binding" /\ next = "cron"),
           EnsureAccount(account, next)
    PROVE  BpInv'
  <1>1. UNCHANGED <<blueprint, events, cache, cron, cronEvents, cronCache, late,
                    queued, copy, fresh>> /\ pc = account
    BY DEF EnsureAccount, cronVars
  <1>2. account \in Accounts
    BY DEF Accounts
  <1>3. /\ pc' = next \/ (pc' = "finalize" /\ err')
        /\ pc' = next => owned'[account] # "none"
        /\ \A a \in Accounts : owned[a] # "none" => owned'[a] # "none"
    <2>1. owned \in [Accounts -> {"none", "stored", "cached"}] /\ next # "finalize"
      BY DEF BpInv, BpTypeOK
    <2>2. CASE owned[account] = "cached"
      BY <1>2, <2>1, <2>2 DEF EnsureAccount, Goes
    <2>3. CASE owned[account] = "stored"
      BY <1>2, <2>1, <2>3 DEF EnsureAccount, Fails
    <2>4. CASE owned[account] = "none"
      <3>1. \/ owned' = [owned EXCEPT ![account] = "stored"] /\ (pc' = next \/ Fails)
            \/ owned' = owned /\ Fails
        BY <2>4 DEF EnsureAccount, Goes
      <3> QED
        BY <1>2, <2>1, <3>1 DEF Fails
    <2> QED
      BY <1>2, <2>1, <2>2, <2>3, <2>4
  <1>4. WorkerIsCurrent'
    BY <1>1, <1>3 DEF BpInv, WorkerIsCurrent, InPipeline
  <1>5. SettledOnceDone'
    BY <1>1, <1>3 DEF BpInv, SettledOnceDone
  <1>6. RightsFirst'
    BY <1>1, <1>3 DEF BpInv, RightsFirst, Accounts
  <1> QED
    BY <1>1, <1>4, <1>5, <1>6 DEF BpInv, BlueprintDelivered, CronJobDelivered, WrittenWasRead

\* A write that the API server accepts goes forward: either nothing was written
\* before, or the cache shows what was, which differs from what the worker wants.
LEMMA AcceptedGoesForward ==
    ASSUME BpInv, pc = "cron", ~ SeemsCurrent, Accepted
    PROVE  cron < copy.generation
  <1>1. cron \in Nat /\ copy.generation \in Nat /\ copy.generation > 0
    BY Numbers DEF BpInv
  <1>2. CASE cronCache = 0
    BY <1>1, <1>2 DEF Accepted
  <1>3. CASE cronCache # 0
    <2>1. cronCache = cron
      BY <1>3 DEF Accepted, BpInv, CronJobDelivered
    <2>2. cron # copy.generation
      BY <1>3, <2>1 DEF SeemsCurrent
    <2>3. cron <= copy.generation
      BY DEF BpInv, WorkerIsCurrent, InPipeline
    <2> QED
      BY <1>1, <2>2, <2>3
  <1> QED
    BY <1>2, <1>3

LEMMA EnsureCronJobKeeps ==
    ASSUME BpInv, BpTypeOK', EnsureCronJob
    PROVE  BpInv'
  <1>1. UNCHANGED <<blueprint, events, cache, owned, cronCache, queued, copy, fresh>>
        /\ pc = "cron" /\ pc' = "finalize"
    BY DEF EnsureCronJob, Goes, Fails, cronVars
  <1>2. /\ cron \in Nat /\ cronCache \in Nat /\ late \in Nat /\ copy.generation \in Nat
        /\ cache.generation \in Nat /\ copy.generation \in Generations
    BY Numbers DEF BpInv
  <1>3. /\ cron <= copy.generation /\ late <= copy.generation
        /\ copy.generation <= cache.generation
        /\ fresh => copy = blueprint
        /\ queued \/ copy.generation = cache.generation
        /\ \A account \in Accounts : owned[account] # "none"
    BY <1>1 DEF BpInv, WorkerIsCurrent, InPipeline, RightsFirst
  <1>4. BlueprintDelivered' /\ RightsFirst'
    BY <1>1, <1>3 DEF BpInv, BlueprintDelivered, RightsFirst
  <1>5. SUFFICES CronJobDelivered' /\ WrittenWasRead' /\ cron' <= copy.generation
                 /\ late' <= copy.generation
                 /\ (NoReturn /\ ~ err' => cron' = copy.generation)
    BY <1>1, <1>3, <1>4 DEF BpInv, WorkerIsCurrent, SettledOnceDone
  <1>6. CASE SeemsCurrent /\ UNCHANGED cronVars
    <2>1. NoReturn => cronCache = copy.generation
      BY <1>2, <1>6 DEF SeemsCurrent, NoReturn, BpInv, BpTypeOK
    <2>2. cronCache <= cron
      BY DEF BpInv, CronJobDelivered
    <2>3. NoReturn => cron = copy.generation
      BY <1>2, <1>3, <2>1, <2>2
    <2> QED
      BY <1>1, <1>3, <1>6, <2>3 DEF BpInv, CronJobDelivered, WrittenWasRead, cronVars
  <1>7. CASE ~ SeemsCurrent /\ Accepted /\ StoreCronJob(copy.generation)
    <2>1. cron <= copy.generation
      BY <1>3
    <2>2. CronJobDelivered' /\ WrittenWasRead' /\ cron' = copy.generation /\ late' = 0
      BY <1>1, <1>2, <1>3, <1>7, WriteKeeps
    <2> QED
      BY <1>2, <2>2
  <1>8. CASE /\ ~ SeemsCurrent /\ Accepted /\ Fails
             /\ late' \in {late, copy.generation}
             /\ UNCHANGED <<cron, cronEvents, cronCache>>
    <2>1. cron < copy.generation
      BY <1>1, <1>8, AcceptedGoesForward
    <2>2. CronJobDelivered' /\ WrittenWasRead'
      BY <1>1, <1>3, <1>8, <2>1 DEF BpInv, CronJobDelivered, WrittenWasRead
    <2> QED
      BY <1>2, <1>3, <1>8, <2>2 DEF Fails
  <1>9. CASE Fails /\ UNCHANGED cronVars
    BY <1>1, <1>3, <1>9 DEF BpInv, CronJobDelivered, WrittenWasRead, cronVars, Fails
  <1> QED
    BY <1>6, <1>7, <1>8, <1>9 DEF EnsureCronJob

\* The key is back in the queue if the pipeline failed, else the work is done.
LEMMA SetFailureConditionKeeps ==
    ASSUME BpInv, BpTypeOK', SetFailureCondition
    PROVE  BpInv'
  <1>1. UNCHANGED <<cache, owned, cron, cronEvents, cronCache, late>>
        /\ pc = "finalize" /\ pc' = "idle" /\ queued' = (queued \/ err)
    BY DEF SetFailureCondition, cronVars
  <1>2. BlueprintDelivered'
    <2> DEFINE new == [copy EXCEPT !.failed = err]
    <2>1. CASE fresh /\ StoreBlueprint(new)
      <3>1. copy = blueprint
        BY <1>1, <2>1 DEF BpInv, WorkerIsCurrent, InPipeline
      <3>2. new \in Versions
        BY GenerationNumbers DEF BpInv, BpTypeOK
      <3>3. new.generation = blueprint.generation
        BY <3>1 DEF BpInv, BpTypeOK, Versions
      <3>4. blueprint.generation <= new.generation
        BY <3>3, Numbers DEF BpInv
      <3> QED
        BY <1>1, <2>1, <3>2, <3>4, StoreBlueprintDelivers DEF BpInv
    <2>2. CASE UNCHANGED <<blueprint, events>>
      BY <1>1, <2>2 DEF BpInv, BlueprintDelivered
    <2> QED
      BY <2>1, <2>2 DEF SetFailureCondition
  <1>3. WorkerIsCurrent'
    BY <1>1 DEF WorkerIsCurrent, InPipeline
  <1>4. SettledOnceDone'
    <2> SUFFICES ASSUME NoReturn, ~ queued' PROVE cron = cache.generation
      BY <1>1 DEF SettledOnceDone
    <2>1. ~ queued /\ ~ err
      BY <1>1 DEF BpInv, BpTypeOK
    <2>2. cron = copy.generation
      BY <1>1, <2>1 DEF BpInv, SettledOnceDone
    <2>3. copy.generation = cache.generation
      BY <1>1, <2>1 DEF BpInv, WorkerIsCurrent, InPipeline
    <2> QED
      BY <2>2, <2>3
  <1> QED
    BY <1>1, <1>2, <1>3, <1>4 DEF BpInv, CronJobDelivered, WrittenWasRead, RightsFirst

\* A new process knows what is stored, and looks at every Blueprint.
LEMMA RestartKeeps ==
    ASSUME BpInv, BpTypeOK', Restart
    PROVE  BpInv'
  <1>1. /\ cache' = blueprint /\ events' = <<>> /\ cronCache' = cron /\ cronEvents' = <<>>
        /\ queued' = TRUE /\ pc' = "idle"
        /\ UNCHANGED <<blueprint, cron, late>>
        /\ \A a \in Accounts : owned[a] # "none" => owned'[a] # "none"
    BY DEF Restart
  <1>2. /\ cron \in Nat /\ late \in Nat /\ cache.generation \in Nat
        /\ blueprint.generation \in Nat
    BY Numbers DEF BpInv
  <1>3. cache.generation <= blueprint.generation
    BY StoredIsLatest DEF BpInv
  <1>4. WrittenWasRead'
    BY <1>1, <1>2, <1>3 DEF BpInv, WrittenWasRead
  <1>5. BlueprintDelivered' /\ CronJobDelivered'
    <2>1. DOMAIN events' = {} /\ DOMAIN cronEvents' = {}
      BY <1>1
    <2> QED
      BY <1>1, <1>2, <2>1 DEF BlueprintDelivered, CronJobDelivered
  <1> QED
    BY <1>1, <1>4, <1>5 DEF BpInv, WorkerIsCurrent, InPipeline, SettledOnceDone, RightsFirst
-----------------------------------------------------------------------------
(* The theorems.                                                           *)

LEMMA BpInvInit == BpInit => BpInv
  <1> SUFFICES ASSUME BpInit PROVE BpInv
    OBVIOUS
  <1>1. BpTypeOK
    BY BpTypeInit
  <1>2. events = <<>> /\ cronEvents = <<>> /\ DOMAIN events = {} /\ DOMAIN cronEvents = {}
    BY DEF BpInit
  <1>3. BlueprintDelivered /\ CronJobDelivered /\ WrittenWasRead
    BY <1>2 DEF BpInit, BlueprintDelivered, CronJobDelivered, WrittenWasRead, First
  <1>4. WorkerIsCurrent /\ SettledOnceDone /\ RightsFirst
    BY DEF BpInit, WorkerIsCurrent, InPipeline, SettledOnceDone, RightsFirst
  <1> QED
    BY <1>1, <1>3, <1>4 DEF BpInv

LEMMA BpInvNext == BpInv /\ [BpNext]_bpVars => BpInv'
  <1> SUFFICES ASSUME BpInv, [BpNext]_bpVars PROVE BpInv'
    OBVIOUS
  <1>1. BpTypeOK'
    BY BpTypeNext DEF BpInv
  <1>2. CASE \E account \in Accounts : AccountEvent(account)
    BY <1>1, <1>2, AccountEventKeeps
  <1>3. CASE EnsureServiceAccount \/ EnsureRoleBinding
    <2>1. EnsureAccount("account", "binding") => BpInv'
      BY <1>1, EnsureAccountKeeps
    <2>2. EnsureAccount("binding", "cron") => BpInv'
      BY <1>1, EnsureAccountKeeps
    <2> QED
      BY <1>3, <2>1, <2>2 DEF EnsureServiceAccount, EnsureRoleBinding
  <1>4. CASE UNCHANGED bpVars
    BY <1>4 DEF bpVars, cronVars, workerVars, limits, BpInv, BpTypeOK, BlueprintDelivered,
                CronJobDelivered, WrittenWasRead, WorkerIsCurrent, InPipeline, SettledOnceDone,
                RightsFirst
  <1> QED
    BY <1>1, <1>2, <1>3, <1>4, BlueprintEventKeeps, CronJobEventKeeps, EditKeeps,
       CronJobScheduledKeeps, LateWriteKeeps, PopKeeps, GetKeeps, EnsureCronJobKeeps,
       SetFailureConditionKeeps, RestartKeeps
    DEF BpNext, Reconcile

\* The streams, the worker and the CronJob always agree in the sense of BpInv.
THEOREM BpInvariance == BpSpec => []BpInv
  BY BpInvInit, BpInvNext, PTL DEF BpSpec

\* No scan is scheduled without its service account and role binding, for any
\* number of faults, late requests and restarts.
THEOREM ScanIsEntitled == BpSpec => []ScanHasRights
  <1>1. BpInv => ScanHasRights
    BY DEF BpInv, RightsFirst, ScanHasRights
  <1> QED
    BY <1>1, BpInvariance, PTL

\* No edit is overlooked: with nothing due, the CronJob has the Blueprint's settings.
THEOREM NothingOverlooked == BpSpec => []FollowsOnceQuiet
  <1>1. BpInv => FollowsOnceQuiet
    BY DEF BpInv, SettledOnceDone, BlueprintDelivered, FollowsOnceQuiet, Quiet
  <1> QED
    BY <1>1, BpInvariance, PTL

\* Every write of the CronJob goes forward, those of given-up requests too.
THEOREM NeverBack == BpSpec => NeverOlder
  <1>1. BpInv /\ [BpNext]_bpVars => [cron <= cron']_cron
    <2> SUFFICES ASSUME BpInv, BpNext, cron' # cron PROVE cron <= cron'
      BY DEF bpVars, cronVars
    <2>1. /\ cron \in Nat /\ late \in Nat /\ copy.generation \in Nat
          /\ late = 0 \/ cron < late
      BY Numbers DEF BpInv, WrittenWasRead
    <2>2. CASE LateWrite
      BY <2>1, <2>2 DEF LateWrite, StoreCronJob
    <2>3. CASE EnsureCronJob
      <3>1. cron <= copy.generation
        BY <2>3 DEF EnsureCronJob, BpInv, WorkerIsCurrent, InPipeline
      <3>2. cron' = copy.generation
        BY <2>3 DEF EnsureCronJob, StoreCronJob, cronVars
      <3> QED
        BY <3>1, <3>2
    <2> QED
      BY <2>2, <2>3 DEF BpNext, Reconcile, BlueprintEvent, CronJobEvent, AccountEvent, Edit,
         CronJobScheduled, StoreCronJob, Pop, Get, EnsureServiceAccount, EnsureRoleBinding,
         EnsureAccount, SetFailureCondition, Restart, cronVars
  <1> QED
    BY <1>1, BpInvariance, PTL DEF BpSpec, NeverOlder
=============================================================================
