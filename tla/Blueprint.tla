------------------------------ MODULE Blueprint ------------------------------
(***************************************************************************)
(* The blueprint controller (src/pkg/operator/blueprintcontroller) and one *)
(* Blueprint: a reconcile ensures the service account, the role binding    *)
(* and the CronJob of the scan, and then sets or removes Failed.  The      *)
(* worker reads the Blueprint and the objects it ensures from the informer *)
(* caches, which trail the API server; only a change of the Blueprint's    *)
(* generation queues it, and nobody watches what it owns.  Users edit the  *)
(* Blueprint, Kubernetes writes the CronJob's status, calls fail or take   *)
(* effect after the worker gave them up, and the operator is restarted.    *)
(***************************************************************************)
EXTENDS Naturals, Sequences

CONSTANTS
    Settings,       \* Suspend and the schedule in each generation of the Blueprint
    MaxLag,         \* bound: versions an informer cache may trail by
    MaxStatuses,    \* bound: CronJob statuses that Kubernetes writes
    MaxFaults,      \* bound: API calls that fail without a conflict
    MaxRestarts     \* bound: restarts of the operator

ASSUME SettingsAssumption == Len(Settings) \in Nat \ {0} /\ DOMAIN Settings = 1 .. Len(Settings)
ASSUME LimitsAssumption ==
    MaxLag \in Nat \ {0} /\ MaxStatuses \in Nat /\ MaxFaults \in Nat /\ MaxRestarts \in Nat

VARIABLES
    blueprint,      \* the Blueprint as the API server stores it
    events,         \* versions of it the informer has yet to deliver, oldest first
    cache,          \* the Blueprint in the informer cache
    owned,          \* the service account and the role binding: where they are known
    cron,           \* the generation whose settings the CronJob has, 0 if there is none
    cronEvents,     \* CronJob versions the informer has yet to deliver
    cronCache,      \* the CronJob in the informer cache
    late,           \* the generation a given-up request may still write, or 0
    queued,         \* the Blueprint's key is in the work queue
    pc,             \* where the worker is
    copy,           \* its in-memory Blueprint (BlueprintContext.blueprint)
    fresh,          \* copy carries the API server's resourceVersion
    err,            \* the pipeline failed before the finalizer
    statuses, faults, restarts  \* how often the bounded events happened

cronVars == <<cron, cronEvents, cronCache, late>>
workerVars == <<queued, pc, copy, fresh, err>>
limits == <<statuses, faults, restarts>>
bpVars == <<blueprint, events, cache, owned, cronVars, workerVars, limits>>

Generations == DOMAIN Settings
Versions == [generation : Generations, failed : BOOLEAN]
First == [generation |-> 1, failed |-> FALSE]
Accounts == {"account", "binding"}

\* A call fails although the API server is willing.
Fault == faults < MaxFaults /\ faults' = faults + 1
-----------------------------------------------------------------------------
(* The API server and the informers.                                       *)

\* Mutant: the status is no subresource, and a change of it is a generation too.
StoreBlueprintCounted(new) ==
    LET stored == IF new.failed = blueprint.failed THEN new
                  ELSE [new EXCEPT !.generation = @ + 1] IN
    /\ blueprint' = stored
    /\ IF stored = blueprint THEN UNCHANGED events
                             ELSE Len(events) < MaxLag /\ events' = Append(events, stored)

\* A write that changes nothing creates no version and no event.
StoreBlueprint(new) ==
    /\ blueprint' = new
    /\ IF new = blueprint THEN UNCHANGED events
                          ELSE Len(events) < MaxLag /\ events' = Append(events, new)

\* Mutant: a request without a resourceVersion, such as a patch, is not outdated.
StoreCronJobUnguarded(generation) ==
    /\ Len(cronEvents) < MaxLag
    /\ cron' = generation
    /\ cronEvents' = Append(cronEvents, generation)
    /\ UNCHANGED late

\* Every version of the CronJob outdates a request that is still under way.
StoreCronJob(generation) ==
    /\ Len(cronEvents) < MaxLag
    /\ cron' = generation
    /\ cronEvents' = Append(cronEvents, generation)
    /\ late' = 0

\* Mutant: a later edit of the specification is taken for a status change.
BlueprintEventUnfiltered ==
    /\ events # <<>>
    /\ cache' = Head(events)
    /\ events' = Tail(events)
    /\ queued' = (queued \/ Head(events).failed # cache.failed)
    /\ UNCHANGED <<blueprint, owned, cronVars, pc, copy, fresh, err, limits>>

\* GenerationChangedPredicate: the cache learns every version, the queue only
\* those of another generation.  A resync is an event of the same generation.
BlueprintEvent ==
    /\ events # <<>>
    /\ cache' = Head(events)
    /\ events' = Tail(events)
    /\ queued' = (queued \/ Head(events).generation # cache.generation)
    /\ UNCHANGED <<blueprint, owned, cronVars, pc, copy, fresh, err, limits>>

\* Nothing that the Blueprint owns is watched for the queue.
CronJobEvent ==
    /\ cronEvents # <<>>
    /\ cronCache' = Head(cronEvents)
    /\ cronEvents' = Tail(cronEvents)
    /\ UNCHANGED <<blueprint, events, cache, owned, cron, late, workerVars, limits>>

AccountEvent(account) ==
    /\ owned[account] = "stored"
    /\ owned' = [owned EXCEPT ![account] = "cached"]
    /\ UNCHANGED <<blueprint, events, cache, cronVars, workerVars, limits>>

\* A user changes the specification.
Edit ==
    /\ blueprint.generation + 1 \in Generations
    /\ StoreBlueprint([blueprint EXCEPT !.generation = @ + 1])
    /\ fresh' = FALSE
    /\ UNCHANGED <<cache, owned, cronVars, queued, pc, copy, err, limits>>

\* Kubernetes notes in the CronJob's status when it was scheduled.
CronJobScheduled ==
    /\ cron # 0
    /\ statuses < MaxStatuses
    /\ statuses' = statuses + 1
    /\ StoreCronJob(cron)
    /\ UNCHANGED <<blueprint, events, cache, owned, cronCache, workerVars, faults, restarts>>

\* A request the worker gave up takes effect after all.
LateWrite ==
    /\ late # 0
    /\ StoreCronJob(late)
    /\ UNCHANGED <<blueprint, events, cache, owned, cronCache, workerVars, limits>>
-----------------------------------------------------------------------------
(* The worker.                                                             *)

Pop ==
    /\ pc = "idle"
    /\ queued
    /\ queued' = FALSE
    /\ pc' = "get"
    /\ UNCHANGED <<blueprint, events, cache, owned, cronVars, copy, fresh, err, limits>>

Get ==
    /\ pc = "get"
    /\ copy' = cache
    /\ fresh' = (events = <<>>)
    /\ pc' = "account"
    /\ UNCHANGED <<blueprint, events, cache, owned, cronVars, queued, err, limits>>

\* On an error the pipeline goes to its finalizer, else to its next step.
Goes(next) == pc' = next /\ UNCHANGED err
Fails == pc' = "finalize" /\ err' = TRUE

\* Mutant: an error is not returned to the pipeline.
EnsureAccountIgnoringErrors(account, next) ==
    /\ pc = account
    /\ \/ owned[account] # "none" /\ UNCHANGED <<owned, faults>>
       \/ /\ owned[account] = "none"
          /\ \/ owned' = [owned EXCEPT ![account] = "stored"] /\ UNCHANGED faults
             \/ Fault /\ UNCHANGED owned
    /\ Goes(next)
    /\ UNCHANGED <<blueprint, events, cache, cronVars, queued, copy, fresh, statuses, restarts>>

\* CreateOrUpdate finds nothing to update once the cache knows the object; the
\* API server refuses to create one that the cache does not know yet.
EnsureAccount(account, next) ==
    /\ pc = account
    /\ CASE owned[account] = "cached" -> Goes(next) /\ UNCHANGED <<owned, faults>>
         [] owned[account] = "stored" -> Fails /\ UNCHANGED <<owned, faults>>
         [] OTHER -> \/ /\ owned' = [owned EXCEPT ![account] = "stored"]
                        /\ \/ Goes(next) /\ UNCHANGED faults
                           \/ Fails /\ Fault
                     \/ Fails /\ Fault /\ UNCHANGED owned
    /\ UNCHANGED <<blueprint, events, cache, cronVars, queued, copy, fresh, statuses, restarts>>

EnsureServiceAccount == EnsureAccount("account", "binding")
EnsureRoleBinding == EnsureAccount("binding", "cron")

\* The cached CronJob has the settings of the worker's Blueprint.
SeemsCurrent == cronCache # 0 /\ Settings[cronCache] = Settings[copy.generation]

\* The API server takes a create of what does not exist and an update of what
\* the cache shows as it is.
Accepted == IF cronCache = 0 THEN cron = 0 ELSE cronEvents = <<>>

\* CreateOrUpdate compares with the cached CronJob, and writes only what differs.
EnsureCronJob ==
    /\ pc = "cron"
    /\ \/ SeemsCurrent /\ Goes("finalize") /\ UNCHANGED <<cronVars, faults>>
       \/ /\ ~ SeemsCurrent
          /\ Accepted
          /\ \/ /\ StoreCronJob(copy.generation)
                /\ Goes("finalize")
                /\ UNCHANGED <<cronCache, faults>>
             \/ /\ Fault
                /\ Fails
                /\ late' \in {late, copy.generation}
                /\ UNCHANGED <<cron, cronEvents, cronCache>>
       \/ ~ SeemsCurrent /\ ~ Accepted /\ Fails /\ UNCHANGED <<cronVars, faults>>
    /\ UNCHANGED <<blueprint, events, cache, owned, queued, copy, fresh, statuses, restarts>>

\* Mutant: the error of the pipeline is logged and not returned.
SetFailureConditionOnly ==
    /\ pc = "finalize"
    /\ LET new == [copy EXCEPT !.failed = err] IN
         \/ fresh /\ StoreBlueprint(new) /\ UNCHANGED faults
         \/ ~ fresh /\ UNCHANGED <<blueprint, events, faults>>
         \/ Fault /\ (UNCHANGED <<blueprint, events>> \/ (fresh /\ StoreBlueprint(new)))
    /\ UNCHANGED queued
    /\ pc' = "idle" /\ copy' = First /\ fresh' = FALSE /\ err' = FALSE
    /\ UNCHANGED <<cache, owned, cronVars, statuses, restarts>>

\* setFailureCondition: an update that is refused or fails is only logged; the
\* pipeline's error is returned and the Blueprint queued again.
SetFailureCondition ==
    /\ pc = "finalize"
    /\ LET new == [copy EXCEPT !.failed = err] IN
         \/ fresh /\ StoreBlueprint(new) /\ UNCHANGED faults
         \/ ~ fresh /\ UNCHANGED <<blueprint, events, faults>>
         \/ Fault /\ (UNCHANGED <<blueprint, events>> \/ (fresh /\ StoreBlueprint(new)))
    /\ queued' = (queued \/ err)
    /\ pc' = "idle" /\ copy' = First /\ fresh' = FALSE /\ err' = FALSE
    /\ UNCHANGED <<cache, owned, cronVars, statuses, restarts>>

Reconcile ==
    \/ Pop \/ Get
    \/ EnsureServiceAccount \/ EnsureRoleBinding \/ EnsureCronJob
    \/ SetFailureCondition
-----------------------------------------------------------------------------
\* The operator's process ends at any point and starts anew: its caches are
\* filled before it reconciles, and every Blueprint is queued as a new one.
Restart ==
    /\ restarts < MaxRestarts
    /\ restarts' = restarts + 1
    /\ cache' = blueprint /\ events' = <<>>
    /\ cronCache' = cron /\ cronEvents' = <<>>
    /\ owned' = [account \in Accounts |->
                    IF owned[account] = "none" THEN "none" ELSE "cached"]
    /\ queued' = TRUE
    /\ pc' = "idle" /\ copy' = First /\ fresh' = FALSE /\ err' = FALSE
    /\ UNCHANGED <<blueprint, cron, late, statuses, faults>>

BpInit ==
    /\ blueprint = First /\ events = <<>> /\ cache = First
    /\ owned = [account \in Accounts |-> "none"]
    /\ cron = 0 /\ cronEvents = <<>> /\ cronCache = 0 /\ late = 0
    /\ queued = TRUE
    /\ pc = "idle" /\ copy = First /\ fresh = FALSE /\ err = FALSE
    /\ statuses = 0 /\ faults = 0 /\ restarts = 0

BpNext ==
    \/ BlueprintEvent \/ CronJobEvent \/ \E account \in Accounts : AccountEvent(account)
    \/ Edit \/ CronJobScheduled \/ LateWrite
    \/ Reconcile
    \/ Restart

BpSpec == BpInit /\ [][BpNext]_bpVars

\* The informers and the worker keep going.
BpFairness ==
    /\ WF_bpVars(BlueprintEvent)
    /\ WF_bpVars(CronJobEvent)
    /\ \A account \in Accounts : WF_bpVars(AccountEvent(account))
    /\ WF_bpVars(Reconcile)

BpFairSpec == BpSpec /\ BpFairness
-----------------------------------------------------------------------------
(* Properties.                                                             *)

BpTypeOK ==
    /\ blueprint \in Versions /\ cache \in Versions /\ copy \in Versions
    /\ events \in Seq(Versions)
    /\ owned \in [Accounts -> {"none", "stored", "cached"}]
    /\ cron \in Generations \cup {0} /\ cronCache \in Generations \cup {0}
    /\ cronEvents \in Seq(Generations \cup {0})
    /\ late \in Generations \cup {0}
    /\ queued \in BOOLEAN /\ fresh \in BOOLEAN /\ err \in BOOLEAN
    /\ pc \in {"idle", "get", "account", "binding", "cron", "finalize"}
    /\ statuses \in Nat /\ faults \in Nat /\ restarts \in Nat

\* A scan never runs without its service account and the binding of its role,
\* whatever call fails or is done late (the order of Provision's steps).
ScanHasRights == cron # 0 => \A account \in Accounts : owned[account] # "none"

\* Nothing is under way that would make the worker look at the Blueprint again.
Quiet == pc = "idle" /\ ~ queued /\ events = <<>>

NoReturn == \A g, h \in Generations : Settings[g] = Settings[h] => g = h

\* When nothing is due, the CronJob has the settings of the Blueprint: no edit
\* is overlooked, although only a change of the generation queues it, errors
\* are only retried through the queue and Failed may stay behind.  Settings
\* that return to what they were are left out (see SuspendedAsShown).
FollowsOnceQuiet == NoReturn /\ Quiet => cron = blueprint.generation

\* The CronJob is never set back to an older version of the Blueprint, not even
\* by a request that was given up (Update with the cached resourceVersion).
NeverOlder == [][cron <= cron']_cron

\* Once users stop to edit, the CronJob has the Blueprint's settings for good.
CronJobFollows == NoReturn => <>[](cron = blueprint.generation)

\* Whether media scanning is suspended, as the Blueprint shows it
\* (blueprint_types.go:14), is what the CronJob does once nothing is due and
\* the caches are up to date.
SuspendedAsShown ==
    Quiet /\ cronEvents = <<>> => cron # 0 /\ Settings[cron] = Settings[blueprint.generation]
-----------------------------------------------------------------------------
(* The invariant that the properties follow from.                          *)

\* The informer delivers what the API server stored, in its order.
BlueprintDelivered ==
    /\ IF events = <<>> THEN cache = blueprint ELSE events[Len(events)] = blueprint
    /\ \A i \in DOMAIN events : cache.generation <= events[i].generation
    /\ \A i, j \in DOMAIN events : i <= j => events[i].generation <= events[j].generation

CronJobDelivered ==
    /\ IF cronEvents = <<>> THEN cronCache = cron ELSE cronEvents[Len(cronEvents)] = cron
    /\ cronCache <= cron
    /\ \A i \in DOMAIN cronEvents : cronEvents[i] <= cron

\* What is written or may still be is of a generation the worker has read.
WrittenWasRead ==
    /\ cron <= cache.generation
    /\ late = 0 \/ (cron < late /\ late <= cache.generation)

InPipeline == pc \in {"account", "binding", "cron", "finalize"}

\* The worker's Blueprint is no older than what was written before, and if it
\* is not that of the cache the key is in the queue.
WorkerIsCurrent ==
    InPipeline =>
        /\ cron <= copy.generation /\ late <= copy.generation
        /\ copy.generation <= cache.generation
        /\ fresh => copy = blueprint
        /\ queued \/ copy.generation = cache.generation

\* Without an error the pipeline leaves the CronJob with the worker's settings,
\* and without a key in the queue these are the cache's.
SettledOnceDone ==
    NoReturn =>
        /\ pc = "finalize" /\ ~ err => cron = copy.generation
        /\ pc = "idle" /\ ~ queued => cron = cache.generation

\* The steps before have ensured what the scan needs.
RightsFirst ==
    /\ pc \in {"binding", "cron"} => owned["account"] # "none"
    /\ pc = "cron" \/ cron # 0 \/ late # 0 =>
           \A account \in Accounts : owned[account] # "none"

\* The inductive strengthening of ScanHasRights, NeverOlder and FollowsOnceQuiet.
BpInv ==
    /\ BpTypeOK
    /\ BlueprintDelivered /\ CronJobDelivered
    /\ WrittenWasRead /\ WorkerIsCurrent /\ SettledOnceDone
    /\ RightsFirst
=============================================================================
