-------------------------- MODULE StageDeployment --------------------------
(***************************************************************************)
(* The deployment of one fragment: processRequest and deploymentLoopStage  *)
(* of pkg/handler/manager.go, run by the goroutine of the request; the     *)
(* objects a stage creates and deletes in Kubernetes                       *)
(* (pkg/kubernetes/kubernetes_deployable.go and the deployables it calls); *)
(* the dispatcher that carries the cluster's events to the registry        *)
(* (pkg/kubernetes/events/dispatcher.go); and an undeploy request that may *)
(* arrive at any moment.                                                   *)
(*                                                                         *)
(* The goroutine, the dispatcher, the undeploy request, the monitor helper *)
(* and the cluster interleave at every call of the registry and of the     *)
(* Kubernetes API.  WaitPendingChecks reads the services one by one with   *)
(* no lock.                                                                *)
(*                                                                         *)
(* External: the Kubernetes API, modelled from how the deployables use it. *)
(* A call may fail at any time; creating fails when the name exists or the *)
(* namespace is not active; deleting fails when the name does not exist.   *)
(* Left out: the objects of the network decorators, whose calls only       *)
(* succeed or fail here, and the snapshot of the monitor helper, which     *)
(* StatusReporting models.                                                 *)
(***************************************************************************)
EXTENDS Integers, FiniteSets, Sequences, NalejStatus

CONSTANTS
  Fragment,         \* the fragment of the request
  App,              \* its application instance
  ServiceInstances, \* the services of the fragment
  NumStages,        \* its stages are 1 .. NumStages
  StageOf,          \* the stage a service belongs to
  Objects,          \* the names of the Kubernetes objects of the fragment
  ServiceOf,        \* the service an object belongs to
  KindOf,           \* the deployable an object belongs to
  Policy,           \* the rollback policy of the request
  MaxStageRetries,  \* attempts under LIMITED_RETRY (3 in the code)
  MaxEventRetries,  \* maxRetries of the dispatcher (5 in the code)
  WithUndeploy      \* whether an undeploy request may arrive

DeployOrder == <<"Secret", "Configmap", "Storage", "Deployment", "Service",
                 "DeviceGroup", "Ingress", "LoadBalancer">>

\* The load balancers are not undeployed, and the storage is twice.
UndeployOrder == <<"Deployment", "Service", "DeviceGroup", "Ingress",
                   "Configmap", "Secret", "Storage", "Storage">>

\* The deployables whose objects reach an entry of the registry.  A plain
\* service has no fragment label: registering it finds no entry, and its
\* events fail, are retried and are given up without any effect.
MonitoredKinds == {"Deployment", "DeviceGroup", "Ingress", "LoadBalancer"}

Policies == {"NONE", "ALWAYS_RETRY", "LIMITED_RETRY"}

ASSUME StagesAssumption ==
  /\ NumStages \in Nat /\ MaxStageRetries \in Nat /\ MaxEventRetries \in Nat
  /\ IsFiniteSet(ServiceInstances) /\ StageOf \in [ServiceInstances -> 1 .. NumStages]
  /\ ServiceOf \in [Objects -> ServiceInstances]
  /\ KindOf \in [Objects -> {DeployOrder[i] : i \in DOMAIN DeployOrder}]
  /\ Policy \in Policies
  /\ WithUndeploy \in BOOLEAN

\* deploymentLoopStage's maxRetries: NoRetries, UnlimitedStageRetries or
\* MaxStageRetries.
MaxRetries == CASE Policy = "NONE" -> 1
                [] Policy = "ALWAYS_RETRY" -> -1
                [] Policy = "LIMITED_RETRY" -> MaxStageRetries

VARIABLES
  monitoredEntries, \* the registry
  pc,               \* where the goroutine of the request is
  stage,            \* the stage it is deploying
  unlisted,         \* services of the stage that its deployable does not hold
  retries,          \* the loop counter of deploymentLoopStage
  left,             \* what Deploy or Undeploy still has to do, with its order
  fresh,            \* the object just created and not yet registered
  scanned,          \* the services read in this check -> found RUNNING?
  namespace,        \* "absent", "active" or "terminating"
  objects,          \* the informer's store: object -> its last known state
  created,          \* how often an object has been created
  events,           \* the dispatcher's queue: object and type -> requeues
  undeployed,       \* how far an undeploy request has got
  passed,           \* history: services found RUNNING by a successful check
  refused,          \* history: the cleanup could not delete the namespace
  dropped           \* history: uids whose last event was given up

goroutineVars == <<pc, stage, unlisted, retries, left, fresh, scanned>>
clusterVars == <<namespace, objects, created, events>>
historyVars == <<passed, refused, dropped>>
vars == <<monitoredEntries, goroutineVars, clusterVars, undeployed, historyVars>>

\* A bound on the creations of one object, with room for one creation more
\* than any policy allows.
MaxCreations == MaxStageRetries + 1

\* The n-th creation of object o has a uid of its own.
Uids == Objects \X (1 .. MaxCreations)

Registry == INSTANCE MonitoredInstances WITH
  Fragments <- {Fragment},
  Apps <- {App},
  AppOf <- [f \in {Fragment} |-> App],
  FragmentLabel <- [uid \in Uids |-> Fragment],
  ServiceLabel <- [uid \in Uids |-> ServiceOf[uid[1]]],
  Deployments <- {uid \in Uids : KindOf[uid[1]] = "Deployment"},
  Announcing <- {uid \in Uids : KindOf[uid[1]] \in {"DeviceGroup", "Ingress", "LoadBalancer"}}

Uid(o) == <<o, created[o]>>

\* The name is taken, by an object in use or by one being finalized.
Exists(o) == o \in DOMAIN objects /\ objects[o].life # "deleted"

StageServices(n) == {s \in ServiceInstances : StageOf[s] = n}

StageObjects == {o \in Objects : ServiceOf[o] \in StageServices(stage)}

----------------------------------------------------------------------------
(***************************************************************************)
(* The cluster.  An event is queued under the key and the type; the object *)
(* is fetched from the informer's store when the event is dispatched, or   *)
(* from the store of deleted objects, which keeps its last state.          *)
(***************************************************************************)
Enqueue(o, type) ==
  IF KindOf[o] \notin MonitoredKinds \/ <<o, type>> \in DOMAIN events THEN events
  ELSE Registry!Put(events, <<o, type>>, 0)

\* A new deployment has no conditions, a new load balancer no address; plain
\* services and ingresses are ready at once.
StatusAtCreation(o) ==
  CASE KindOf[o] = "Deployment" -> KubernetesDeploymentStatusTranslation(<< >>)
    [] KindOf[o] \in {"DeviceGroup", "LoadBalancer"} -> NALEJ_SERVICE_SCHEDULED
    [] OTHER -> NALEJ_SERVICE_RUNNING

\* What the controller can find out about an object that is in use.  Anything
\* but a deployment is ready, RUNNING, or not ready, and then not reported.
StatusesOf(o) ==
  CASE KindOf[o] = "Deployment" -> DeploymentStatuses
    [] KindOf[o] \in {"DeviceGroup", "LoadBalancer", "Ingress"} ->
         {NALEJ_SERVICE_SCHEDULED, NALEJ_SERVICE_RUNNING}
    [] OTHER -> {NALEJ_SERVICE_RUNNING}

ObjectChanges(o) ==
  /\ o \in DOMAIN objects /\ objects[o].life = "live"
  /\ \E status \in StatusesOf(o) \ {objects[o].status} :
       objects' = [objects EXCEPT ![o].status = status]
  /\ events' = Enqueue(o, "update")
  /\ UNCHANGED <<monitoredEntries, goroutineVars, namespace, created, undeployed, historyVars>>

\* A volume claim is gone once no pod uses it.
Finalized(o) ==
  /\ o \in DOMAIN objects /\ objects[o].life = "terminating"
  /\ objects' = [objects EXCEPT ![o].life = "deleted"]
  /\ UNCHANGED <<monitoredEntries, goroutineVars, namespace, created, events, undeployed, historyVars>>

\* A terminating namespace takes its objects along.
NamespaceGone ==
  /\ namespace = "terminating"
  /\ namespace' = "absent"
  /\ objects' = [o \in DOMAIN objects |-> [objects[o] EXCEPT !.life = "deleted"]]
  /\ UNCHANGED <<monitoredEntries, goroutineVars, created, events, undeployed, historyVars>>

\* A mutation of Dispatch: the error of the handler is not noticed.
DispatchWithoutRetry(o, type) ==
  /\ <<o, type>> \in DOMAIN events
  /\ IF KindOf[o] = "Deployment" THEN Registry!OnDeployment(Uid(o), objects[o].status)
     ELSE IF objects[o].status = NALEJ_SERVICE_RUNNING THEN Registry!OnServiceOrIngress(Uid(o))
     ELSE UNCHANGED monitoredEntries
  /\ events' = Registry!Delete(events, <<o, type>>)
  /\ dropped' = dropped \ {Uid(o)}
  /\ UNCHANGED <<goroutineVars, namespace, objects, created, undeployed, passed, refused>>

\* worker and dispatch: the handler's error is retried at most maxRetries times.
Dispatch(o, type) ==
  LET reported == \/ KindOf[o] = "Deployment"
                  \/ objects[o].status = NALEJ_SERVICE_RUNNING
      failed   == reported /\ ~Registry!MonitoredResource(Fragment, ServiceOf[o], Uid(o))
      requeues == events[<<o, type>>]
  IN /\ <<o, type>> \in DOMAIN events
     /\ IF KindOf[o] = "Deployment" THEN Registry!OnDeployment(Uid(o), objects[o].status)
        ELSE IF reported THEN Registry!OnServiceOrIngress(Uid(o))
        ELSE UNCHANGED monitoredEntries
     /\ events' = IF failed /\ requeues < MaxEventRetries
                  THEN [events EXCEPT ![<<o, type>>] = requeues + 1]
                  ELSE Registry!Delete(events, <<o, type>>)
     /\ dropped' = CASE ~failed -> dropped \ {Uid(o)}
                     [] failed /\ requeues < MaxEventRetries -> dropped
                     [] OTHER -> dropped \cup {Uid(o)}
     /\ UNCHANGED <<goroutineVars, namespace, objects, created, undeployed, passed, refused>>

----------------------------------------------------------------------------
(***************************************************************************)
(* processRequest.                                                         *)
(***************************************************************************)
Goto(label) == pc' = label

\* The deployables one after the other: the objects of the stage, each with
\* the position of its deployable.
Work(order) ==
  {w \in (DOMAIN order) \X (StageObjects \ unlisted) : KindOf[w[2]] = order[w[1]]}

\* A deployable starts when the one before it is done; within one the order
\* is that of a Go map or of the descriptor.
Due(w) == w \in left /\ \A v \in left : w[1] <= v[1]

\* GetApplicationNamespace and PrepareEnvironmentForDeployment.  A namespace
\* that exists is taken as it is, one being deleted too.  Asking for the
\* namespace may fail; so may creating it, or the registry's secret in it,
\* which leaves it behind.  The error is recorded in an entry that does not
\* exist yet, so it is not.
PrepareEnvironment ==
  /\ pc = "prepare"
  /\ \/ /\ namespace' = IF namespace = "absent" THEN "active" ELSE namespace
        /\ Goto("build")
        /\ UNCHANGED monitoredEntries
     \/ /\ Goto("aborted")
        /\ UNCHANGED <<monitoredEntries, namespace>>
     \/ /\ namespace = "absent"
        /\ namespace' \in {"absent", "active"}
        /\ Registry!SetEntryStatus(Fragment, FRAGMENT_ERROR)
        /\ Goto("aborted")
  /\ UNCHANGED <<stage, unlisted, retries, left, fresh, scanned,
                 objects, created, events, undeployed, historyVars>>

\* BuildNativeDeployable, and AddEntry for the services of the stage.  A service
\* for which Get does not answer NotFound at this moment is not in the list of
\* the deployable: it is neither deployed nor undeployed.
BuildStage ==
  /\ pc = "build"
  /\ \/ /\ unlisted' \in SUBSET {o \in StageObjects : KindOf[o] = "Service"}
        /\ Registry!AddEntry(Fragment, StageServices(stage))
        /\ retries' = 0
        /\ Goto("loop")
     \/ /\ Registry!SetEntryStatus(Fragment, FRAGMENT_ERROR)
        /\ Goto("aborted")
        /\ UNCHANGED <<unlisted, retries>>
  /\ UNCHANGED <<stage, left, fresh, scanned, clusterVars, undeployed, historyVars>>

\* A mutation of LoopStage: one attempt too many.
LoopStageOnceMore ==
  /\ pc = "loop"
  /\ IF retries <= MaxRetries
     THEN /\ Registry!SetEntryStatus(Fragment, FRAGMENT_DEPLOYING)
          /\ left' = Work(DeployOrder)
          /\ Goto("deploy")
     ELSE /\ Goto("cleanup")
          /\ UNCHANGED <<monitoredEntries, left>>
  /\ UNCHANGED <<stage, unlisted, retries, fresh, scanned, clusterVars, undeployed, historyVars>>

\* The head of the retry loop.
LoopStage ==
  /\ pc = "loop"
  /\ IF retries < MaxRetries
     THEN /\ Registry!SetEntryStatus(Fragment, FRAGMENT_DEPLOYING)
          /\ left' = Work(DeployOrder)
          /\ Goto("deploy")
     ELSE /\ Goto("cleanup")
          /\ UNCHANGED <<monitoredEntries, left>>
  /\ UNCHANGED <<stage, unlisted, retries, fresh, scanned, clusterVars, undeployed, historyVars>>

\* A mutation of Cleanup: the namespace is left to a later undeploy request.
CleanupWithoutNamespace ==
  /\ pc = "cleanup"
  /\ Registry!SetEntryStatus(Fragment, FRAGMENT_ERROR)
  /\ Goto("failed")
  /\ UNCHANGED <<stage, unlisted, retries, left, fresh, scanned, clusterVars, undeployed, historyVars>>

\* The stage failed for good: the namespace is deleted, errors are logged.
Cleanup ==
  /\ pc = "cleanup"
  /\ \/ /\ namespace' = IF namespace = "active" THEN "terminating" ELSE namespace
        /\ UNCHANGED refused
     \/ /\ refused' = TRUE
        /\ UNCHANGED namespace
  /\ Registry!SetEntryStatus(Fragment, FRAGMENT_ERROR)
  /\ Goto("failed")
  /\ UNCHANGED <<stage, unlisted, retries, left, fresh, scanned,
                 objects, created, events, undeployed, passed, dropped>>

----------------------------------------------------------------------------
(***************************************************************************)
(* DeployableKubernetesStage.Deploy.  Any error ends it, the fragment is   *)
(* RETRYING, and the goroutine goes on to wait all the same.               *)
(***************************************************************************)
CreateObject(w) ==
  LET o == w[2] IN
  /\ pc = "deploy" /\ Due(w)
  /\ namespace = "active" /\ ~Exists(o) /\ created[o] < MaxCreations
  /\ objects' = Registry!Put(objects, o, [status |-> StatusAtCreation(o), life |-> "live"])
  /\ created' = [created EXCEPT ![o] = @ + 1]
  /\ events' = Enqueue(o, "add")
  /\ left' = left \ {w}
  /\ IF KindOf[o] \in MonitoredKinds
     THEN fresh' = {o} /\ Goto("register")
     ELSE UNCHANGED <<fresh, pc>>
  /\ UNCHANGED <<monitoredEntries, stage, unlisted, retries, scanned,
                 namespace, undeployed, historyVars>>

\* A service is only created when Get answers NotFound; it is skipped when it
\* exists and also when Get fails.
SkipService(w) ==
  /\ pc = "deploy" /\ Due(w) /\ KindOf[w[2]] = "Service"
  /\ left' = left \ {w}
  /\ UNCHANGED <<monitoredEntries, pc, stage, unlisted, retries, fresh, scanned,
                 clusterVars, undeployed, historyVars>>

RegisterObject ==
  /\ pc = "register"
  /\ \E o \in fresh : Registry!AddMonitoredResource(Uid(o))
  /\ fresh' = {}
  /\ Goto("deploy")
  /\ UNCHANGED <<stage, unlisted, retries, left, scanned, clusterVars,
                 undeployed, historyVars>>

\* The API refuses to create an object, because its name exists, because the
\* namespace is being deleted or for a reason of its own; or the network
\* decorator fails, which Deploy calls after the deployments, the services
\* and the ingresses.  Nothing can fail after the load balancers.  The answer
\* may also be lost, and then the object is there but is not registered.
DeployFails ==
  /\ \/ pc = "deploy" /\ (left # {} \/ \A o \in StageObjects : KindOf[o] # "LoadBalancer")
     \/ pc = "register"
  /\ Registry!SetEntryStatus(Fragment, FRAGMENT_RETRYING)
  /\ left' = {} /\ fresh' = {}
  /\ Goto("wait")
  /\ UNCHANGED <<stage, unlisted, retries, scanned, clusterVars,
                 undeployed, historyVars>>

DeployDone ==
  /\ pc = "deploy" /\ left = {}
  /\ Goto("wait")
  /\ UNCHANGED <<monitoredEntries, stage, unlisted, retries, left, fresh, scanned,
                 clusterVars, undeployed, historyVars>>

----------------------------------------------------------------------------
(***************************************************************************)
(* WaitPendingChecks.  A tick starts UpdateAppStatus, which reads the      *)
(* services one at a time; the count is then stored and compared with 0.   *)
(***************************************************************************)
StageFails == left' = Work(UndeployOrder) /\ Goto("undeploy")

Tick ==
  /\ pc = "wait"
  /\ IF Registry!Monitored(Fragment)
     THEN scanned' = Registry!EmptyMap /\ Goto("scan") /\ UNCHANGED left
     ELSE StageFails /\ UNCHANGED scanned
  /\ UNCHANGED <<monitoredEntries, stage, unlisted, retries, fresh, clusterVars, undeployed, historyVars>>

\* A mutation of Timeout: every tick starts the timer again.
TimeoutRestarted ==
  /\ pc = "wait" /\ scanned = Registry!EmptyMap
  /\ StageFails
  /\ UNCHANGED <<monitoredEntries, stage, unlisted, retries, fresh, scanned,
                 clusterVars, undeployed, historyVars>>

Timeout ==
  /\ pc = "wait"
  /\ StageFails
  /\ UNCHANGED <<monitoredEntries, stage, unlisted, retries, fresh, scanned,
                 clusterVars, undeployed, historyVars>>

ReadService(s) ==
  /\ pc = "scan" /\ Registry!MonitoredService(Fragment, s) /\ s \notin DOMAIN scanned
  /\ scanned' = Registry!Put(scanned, s,
                  monitoredEntries[Fragment].services[s].status = NALEJ_SERVICE_RUNNING)
  /\ UNCHANGED <<monitoredEntries, pc, stage, unlisted, retries, left, fresh, clusterVars,
                 undeployed, historyVars>>

FoundRunning == {s \in DOMAIN scanned : scanned[s]}

\* A mutation of PendingFound: a service is pending while a check of its
\* resources is.
PendingFoundByChecks ==
  Cardinality({s \in DOMAIN scanned :
                 monitoredEntries[Fragment].services[s].numPendingChecks > 0})

PendingFound == Cardinality(DOMAIN scanned \ FoundRunning)

CheckPending ==
  /\ pc = "scan"
  /\ Registry!Monitored(Fragment) => DOMAIN monitoredEntries[Fragment].services \subseteq DOMAIN scanned
  /\ monitoredEntries' = IF Registry!Monitored(Fragment)
                         THEN [monitoredEntries EXCEPT ![Fragment].numPendingChecks = PendingFound]
                         ELSE monitoredEntries
  /\ CASE ~Registry!Monitored(Fragment) ->
            StageFails /\ UNCHANGED <<stage, passed>>
       [] Registry!Monitored(Fragment) /\ PendingFound > 0 ->
            Goto("wait") /\ UNCHANGED <<stage, left, passed>>
       [] Registry!Monitored(Fragment) /\ PendingFound = 0 ->
            /\ passed' = passed \cup FoundRunning
            /\ IF stage < NumStages THEN stage' = stage + 1 /\ Goto("build")
               ELSE Goto("done") /\ UNCHANGED stage
            /\ UNCHANGED left
  /\ UNCHANGED <<unlisted, retries, fresh, scanned, clusterVars, undeployed, refused, dropped>>

----------------------------------------------------------------------------
(***************************************************************************)
(* DeployableKubernetesStage.Undeploy.  Any error ends it and the loop.    *)
(***************************************************************************)
DeleteObject(w) ==
  LET o == w[2] IN
  /\ pc = "undeploy" /\ Due(w) /\ Exists(o)
  /\ objects' = [objects EXCEPT
       ![o].life = IF KindOf[o] = "Storage" THEN "terminating" ELSE "deleted"]
  /\ left' = left \ {w}
  /\ UNCHANGED <<monitoredEntries, pc, stage, unlisted, retries, fresh, scanned,
                 namespace, created, events, undeployed, historyVars>>

\* A mutation of UndeployFails: the error is logged and the loop goes on.
UndeployFailsRetrying ==
  /\ pc = "undeploy"
  /\ left # {} \/ \A o \in StageObjects : KindOf[o] \notin {"Configmap", "Secret", "Storage"}
  /\ left' = {}
  /\ retries' = retries + 1
  /\ Goto("loop")
  /\ UNCHANGED <<monitoredEntries, stage, unlisted, fresh, scanned,
                 clusterVars, undeployed, historyVars>>

\* The object to delete does not exist, or the API fails, or the network
\* decorator, which is called after the services and the ingresses.
UndeployFails ==
  /\ pc = "undeploy"
  /\ left # {} \/ \A o \in StageObjects : KindOf[o] \notin {"Configmap", "Secret", "Storage"}
  /\ left' = {}
  /\ Goto("cleanup")
  /\ UNCHANGED <<monitoredEntries, stage, unlisted, retries, fresh, scanned,
                 clusterVars, undeployed, historyVars>>

UndeployDone ==
  /\ pc = "undeploy" /\ left = {}
  /\ retries' = retries + 1
  /\ Goto("loop")
  /\ UNCHANGED <<monitoredEntries, stage, unlisted, left, fresh, scanned,
                 clusterVars, undeployed, historyVars>>

----------------------------------------------------------------------------
(***************************************************************************)
(* Manager.Undeploy: the namespace first, then the status of the entries;  *)
(* the monitor helper then removes the entry.                              *)
(***************************************************************************)
UndeployNamespace ==
  /\ WithUndeploy /\ undeployed = "no"
  /\ \/ namespace' = IF namespace = "active" THEN "terminating" ELSE namespace
     \/ UNCHANGED namespace
  /\ undeployed' = "namespace"
  /\ UNCHANGED <<monitoredEntries, goroutineVars, objects, created, events, historyVars>>

UndeployEntry ==
  /\ undeployed = "namespace"
  /\ Registry!SetAppStatus(App, FRAGMENT_TERMINATING)
  /\ undeployed' = "yes"
  /\ UNCHANGED <<goroutineVars, clusterVars, historyVars>>

RemoveTerminating ==
  /\ Registry!Monitored(Fragment)
  /\ monitoredEntries[Fragment].status = FRAGMENT_TERMINATING
  /\ Registry!RemoveEntry(Fragment)
  /\ UNCHANGED <<goroutineVars, clusterVars, undeployed, historyVars>>

----------------------------------------------------------------------------
Init ==
  /\ Registry!Init
  /\ pc = "prepare" /\ stage = 1 /\ unlisted = {} /\ retries = 0 /\ left = {} /\ fresh = {}
  /\ scanned = Registry!EmptyMap
  /\ namespace = "absent" /\ objects = Registry!EmptyMap /\ events = Registry!EmptyMap
  /\ created = [o \in Objects |-> 0]
  /\ undeployed = "no" /\ passed = {} /\ refused = FALSE /\ dropped = {}

\* The steps of the goroutine other than the timeout.
Process ==
  \/ PrepareEnvironment \/ BuildStage \/ LoopStage \/ Cleanup
  \/ \E w \in left : CreateObject(w) \/ SkipService(w) \/ DeleteObject(w)
  \/ RegisterObject \/ DeployFails \/ DeployDone
  \/ Tick \/ (\E s \in ServiceInstances : ReadService(s)) \/ CheckPending
  \/ UndeployFails \/ UndeployDone

Cluster ==
  \/ \E o \in Objects : ObjectChanges(o) \/ Finalized(o)
  \/ NamespaceGone

Dispatcher == \E o \in Objects, type \in {"add", "update"} : Dispatch(o, type)

UndeployRequest == UndeployNamespace \/ UndeployEntry

Terminated == pc \in {"done", "failed", "aborted"} /\ UNCHANGED vars

Next == Process \/ Timeout \/ Cluster \/ Dispatcher \/ UndeployRequest \/ RemoveTerminating
          \/ Terminated

(***************************************************************************)
(* The goroutine runs until it returns; the timer of WaitPendingChecks     *)
(* expires once and stays ready while ticks go on, so the timeout is taken *)
(* if the goroutine comes back to its select again and again; the worker   *)
(* drains the queue; a terminating namespace goes.                         *)
(***************************************************************************)
Fairness ==
  /\ WF_vars(Process) /\ SF_vars(Timeout)
  /\ WF_vars(Dispatcher) /\ WF_vars(NamespaceGone)

Spec == Init /\ [][Next]_vars /\ Fairness

----------------------------------------------------------------------------
(***************************************************************************)
(* Properties.                                                             *)
(***************************************************************************)

\* Stages are deployed in order: an object of a stage is created only after
\* one check of WaitPendingChecks has seen every service of the earlier
\* stages RUNNING, whatever the events, failures and retries in between.
StageOrder ==
  \A o \in Objects : created[o] > 0 =>
    \A s \in ServiceInstances : StageOf[s] < StageOf[ServiceOf[o]] => s \in passed

\* The rollback policy bounds the attempts: without rollback an object is
\* created once, and with limited retries never more often than their number.
RetriesBounded ==
  \A o \in Objects :
    /\ Policy = "NONE" => created[o] <= 1
    /\ Policy = "LIMITED_RETRY" => created[o] <= MaxStageRetries

\* "retry until done" (manager.go:206) and "-1 to retry indefinitely"
\* (manager.go:337): under ALWAYS_RETRY deploymentLoopStage never gives a stage
\* up for the number of its attempts.
RetriesUntilDone ==
  [][Policy = "ALWAYS_RETRY" /\ pc = "loop" => pc' # "cleanup"]_vars

\* A fragment that deploymentLoopStage gave up does not keep objects in the
\* cluster, unless the deletion of its namespace was refused.
FailedLeavesNothing ==
  (pc = "failed" /\ ~refused) ~> (\A o \in Objects : ~Exists(o))

\* processRequest returns, however the cluster behaves: no retry, no missing
\* event and no concurrent undeploy request keeps its goroutine for ever.
RequestReturns == <>(pc \in {"done", "failed", "aborted"})

\* When no event about an object is queued, the registry has the status that
\* the object has: events are deduplicated by key, are retried while the
\* object is not registered yet and read the object when they are dispatched,
\* and still none is missed, unless one was given up after maxRetries.
RegistryFollowsCluster ==
  \A o \in DOMAIN objects :
    /\ objects[o].life = "live"
    /\ Registry!MonitoredResource(Fragment, ServiceOf[o], Uid(o))
    /\ \A type \in {"add", "update"} : <<o, type>> \notin DOMAIN events
    /\ Uid(o) \notin dropped
    /\ KindOf[o] = "Deployment" \/ objects[o].status = NALEJ_SERVICE_RUNNING
    => monitoredEntries[Fragment].services[ServiceOf[o]].resources[Uid(o)] = objects[o].status

\* The error of a Deploy does not end its attempt, and a stage may pass without
\* some of its objects; but never when nothing that the registry hears of was
\* created for one of its services.
PassedMeansStarted ==
  [][pc = "scan" /\ pc' \in {"build", "done"} =>
       \A s \in StageServices(stage) : \E o \in StageObjects :
         ServiceOf[o] = s /\ created[o] > 0 /\ KindOf[o] \in MonitoredKinds]_vars

\* A retry meets nothing of the former attempt, except the load balancers,
\* which Undeploy leaves, and storage that is still being deleted.
RetryMeetsOnlyBalancers ==
  pc = "loop" /\ retries > 0 =>
    \A o \in StageObjects : Exists(o) =>
      KindOf[o] = "LoadBalancer" \/ objects[o].life = "terminating"
============================================================================
