# A TLA+ model of the deployment manager

The deployment manager runs inside an application cluster of the Nalej platform.
Conductor, in the management cluster, sends it deployment fragments; it turns the
stages of a fragment into Kubernetes objects, follows the state of these objects
through the events of the cluster, retries or rolls back, and reports statuses and
endpoints back to conductor.  It also undeploys applications, joins their pods to
networks, decorates their objects for ZeroTier or Istio, and counts what the cluster
does for the metrics of the platform.

Paths in this file are relative to the repository.

## 1. Inventory

| part | code | state it keeps | operations | concurrency and failure | what makes it correct |
|---|---|---|---|---|---|
| requests queue | `internal/structures/requests_queue.go`, `Manager.Run`, `Handler.Execute` | a slice under a mutex | push, `AvailableRequests`, pop | gRPC calls push while `Run` polls; the check and the pop are two critical sections | nothing lost, doubled, overtaken; never popped when empty |
| deployment manager | `pkg/handler/manager.go` | one goroutine per request | `processRequest`, `deploymentLoopStage`, `Undeploy`, `UndeployFragment`, the expiry of logs | every call of Kubernetes or of the registry interleaves with events, with other fragments and with undeploy requests | stages in order, bounded retries, the goroutine returns, a failed fragment leaves nothing behind, an undeployed application stays undeployed, failures reach the registry |
| stage deployable | `pkg/kubernetes/kubernetes_deployable.go` and one file per kind | the objects it created | `Build`, `Deploy`, `Undeploy` | each API call may fail half-way through | a stage is created in the order of kinds; it can be undone and tried again |
| executor, namespaces | `pkg/kubernetes/kubernetes_executor.go`, `kubernetes_namespace.go` | none; the cluster's namespaces | `PrepareEnvironmentForDeployment`, `UndeployNamespace`, `UndeployFragment` | namespaces terminate asynchronously and are shared by the fragments of an application | no preparation, failure or undeployment of one fragment deletes what another has deployed |
| event dispatcher | `pkg/kubernetes/events/dispatcher.go` | a work queue with retries, a store of deleted objects | `OnAdd/OnUpdate/OnDelete`, `dispatch`, `fetchObj` | events are merged by key, fetched late, retried at most five times; a failed type assertion ends the process | the registry and the counters end up with what the cluster has |
| provider, watchers | `pkg/kubernetes/events/provider.go`, `watcher.go` | informers | `Start` | delivery begins before the dispatcher's worker | every event is delivered, also across a restart |
| kubernetes controller | `pkg/kubernetes/kubernetes_controller.go` | none | `OnDeployment`, `OnService`, `OnIngress`, `AddMonitoredResource` | runs in the dispatcher's worker | a status is translated and filed under the right service |
| registry of monitored instances | `internal/structures/monitor/memory_monitored_services.go`, `internal/entities/monitor.go` | fragment → services → resources, with statuses, flags and counters | `AddEntry`, `SetEntryStatus`, `SetAppStatus`, `AddPendingResource`, `SetResourceStatus`, `WaitPendingChecks`, `UpdateAppStatus`, `GetPendingNotifications`, `ResetServicesUnnotifiedStatus`, `RemoveEntry`, under one RW mutex | called by goroutines, gRPC calls, the dispatcher and the helper; two methods work outside the lock; lost at a restart | counters, endpoints and aggregated statuses agree with the resources |
| monitor helper | `pkg/monitor/monitor_helper.go` | none; pointers into the registry | `UpdateStatus` on a ticker | messages are lost; the registry changes between snapshot, messages and reset | every change is reported to conductor |
| statuses | `internal/entities/entities.go` | none | three translations | – | the worst status does not depend on the order of a map |
| metrics collection | `pkg/metrics/*`, `pkg/kubernetes/metrics_translator.go` | counters per kind | translate events, export | deletions seen late, twice or as tombstones; a restart counts again | running = created − deleted agrees with the cluster |
| network manager and updater | `pkg/network/*` | none; the cluster's pods | join, leave, set route, register, authorize | a goroutine per join; pods come and go and addresses are reused while messages are sent; retries | a message reaches the pods it was meant for, in order, and each request ends |
| login helper, proxy | `pkg/login-helper/*`, `pkg/proxy/*` | a token under a mutex, read without it | `Login`, `RerunAuthentication`, `GetContext`, calls that are repeated after `Unauthenticated` | concurrent callers of one token that expires | a call is processed once; a new login is used |
| offline policy | `pkg/offline-policy/*` | none | delete all namespaces | races with deployments | – |
| network decorators | `pkg/decorators/network/*` | none; objects in memory and shared objects in the cluster | `Build`, `Deploy`, `Undeploy` around a deployable | fragments read and write the same Service and VirtualService; a retry decorates again | routes have ports; a retry can succeed (with ZeroTier it hardly can, see section 3) |
| configuration, wiring, commands, naming | `pkg/config`, `pkg/service`, `cmd`, `pkg/common`, `pkg/utils` | none | start-up and formatting | – | not modelled: no state |

How they interact: `Execute` → queue → `Run` → `processRequest` (a goroutine)
→ executor, deployables and decorators → Kubernetes API; Kubernetes events →
dispatcher → controller → registry, and → metrics translator → collector;
`processRequest` and the deployables → registry (entries, pending resources, statuses)
and ← registry (`WaitPendingChecks`); monitor helper → registry (snapshot, removal,
reset) → login helper → conductor; `Undeploy`, `UndeployFragment` and the offline policy
→ executor and registry at any moment; join, leave and route requests → pods' sidecars.

## 2. Modules

```
NalejStatus            statuses, tables, worst status, deployment conditions
  MonitoredInstances   the registry and the controller's callbacks
    StatusReporting    the registry (EXTENDS) + the monitor helper + conductor
      StatusReporting_proofs   the registry's theorems first, then the helper's
  StageDeployment      one fragment: goroutine + deployables + cluster + dispatcher +
                       undeploy, with the registry as an INSTANCE of MonitoredInstances
    StageDeployment_proofs
  AppUndeployment      the fragments of an application in one namespace, every request
                       that deletes it, the offline policy and restarts
    AppUndeployment_proofs
AcceptedRequests       what Handler.Execute promises (abstract)
  RequestsQueue        queue + Run, implements AcceptedRequests
    RequestsQueue_proofs
EventMetrics           informers + dispatcher + metrics translator + collector
  EventMetrics_proofs
NetworkUpdates         join, leave and route requests and the pods
  NetworkUpdates_proofs
AuthenticatedCalls     the login helper and every caller of the cluster API
  AuthenticatedCalls_proofs
NetworkDecorators      ZeroTier and Istio beside the loop of a stage
  NetworkDecorators_proofs
```

`MC*.tla` give the constants that a configuration cannot write (functions).
`MCMonitoredInstances` also compares the loops of `SetResourceStatus`, over each order
of the registry's maps, with the operator the registry's actions use.  Definitions whose
comment begins with "A mutation of" are plausible bugs of the definition that follows;
the specifications do not use them.  Each property is checked to fail when the mutated
form is put in.

**NalejStatus.**  Statuses are the iota values of the code, because the code compares
them with `<`.  `WorstStatusLoop` is the loop of `SetResourceStatus` over a sequence;
`WorstStatus` is what it computes of the set, and is what the other modules use.

**MonitoredInstances.**  `monitoredEntries` is the Go map.  A method is one action
because it runs under the mutex.  `UpdateAppStatus` is called without it and reads the
services one at a time: it stores the number of some set of services, whichever were
found not to be RUNNING when each was read (`StageDeployment` has the reads).  `Put` and `Delete` are map assignment and `delete`;
a method called for something unknown only logs and so leaves the registry alone.
A service is a record of status, flag, counter, resources (uid → status) and the list
of endpoints.  `Next` lets every caller call at any time, with the arguments the code
can pass: the deployment loop sets only the four `LoopStatuses`, events report only
what the controller translates, services and ingresses are only reported when they
are ready.  `TotalServices`, `Resource.Pending` and the texts are written and never
read, and are left out.

**StatusReporting.**  A round of `UpdateStatus` in its real steps:
`GetPendingNotifications` under the read lock takes a snapshot of *pointers*; the
deferred `RemoveEntry` calls follow one by one, each under its own lock; then for each
fragment the services and the fragment's status are sent, read through the pointers
at that moment; then the flags of everything are reset.  Between any two steps `Call`
runs any method of the registry.  A removed entry that the snapshot points to is kept
in `detached`.  Conductor is two maps of what it was last told.  A message is
delivered or not (`Lossy`); logging in again is in `AuthenticatedCalls`.

**StageDeployment.**  One fragment and its goroutine, step by step: prepare the
environment, build, the retry loop, each creation and each registration (two steps:
an event may come between them), the wait with its ticks, the check that reads the
services one by one without a lock, the timeout, each deletion of a rollback, the
cleanup that deletes the namespace.  The Kubernetes API is external and modelled from
its use.  An object has a state, a life and a number of creations; its uid is its name
with that number, so a recreated object is a different resource.  A creation may be
carried out and its answer be lost: the object is there and is not registered.  A service
that `Build` found already there, or could not ask for, is `unlisted`: the deployable
neither creates nor deletes it.  The dispatcher's
queue holds a key and a type with the number of requeues; an event reads the object
when it is dispatched.  `left` holds what `Deploy` or `Undeploy` still has to do,
with the place of its kind in the order; within a kind the order is free, as the code
walks over maps.

**AppUndeployment.**  The namespace of an application has one name, so its fragments
share it.  `Run` starts a goroutine for every request, so the goroutines of two requests
may run for one fragment at the same time; `target` says which fragment a request is for.
A goroutine takes one step per call of the API or of the registry (look for the namespace,
create it, create the secret, build, deploy and wait, clean up); a whole stage is one step.
Any error of looking for the namespace is taken for its absence, and a creation whose
answer was lost has been made.  `Undeploy` deletes the namespace, sets the status of every
fragment, waits until it is told that the namespace has gone (or cannot be asked for) and
then, in a step of its own, calls the expiry of the logs; what that call does is in another
service.  `UndeployFragment` sets one status, asks `GetAppStatus`, which answers for any
fragment, and deletes the namespace; `RemoveAll` deletes it without a word to the registry;
`Restart` empties memory and leaves the cluster.  History variables tell which requests had
their fragment set or found TERMINATING (`terminated`), whether a failed stage deleted the
namespace (`failedStage`), and whether it was deleted while no request was on its way to
create it (`closed`).

**RequestsQueue, AcceptedRequests.**  `Run` is its three steps: the tick, the test of
the length, the pop.  A request is started when its goroutine is.  The abstract
specification has the accepted requests and how many of them have been started.

**EventMetrics.**  An informer has a store per kind and a queue of notifications it has
still to deliver: the store runs ahead of them.  The dispatcher's handlers turn a
notification into an entry of the work queue and, for a deletion, into an object in the
store of deleted objects, whose key has no kind.  The worker takes an entry, fetches the
object from the store or else among the deleted ones, and calls the translator, whose
type assertions may panic; a panic ends the process, which starts again with the objects
that exist.  The collector counts created, deleted, running and warnings.

**NetworkUpdates.**  A request reads the namespace, lists the addresses of its pods once
and sends one message at a time, with its attempts; the first pod that does not answer
ends it.  `ServicePods` are the pods that the labels of the request select: a route also
selects by service group and leaves the proxies out, joins and leaves do not.  Pods start,
end and are given free addresses between any two steps.  A pod
remembers whether it has joined and its last route; history variables tell the requests
that ran beside another (`overlapped`) and the pods that were given the address of a
listed one (`heirs`).

**AuthenticatedCalls.**  Tokens are numbered.  A call reads a context, is served, refused
or fails before or after it was processed; a refused one goes through
`RerunAuthentication` (the mutex, up to `MaxAuthRetries` logins) and is repeated once.
`Hiding` are the calls of `AuthorizeZTConnection`, which answers with success to errors.

**NetworkDecorators.**  Each fragment deploys a stage with one service.  For ZeroTier,
`builds` counts how often its decorator has appended a sidecar and an agent; for Istio, a
fragment gets, creates or updates the Service and the VirtualService of a rule, which
carry versions.  Every call that changes the cluster may fail, before or after it was
carried out.

## 3. Runs

| run | what it asks | instance |
|---|---|---|
| `registry` | counters, endpoints and statuses of the registry are exact; the status loops do not depend on the order of a map | 1 fragment, 2 services, 4 objects: three deployments and an ingress with an endpoint |
| `reporting` | the helper only loses an update to a race or a lost message, and a fragment status only to an event; what it removed was reported as terminating; terminating entries leave | 1 fragment, 1 service, 1 deployment, lossy messages |
| `stages` | order of stages, bounded retries, the registry follows the cluster, a retry meets no object but load balancers, a stage that passes was started; the goroutine returns; a failed fragment leaves nothing | 2 stages: a load balancer and storage, then a plain service; 2 attempts, 1 requeue, an undeploy request |
| `queue` | nothing lost, doubled, overtaken; the pop finds a request; implements `AcceptedRequests` with its liveness | 2 valid requests and an invalid one, 5 acceptances |
| `app` | what one fragment, request or restart may do to the namespace and the entries of the others | 2 fragments of 2 stages, 2 requests for any of them, 2 `Undeploy`, 2 deletions in all, 1 restart |
| `events` | the running gauge agrees with the cluster once events are handled, warnings are not counted too often, an object is missing only while its deletion is undelivered, every event is handled | a deployment and a service of one name, an Event about the deployment, 1 retry, 3 changes |
| `network` | a request leaves no listed pod out; only pods that were meant are members, apart from reused addresses; every request ends | a join, a leave and a route; 2 pods, a proxy, a foreign pod, 3 addresses, 2 attempts, 2 changes |
| `login` | a call is processed once; a refused token is not used again after a login; every call ends | 2 calls, 3 logins each, 3 expirations |
| `decorators` | an Istio retry is not refused for what an earlier attempt left; a route has a port | 2 fragments with different ports, one of them exposing, 2 attempts, both networks |

Bounds.  `MaxAccepted` caps the acceptances; `MaxStageRetries` stands for the 3
attempts of LIMITED_RETRY (2 is the least number for which "retry" and "give up after
a retry" both happen); `MaxEventRetries` and `MaxRetries` for the dispatcher's 5 (1 lets
an event be requeued and then succeed or be dropped; 0 drops it at once);
`MaxCreations` leaves room for one creation more than the policy allows, so that
`RetriesBounded` can fail.  Two requests let a fragment be requested again while the first
goroutine still runs or after it failed or was undeployed, and two fragments meet in one
namespace; `MaxDeletions` = 2 lets a namespace be created again and
deleted again, `MaxRestarts` = 1 lets a restart fall between any two steps.
`MaxChanges` of `EventMetrics` = 3 is the least for an add, a delete and an add of one
name; that of `NetworkUpdates` = 2 the least for a pod to end and its address to be
given away.  `MaxExpirations` = 3 lets a token expire before, between and after two
logins; `MaxAuthRetries` = 3 stands for the 10
logins of the code: one that succeeds, one that fails and one more.  Two services are enough for a
service to differ from the rest, two objects of a service for a status to be the worse
of two; uids are never reused.  `app` uses the symmetry of its fragments, of its requests
and of its `Undeploy` requests, with invariants and an action property only.  In `stages`
the plain service of the second stage is never monitored, as in the code, so TLC does not
see the second stage pass or the goroutine come to `done`, and no object is a deployment,
whose many statuses `registry` has: with an undeploy request and liveness a larger
instance takes too long.  It has the kinds that are treated in a way of their own (load
balancers are not undeployed, storage is finalized, services are skipped) and both ends of
a stage.  The theorems of section 4, which have no such limits, remove the bounds for every
invariant and action property of the passing runs but `WorstStatusIgnoresOrder`.

Fairness.  `WF(Run)`: the loop sleeps and polls for ever.  `WF(UpdateStatus)`: the
ticker of the helper, and gRPC calls have deadlines.  `WF(Process)`: the goroutine
runs until it returns; in `AppUndeployment`, `NetworkUpdates` and `AuthenticatedCalls`
there is one condition for all goroutines, which end, so that some goroutine that can
step does.  `SF(Timeout)`: the timer of `WaitPendingChecks` stays ready once it has
expired, and Go's `select` chooses at random among ready cases, so coming back to the
select for ever takes it in the end; weak fairness would not do, as the step is disabled
while services are being read.  `WF(Dispatcher)`, and in `EventMetrics` weak fairness of
the delivery, the start, the worker, the delayed requeue and the restart of the process:
the worker drains its queue, client-go delivers, and Kubernetes restarts a pod that
stopped.  `WF(NamespaceGone)`: Kubernetes finishes deleting a namespace.  No fairness is
assumed of the changes of objects, of pods, of undeploy requests or of successful calls.

Deadlock is checked in `registry`, `reporting`, `stages` and `queue`; a
goroutine that has returned may stutter (`Terminated`).  In the others everything may
come to its end: each request or call has been processed, and the changes of the cluster
are bounded.

### Where code and comments disagree

Each of these runs checks a sentence of the repository and is violated by a behaviour
of the model; the sentence is quoted in the comment of the property.

| run | property | behaviour |
|---|---|---|
| `events_old` | `MissingOldObjectIsOk` | an Event is updated and leaves the store before its update is dispatched; its old object is nil, the type assertion of `OnEvent` panics and the process stops |
| `always_retry` | `RetriesUntilDone` | under ALWAYS_RETRY the loop compares `retries < -1`, which is false at once: the stage is given up before its first attempt, and its namespace is deleted |
| `app_fragment` | `NamespaceOutlivesFragments` | `UndeployFragment` of one fragment sets it to TERMINATING, `GetAppStatus` answers with that status for the whole application, and the namespace is deleted under the other fragment |

### Other behaviours of the models

These are behaviours of the code that the properties allow for; no run is kept for them.

* Reporting: a status that changes after its message was built and before the flags are
  reset is not reported; an event changes the status of a fragment and raises no flag; an
  entry that is given another status, or services of a repeated request, between the read
  lock of `GetPendingNotifications` and its removal is removed all the same; an entry without services is never collected,
  so its status is not reported, and its flag is cleared by a round about other fragments.
* Stages: the check counts services, so a stage passes with a resource pending that was
  added after its service was RUNNING; the error of `Deploy` is only logged, so a stage
  deployed in part may pass; load balancers are not undeployed before a retry and the
  storage is, twice; `Undeploy` of a stage that was deployed in part stops at the first
  object that was never created; the resources of a failed attempt stay pending under
  uids that are gone, so a retry runs into its timeout; an object whose creation was
  answered with an error may be there, and is not registered; a service that `Build` left
  out of its list stays in the cluster until the namespace goes.
* Applications: two goroutines that prepare the namespace at the same time race for its
  secret, and the second is aborted; a repeated request reuses an entry that is
  TERMINATING, which the helper then removes; an event may revive a TERMINATING entry, and
  may overwrite an entry's ERROR before the helper has reported it; a failure before
  `AddEntry` is not reported; a request may enter a namespace that is being deleted.
  The expiry of the logs follows a check that is no longer true when the namespace was
  created again meanwhile, and an error while listing namespaces counts as their absence,
  although the message logged then says that the logs cannot be expired.
  After a restart the registry is empty and `UndeployFragment` is refused.
* Events: tombstones are dropped, the objects they name stay counted; the store of
  deleted objects is keyed without the kind, so an event may be handled with an object of
  another kind, whose assertion panics; deleted objects never leave the store.
* Network: a leave may overtake the join it follows; an address may be reused by a pod of
  another application before the message is sent; a pod with no address ends the request;
  the attempts of a message share one deadline.
* Calls: `AuthorizeZTConnection` answers with success to every error but
  `Unauthenticated`.
* Decorators: `DeployableDeployments.Deploy` ends with the decorator's `Build` where its
  `Deploy` seems to be meant.  Under ZeroTier that leaves two sidecars of one name in the
  deployment, which the API refuses, and every agent twice in the list, of which the second
  is refused.  So a retry after a `Deploy` that came that far cannot deploy, although the
  policy reads "retry limited times" (`manager.go:209`): the attempt either waits for the
  status of the first attempt's deployment or fails.  Only when `Deploy` stopped before its
  end, as when the answer to a creation was lost, may the next attempt be accepted.  Under
  Istio the second `Build` changes nothing, and `IstioRetriesAreAccepted` says so.  A
  Service whose creation is lost to another fragment is only logged, and its port is routed
  to and not served.

## 4. Proofs

`StatusReporting_proofs` begins with the registry alone.  It proves, for any fragments, services, objects, labels and
applications that satisfy `LabelsAssumption` (the labels are functions, Announcing
objects are not deployments), that the registry always satisfies `TypeOK`,
`PendingChecksExact`, `EndpointsOnce`, `StatusSound`, `DoneSound` and `ChecksBounded`.
The inductive invariant `RegistryInv` says of every service that it has its type, that
its counter is exact, that its endpoints are unique and come from RUNNING objects, that
its status is sound, and two things more, without which it is not inductive:

* objects that are not deployments are only ever SCHEDULED or RUNNING
  (`ServiceKindsOK`).  An endpoint is appended by an event that changes the status of
  its object; if such an object could leave RUNNING it could come back and append again;
* no resource is ever WAITING or TERMINATING (`ServiceResourcesOK`).  TERMINATING is
  above RUNNING in the order of the statuses, so the worst status of a RUNNING and a
  TERMINATING resource is RUNNING, and `StatusSound` would fail.

The proof goes level by level: each operator that makes a service out of a service
keeps `ServiceInv` (`NewServiceInv`, `PendingResourceInv`, `ResourceStatusInv`,
`FlaggedInv`), each operator on entries keeps `EntryInv`, each method keeps
`RegistryInv`.  `WorstStatusFacts` carries the argument about the aggregation;
`ChecksDeltaExact` the one about the counter (one resource leaves or joins the ones
waited for); `EndpointsStayOnce` the one about the endpoints.

`RequestsQueue_proofs` proves `QueueOK` and `NextRequestFindsOne`, from the invariant
that what was accepted is what was started followed by what is queued, and that the
loop is about to pop only when the queue is not empty (only `Run` pops, so a push in
between does no harm).  `QueueImplementsPromise` is the refinement: every step of the
queue is an acceptance, the start of the next accepted request, or invisible in
`AcceptedRequests`.

`AuthenticatedCalls_proofs` proves `TypeOK`, `ServedOnce` and
`RefusedTwiceOnlyIfExpired` for any set of calls, any number of logins and expirations.
`CallsInv` adds to them what makes them inductive: the credentials are the last token
that was issued (`TokensOK`), the one that logs in holds the mutex and has a login left
(`LoginsOK`), a call that has not ended has not been processed (`ProcessedOK`; a refused
call was not), and the token that a renewed call was refused with is older than the
credentials and than the context it reads next (`RenewedOK`: tokens are only ever
replaced by newer ones, so the logins of other calls do no harm).

`NetworkDecorators_proofs` proves `RoutesHavePorts` for any fragments and ports.
`RoutesInv` adds that a goroutine that has come to the VirtualService has its port in the
Service, or failed to create it (`ReachedRoutes`), and that what a goroutine has read is
an older version of the object with fewer ports or the object itself (`FoundOK`), so that
an update that the API accepts drops no port.

It also proves `IstioRetriesAreAccepted`, from `IstioInv`: with Istio the list of
deployments stays at one, and an attempt begins, or goes on past its first deletion, only
when that deployment is not there (`StartsClean`).  Nothing is proved about the retries of
ZeroTier, which are what section 3 says.

Of the helper, `StatusReporting_proofs` first shows that its steps are removals, resets or
nothing to the registry (`ReportingKeepsRegistry`), so everything proved of
`MonitoredInstances` holds here and may be used.  `HelperInv` then carries the properties
together:

* no dangling pointer (`ReportTypeOK`, `SnapshotOK`, used by the others only): a service that
  the snapshot points to is in its entry or in `detached`, since services are only ever added
  to an entry and an entry only leaves through `RemoveTerminating`;
* `OnlyRacesLoseUpdates`: between rounds a service is flagged, known to conductor or
  raced; during a round it is known, raced, or in the snapshot and still to be sent
  (`ServiceHeard`).  The flags alone are not inductive, for `Reset` clears them all.  The
  one caller that changes statuses and raises no flag of its own is `SetAppStatus`;
  `ServiceTerminated` says why services added to a TERMINATING entry are not lost by it;
* `OnlyEventsHideFragments`: a fragment is flagged or known while nothing is to be sent,
  and during a round the snapshot holds its very status (`FragmentHeard`).

`GoneWasTold` rests on `RemovalsOK` beside them: of a fragment that is to be removed or has
gone, the snapshot holds the status TERMINATING, or that is what conductor last heard, or it
is one of the exceptions (`Told`).  It holds at the snapshot because an entry that is
TERMINATING with its flags down is known to conductor (`FragmentHeard`), and no call can
disturb it since no call takes a fragment out of the snapshot.

`StageDeployment_proofs` proves the five invariants and action properties of the run `stages`, for any
stages, services, objects, policies and numbers of attempts, from the conjunction
`StageInv` of

* `AttemptsOK`: an object has been created at most once per attempt, where what an attempt
  has `left` to do has been created once less, and a service that is `unlisted` never
  (`RetriesBounded`);
* `RegistryOK`: the resources of an entry are uids of objects that were created, filed under
  their own service, and a RUNNING service has one;
* `ChecksOK`: a service that a check found RUNNING had an object created, and the services
  of the stages before the present one have all been found RUNNING by one check
  (`StageOrder`, `PassedMeansStarted`);
* `EventsOK`: an object with nothing queued, nothing given up and a status to report is what
  the registry says of it (`RegistryFollowsCluster`).  Inductive only with the objects that
  are created and not yet registered (`fresh`): an event that finds no entry is requeued;
* `LeftoversOK`: while it undeploys, an attempt still has in `left` whatever is neither a
  load balancer nor terminating (`RetryMeetsOnlyBalancers`).

`StagesImplementRegistry` shows that all of this uses the registry as
`MonitoredInstances!Next` says its callers do: events carry only statuses a deployment can
have, and the count that an unlocked check stores is that of a set of services of the
entry (`CallsOK`).  The theorems about the registry therefore hold in a deployment.

`AppUndeployment_proofs` proves the properties of the run `app` for any number of fragments,
requests, stages, deletions and restarts.  Each has an invariant of its own over the types
of the control state (`AppTypes`): no goroutine or request is on its way to
`CreateNamespace` while `closed` (`ClosedOK`); as long as nobody undeploys
or fails, the namespace of a request that has prepared it is active (`QuietOK`); a
registered request whose fragment was not terminated has its entry, and while an entry is
TERMINATING every request of its fragment is marked (`HeardOK`).  `FailureHeard` is about
the step that writes the ERROR: what conductor is told depends on the events until the next
round.

`NetworkUpdates_proofs` proves `ReachedSoFar` and `MembersWereMeant` for any requests, pods,
addresses and attempts, with finitely many pods of a service.  `NetworkInv` adds to them that
two running pods have two addresses (`PodsOK`), that an address a request has listed belongs
to the listed pod or to an heir of it (`TargetsOK`), and that two requests that send at the
same time are both recorded as overlapped (`ProgressOK`).

`StatusReporting_proofs` also states what `OnDeployment` computes of the conditions and
replicas of a deployment (`DeploymentStatusFacts`): the statuses with which events reach the
registry in `MonitoredInstances` are all it can be told.

`EventMetrics_proofs` proves the two invariants and the action property of the run `events`
for any objects, any number of changes, retries and restarts, from the types of the stores
and the queue (`MetricsTypeOK`, `NoCopies`) and three invariants:

* `DeletionsOK`, for `MissingOnlyWhileUndelivered`: as long as anything of an object that
  has gone is notified or waits, the dispatcher has its last state, or its deletion is
  still among the notifications, or it is lost (`GoneIsTold`); and a second add of an object
  comes behind its deletion (`AddsApart`, `OneAdd`).  The second part is what keeps two adds
  of one object from being merged unseen;
* `BalanceOK`, for `GaugeFollowsCluster`: of each metric none of whose objects is lost, what
  has been counted as running plus the adds under way is the number of objects in the synced
  stores plus the deletions and tombstones under way.  An event is under way in a list of
  notifications, in the work queue, with the worker (twice, if it was queued again
  meanwhile) or delayed; every step moves one event between two of these places or takes
  one from both sides.  The lemmas count the places of a sequence at which an event of a set
  of objects stands, when one is appended or taken from its head;
* `WarningsOK`, for `WarningsNotOvercounted`: the errors counted, the adds of recent Events
  under way and the one update that was overtaken together are at most the warnings raised.
  An add can be counted only once because the name of an Event is used once (`AddedOnce`),
  and an update is dispatched after the add of its object (`AddedFirst`; both are part of
  `OrderOK`).

Assumptions.  Besides the types and numbers of each module's constants, the proofs assume
that a fragment has finitely many services (`StagesAssumption`), a service finitely many
pods (`RequestsAssumption`), that finitely many objects exist at the start and the key of an
object is unique within its kind (`ObjectsAssumption`), and in the registry
`LabelsAssumption`.  They use no fairness.

What the proofs changed.  Three statements that held on the small instances could not be
proved, and were wrong or too weak of the code:

* an entry with no services is never collected, so `OnlyEventsHideFragments` had to name
  it (see section 3);
* `FragmentHeard` had to say that the snapshot holds the status of a fragment that was not
  raced, not only that the fragment is in it;
* with `UpdateAppStatus` as one atomic step the deployment did not implement the registry.

Only model-checked:

* liveness, which is out of the prover's reach: `TerminatingLeaves`, `RequestReturns`,
  `FailedLeavesNothing`, `EventsHandled`, `RequestsEnd`, `CallsEnd` and the fairness part
  of `PromiseKept`;
* `WorstStatusIgnoresOrder`: the equality of the loop `WorstStatusLoop`
  with `WorstStatus` is an induction over a sequence (`WorstStatusFacts` says of the
  set what the callers rely on).

## 5. Not modelled

* the contents of Kubernetes objects (specifications, environment variables, labels,
  storage classes, configuration files): data that no property tells apart;
* serving, parsing and printing the metrics: it only reads the counters;
* naming and variables (formatting), configuration, service wiring and commands: no state
  of their own;
* watchers' and informers' library code: its guarantees are in the external parts of
  `StageDeployment` and `EventMetrics`;
* methods without a caller: `RemovePendingResource`, `IsMonitoredResource`,
  `GetServicesUnnotifiedStatus`, `AuthenticatedGrpcCall`.
