------------------------ MODULE MonitoredInstances ------------------------
(***************************************************************************)
(* The registry of monitored fragments, MemoryMonitoredInstances in        *)
(* internal/structures/monitor/memory_monitored_services.go, with the      *)
(* entities it keeps (internal/entities/monitor.go) and the callbacks of   *)
(* the KubernetesController through which the cluster's events reach it.   *)
(*                                                                         *)
(* Every method runs under the registry's mutex, so each is one action.    *)
(* UpdateAppStatus, called with no lock, counts services each of which it  *)
(* has read at a moment of its own: its action stores any such count, and  *)
(* StageDeployment has its reads.  The removals of GetPendingNotifications *)
(* follow its unlock and are actions of StatusReporting.                   *)
(* A method called for something that is not monitored only logs: the      *)
(* action then leaves the registry alone.                                  *)
(*                                                                         *)
(* Left out: the texts (Info, names, descriptors), TotalServices and       *)
(* Resource.Pending, which are written and never read, and the methods no  *)
(* caller uses (RemovePendingResource, IsMonitoredResource,                *)
(* GetServicesUnnotifiedStatus).                                           *)
(***************************************************************************)
EXTENDS NalejStatus, Integers

CONSTANTS
  Fragments,         \* deployment fragment identifiers
  ServiceInstances,  \* service instance identifiers
  Uids,              \* Kubernetes uids, one per created object, never reused
  Apps,              \* application instance identifiers
  AppOf,             \* the application a fragment belongs to
  FragmentLabel,     \* the nalej-deployment-fragment label of an object
  ServiceLabel,      \* the nalej-service-instance-id label of an object
  Deployments,       \* the uids of objects of kind Deployment
  Announcing         \* the uids of services and ingresses with endpoints

ASSUME LabelsAssumption ==
  /\ AppOf \in [Fragments -> Apps]
  /\ FragmentLabel \in [Uids -> Fragments]
  /\ ServiceLabel \in [Uids -> ServiceInstances]
  /\ Deployments \subseteq Uids
  /\ Announcing \subseteq Uids \ Deployments

VARIABLE monitoredEntries   \* fragment id -> MonitoredAppEntry

----------------------------------------------------------------------------
(***************************************************************************)
(* Go maps are functions whose domain grows and shrinks.                   *)
(***************************************************************************)
EmptyMap == [k \in {} |-> {}]

Put(m, k, v) == [x \in DOMAIN m \cup {k} |-> IF x = k THEN v ELSE m[x]]

Delete(m, k) == [x \in DOMAIN m \ {k} |-> m[x]]

ValuesOf(m) == {m[k] : k \in DOMAIN m}

IsMap(m, K) ==
  /\ m = [k \in DOMAIN m |-> m[k]]
  /\ DOMAIN m \subseteq K
  /\ IsFiniteSet(DOMAIN m)

\* A service being monitored: its resources map a uid to the status of the
\* object, its endpoints list the uids of the objects they come from.
MonitoredServiceEntry(resources) ==
  [status : NalejServiceStatus, newStatus : BOOLEAN, numPendingChecks : Int,
   resources : {resources}, endpoints : Seq(Uids)]

MonitoredAppEntry(services) ==
  [status : FragmentStatus, newStatus : BOOLEAN, numPendingChecks : Int,
   services : {services}]

----------------------------------------------------------------------------
(***************************************************************************)
(* The entities.  getMonitoringData builds the entry of a stage, which     *)
(* AddEntry stores or merges into the entry of the earlier stages.         *)
(***************************************************************************)
NewService ==
  [status |-> NALEJ_SERVICE_SCHEDULED, newStatus |-> TRUE,
   numPendingChecks |-> 0, resources |-> EmptyMap, endpoints |-> << >>]

MonitoringData(S) ==
  [status |-> FRAGMENT_WAITING, newStatus |-> TRUE,
   numPendingChecks |-> Cardinality(S), services |-> [s \in S |-> NewService]]

\* A mutation of AppendServices: known services are counted again.
AppendServicesCountingAll(current, new) ==
  [current EXCEPT
     !.services = [s \in DOMAIN @ \cup DOMAIN new.services |->
                     IF s \in DOMAIN @ THEN @[s] ELSE new.services[s]],
     !.numPendingChecks = @ + Cardinality(DOMAIN new.services)]

AppendServices(current, new) ==
  LET fresh == DOMAIN new.services \ DOMAIN current.services IN
  [current EXCEPT
     !.services = [s \in DOMAIN @ \cup fresh |->
                     IF s \in fresh THEN new.services[s] ELSE @[s]],
     !.numPendingChecks = @ + Cardinality(fresh)]

\* A mutation of WithPendingResource: the resource is filed under its service.
WithPendingResourceMisfiled(service, uid) ==
  IF uid \in DOMAIN service.resources THEN service
  ELSE [service EXCEPT
          !.resources = Put(@, ServiceLabel[uid], NALEJ_SERVICE_SCHEDULED),
          !.numPendingChecks = @ + 1]

\* A resource starts as SCHEDULED; the status of its service stays as it was.
WithPendingResource(service, uid) ==
  IF uid \in DOMAIN service.resources THEN service
  ELSE [service EXCEPT
          !.resources = Put(@, uid, NALEJ_SERVICE_SCHEDULED),
          !.numPendingChecks = @ + 1]

\* A mutation of ChecksDelta: leaving RUNNING is not counted.
ChecksDeltaWithoutGain(before, after) ==
  IF after = NALEJ_SERVICE_RUNNING THEN -1 ELSE 0

\* The checks gained by leaving RUNNING and the checks lost by reaching it.
ChecksDelta(before, after) ==
  (IF before = NALEJ_SERVICE_RUNNING THEN 1 ELSE 0)
    - (IF after = NALEJ_SERVICE_RUNNING THEN 1 ELSE 0)

\* A mutation of WithResourceStatus: the status is that of the resources as
\* they were before the event.
WithResourceStatusStale(service, uid, status, endpoints) ==
  LET final == WorstStatus(ValuesOf(service.resources)) IN
  [status |-> final,
   newStatus |-> service.newStatus \/ final # service.status,
   numPendingChecks |-> service.numPendingChecks
                          + ChecksDelta(service.resources[uid], status),
   resources |-> [service.resources EXCEPT ![uid] = status],
   endpoints |-> service.endpoints \o endpoints]

\* A mutation of WithResourceStatus: the service is not flagged.
WithResourceStatusUnflagged(service, uid, status, endpoints) ==
  LET resources == [service.resources EXCEPT ![uid] = status] IN
  [status |-> WorstStatus(ValuesOf(resources)),
   newStatus |-> service.newStatus,
   numPendingChecks |-> service.numPendingChecks
                          + ChecksDelta(service.resources[uid], status),
   resources |-> resources,
   endpoints |-> service.endpoints \o endpoints]

\* What SetResourceStatus makes of a service when a resource changes status.
WithResourceStatus(service, uid, status, endpoints) ==
  LET resources == [service.resources EXCEPT ![uid] = status]
      final     == WorstStatus(ValuesOf(resources))
  IN [status |-> final,
      newStatus |-> service.newStatus \/ final # service.status,
      numPendingChecks |-> service.numPendingChecks
                             + ChecksDelta(service.resources[uid], status),
      resources |-> resources,
      endpoints |-> service.endpoints \o endpoints]

ServiceStatuses(services) == {services[s].status : s \in DOMAIN services}

\* A mutation of WithService: the status is that of the services before.
WithServiceStale(entry, s, service) ==
  [entry EXCEPT
     !.services[s] = service,
     !.status = ServicesToFragmentStatus[WorstStatus(ServiceStatuses(entry.services))]]

\* The fragment takes the worst status of its services; its NewStatus flag
\* is not raised.
WithService(entry, s, service) ==
  LET services == [entry.services EXCEPT ![s] = service] IN
  [entry EXCEPT
     !.services = services,
     !.status = ServicesToFragmentStatus[WorstStatus(ServiceStatuses(services))]]

\* A mutation of WithEntryStatus: the new status is not flagged.
WithEntryStatusUnflagged(entry, status) ==
  [entry EXCEPT
     !.status = status,
     !.services = [s \in DOMAIN @ |->
                     IF status = FRAGMENT_TERMINATING
                     THEN [@[s] EXCEPT !.status = NALEJ_SERVICE_TERMINATING]
                     ELSE @[s]]]

WithEntryStatus(entry, status) ==
  [entry EXCEPT
     !.newStatus = @ \/ status # entry.status,
     !.status = status,
     !.services = [s \in DOMAIN @ |->
                     IF status = FRAGMENT_TERMINATING
                     THEN [@[s] EXCEPT !.status = NALEJ_SERVICE_TERMINATING]
                     ELSE @[s]]]

WithAppStatus(entry, status) ==
  LET new == FragmentStatusToNalejServiceStatus[status] IN
  IF status = entry.status THEN entry
  ELSE [entry EXCEPT
          !.newStatus = TRUE,
          !.status = status,
          !.services = [s \in DOMAIN @ |->
                          [@[s] EXCEPT
                             !.newStatus = entry.services[s].newStatus
                                             \/ entry.services[s].status # new,
                             !.status = new]]]

Notified(entry) ==
  [entry EXCEPT
     !.newStatus = FALSE,
     !.services = [s \in DOMAIN @ |-> [@[s] EXCEPT !.newStatus = FALSE]]]

----------------------------------------------------------------------------
(***************************************************************************)
(* The methods.                                                            *)
(***************************************************************************)
Monitored(f) == f \in DOMAIN monitoredEntries

MonitoredService(f, s) ==
  Monitored(f) /\ s \in DOMAIN monitoredEntries[f].services

\* The lookups of SetResourceStatus; when one fails it returns an error.
MonitoredResource(f, s, uid) ==
  MonitoredService(f, s) /\ uid \in DOMAIN monitoredEntries[f].services[s].resources

AddEntry(f, S) ==
  monitoredEntries' =
    IF Monitored(f)
    THEN [monitoredEntries EXCEPT ![f] = AppendServices(@, MonitoringData(S))]
    ELSE Put(monitoredEntries, f, MonitoringData(S))

SetEntryStatus(f, status) ==
  monitoredEntries' =
    IF Monitored(f)
    THEN [monitoredEntries EXCEPT ![f] = WithEntryStatus(@, status)]
    ELSE monitoredEntries

SetAppStatus(app, status) ==
  monitoredEntries' =
    [f \in DOMAIN monitoredEntries |->
       IF AppOf[f] = app THEN WithAppStatus(monitoredEntries[f], status)
       ELSE monitoredEntries[f]]

AddPendingResource(f, s, uid) ==
  monitoredEntries' =
    IF MonitoredService(f, s)
    THEN [monitoredEntries EXCEPT
            ![f].services[s] = WithPendingResource(@, uid)]
    ELSE monitoredEntries

\* A mutation of SetResourceStatus: no early exit on an unchanged status.
SetResourceStatusAlways(f, s, uid, status, endpoints) ==
  monitoredEntries' =
    IF MonitoredResource(f, s, uid)
    THEN [monitoredEntries EXCEPT
            ![f] = WithService(@, s,
                     WithResourceStatus(@.services[s], uid, status, endpoints))]
    ELSE monitoredEntries

SetResourceStatus(f, s, uid, status, endpoints) ==
  monitoredEntries' =
    IF /\ MonitoredResource(f, s, uid)
       /\ monitoredEntries[f].services[s].resources[uid] # status
    THEN [monitoredEntries EXCEPT
            ![f] = WithService(@, s,
                     WithResourceStatus(@.services[s], uid, status, endpoints))]
    ELSE monitoredEntries

\* WaitPendingChecks calls it with no lock: each service is read at a moment of
\* its own, while others write it, and what is stored is how many were found
\* not to be RUNNING then.
UpdateAppStatus(f) ==
  IF Monitored(f)
  THEN \E found \in SUBSET DOMAIN monitoredEntries[f].services :
         monitoredEntries' =
           [monitoredEntries EXCEPT ![f].numPendingChecks = Cardinality(found)]
  ELSE UNCHANGED monitoredEntries

ResetServicesUnnotifiedStatus ==
  monitoredEntries' =
    [f \in DOMAIN monitoredEntries |-> Notified(monitoredEntries[f])]

RemoveEntry(f) == monitoredEntries' = Delete(monitoredEntries, f)

----------------------------------------------------------------------------
(***************************************************************************)
(* The KubernetesController.  A deployable registers each object it has    *)
(* created; an event about an object is forwarded under the object's       *)
(* labels.  Services and ingresses are only ever reported RUNNING, once    *)
(* they are ready, and with their endpoints when they announce any.        *)
(* Deletions are ignored.                                                  *)
(***************************************************************************)
AddMonitoredResource(uid) ==
  AddPendingResource(FragmentLabel[uid], ServiceLabel[uid], uid)

OnDeployment(uid, status) ==
  SetResourceStatus(FragmentLabel[uid], ServiceLabel[uid], uid, status, << >>)

OnServiceOrIngress(uid) ==
  SetResourceStatus(FragmentLabel[uid], ServiceLabel[uid], uid,
                    NALEJ_SERVICE_RUNNING,
                    IF uid \in Announcing THEN <<uid>> ELSE << >>)

----------------------------------------------------------------------------
(***************************************************************************)
(* The registry among all its callers: the manager's goroutines, which add *)
(* entries and set their status, the undeploy requests, the deployables,   *)
(* the event dispatcher and the monitor helper.                            *)
(***************************************************************************)
LoopStatuses == {FRAGMENT_DEPLOYING, FRAGMENT_RETRYING, FRAGMENT_ERROR,
                 FRAGMENT_TERMINATING}

Init == monitoredEntries = EmptyMap

Deploy(f) ==
  \/ \E S \in SUBSET ServiceInstances : IsFiniteSet(S) /\ AddEntry(f, S)
  \/ \E status \in LoopStatuses : SetEntryStatus(f, status)
  \/ UpdateAppStatus(f)

Undeploy(app) == SetAppStatus(app, FRAGMENT_TERMINATING)

Event(uid) ==
  \/ AddMonitoredResource(uid)
  \/ uid \in Deployments /\ \E status \in DeploymentStatuses : OnDeployment(uid, status)
  \/ uid \notin Deployments /\ OnServiceOrIngress(uid)

Notify ==
  \/ ResetServicesUnnotifiedStatus
  \/ \E f \in Fragments : RemoveEntry(f)

Next ==
  \/ \E f \in Fragments : Deploy(f)
  \/ \E app \in Apps : Undeploy(app)
  \/ \E uid \in Uids : Event(uid)
  \/ Notify

Spec == Init /\ [][Next]_monitoredEntries

----------------------------------------------------------------------------
(***************************************************************************)
(* Properties.  Each is stated of one service or of one entry first.       *)
(***************************************************************************)
ServiceTypeOK(service) ==
  /\ service \in MonitoredServiceEntry(service.resources)
  /\ IsMap(service.resources, Uids)
  /\ ValuesOf(service.resources) \subseteq NalejServiceStatus

EntryTypeOK(entry) ==
  /\ entry \in MonitoredAppEntry(entry.services)
  /\ IsMap(entry.services, ServiceInstances)
  /\ \A s \in DOMAIN entry.services : ServiceTypeOK(entry.services[s])

\* Every entry has the fields of the Go structures and its maps are finite.
TypeOK ==
  /\ IsMap(monitoredEntries, Fragments)
  /\ \A f \in DOMAIN monitoredEntries : EntryTypeOK(monitoredEntries[f])

PendingResources(service) ==
  {uid \in DOMAIN service.resources : service.resources[uid] # NALEJ_SERVICE_RUNNING}

\* NumPendingChecks of a service, which AddPendingResource, SetResourceStatus
\* and RemovePendingResource raise and lower by one in three places, is at all
\* times the number of its resources that are not RUNNING: no sequence of
\* events counts one twice or makes it negative.
ServicePendingChecksExact(service) ==
  service.numPendingChecks = Cardinality(PendingResources(service))

PendingChecksExact ==
  \A f \in DOMAIN monitoredEntries :
    \A s \in DOMAIN monitoredEntries[f].services :
      ServicePendingChecksExact(monitoredEntries[f].services[s])

\* The endpoint of an object is appended once, however often its events are
\* delivered and retried, and only objects that are RUNNING have one: it is
\* the early exit on an unchanged status that keeps SetResourceStatus from
\* appending it again, since a service or an ingress never leaves RUNNING.
ServiceEndpointsOnce(service) ==
  /\ \A i, j \in 1 .. Len(service.endpoints) :
       service.endpoints[i] = service.endpoints[j] => i = j
  /\ \A i \in 1 .. Len(service.endpoints) :
       LET uid == service.endpoints[i] IN
       /\ uid \in DOMAIN service.resources \cap Announcing
       /\ service.resources[uid] = NALEJ_SERVICE_RUNNING

EndpointsOnce ==
  \A f \in DOMAIN monitoredEntries :
    \A s \in DOMAIN monitoredEntries[f].services :
      ServiceEndpointsOnce(monitoredEntries[f].services[s])

\* Objects that are not deployments are waited for or RUNNING, never else.
ServiceKindsOK(service) ==
  \A uid \in DOMAIN service.resources \ Deployments :
    service.resources[uid] \in {NALEJ_SERVICE_SCHEDULED, NALEJ_SERVICE_RUNNING}

\* The status of a service is computed when a resource of it changes, and may
\* be stale when one has been added since.  Still a RUNNING service has no
\* resource that failed or is progressing: every other resource is one whose
\* first event has not arrived.  And an error is never hidden: a service with
\* a resource in ERROR is in ERROR itself, or being terminated.
ServiceStatusSound(service) ==
  /\ service.status = NALEJ_SERVICE_RUNNING =>
       ValuesOf(service.resources) \subseteq
         {NALEJ_SERVICE_SCHEDULED, NALEJ_SERVICE_RUNNING}
  /\ NALEJ_SERVICE_ERROR \in ValuesOf(service.resources) =>
       service.status \in {NALEJ_SERVICE_ERROR, NALEJ_SERVICE_TERMINATING}

StatusSound ==
  \A f \in DOMAIN monitoredEntries :
    \A s \in DOMAIN monitoredEntries[f].services :
      ServiceStatusSound(monitoredEntries[f].services[s])

\* A fragment that is announced as DONE has no failed or progressing service:
\* what is not RUNNING in it has just been added, or is being terminated.
EntryDoneSound(entry) ==
  entry.status = FRAGMENT_DONE =>
    ServiceStatuses(entry.services) \subseteq
      {NALEJ_SERVICE_SCHEDULED, NALEJ_SERVICE_RUNNING, NALEJ_SERVICE_TERMINATING}

DoneSound ==
  \A f \in DOMAIN monitoredEntries : EntryDoneSound(monitoredEntries[f])

\* NumPendingChecks of a fragment is what WaitPendingChecks compares with 0.
\* It is recomputed by UpdateAppStatus and raised by AppendServices, and
\* between two computations it stays within the number of services.
EntryChecksBounded(entry) ==
  entry.numPendingChecks \in 0 .. Cardinality(DOMAIN entry.services)

ChecksBounded ==
  \A f \in DOMAIN monitoredEntries : EntryChecksBounded(monitoredEntries[f])
============================================================================
