----------------------- MODULE StatusReporting_proofs -----------------------
(***************************************************************************)
(* The registry alone, and then what conductor hears of it, for any        *)
(* fragments, services, objects and labels, and for calls between any two  *)
(* steps of a round.                                                       *)
(*                                                                         *)
(* The registry.  The proof goes level by level.  The invariant of a       *)
(* service is kept by each operator that makes a service out of a service; *)
(* from that, the invariant of an entry by each operator on entries; from  *)
(* that, the invariant of the registry by each method.                     *)
(*                                                                         *)
(* Two facts strengthen the properties so that they are inductive: objects *)
(* that are not deployments are never anything but SCHEDULED or RUNNING,   *)
(* and no resource is ever TERMINATING or WAITING.  The first keeps an     *)
(* endpoint from being appended twice, the second a RUNNING service from   *)
(* having a resource that is being terminated.                             *)
(*                                                                         *)
(* The helper.  The system implements the registry of MonitoredInstances,  *)
(* so that what is proved of that can be used.  The rest of the proof has  *)
(* two halves: what a call may do to an entry without raising a flag, and  *)
(* what the helper relies on from its snapshot to its reset.               *)
(***************************************************************************)
EXTENDS StatusReporting, FiniteSetTheorems, SequenceTheorems, TLAPS

ServiceResourcesOK(service) ==
  ValuesOf(service.resources) \subseteq DeploymentStatuses \cup {NALEJ_SERVICE_SCHEDULED}

ServiceInv(service) ==
  /\ ServiceTypeOK(service)
  /\ ServiceResourcesOK(service)
  /\ ServicePendingChecksExact(service)
  /\ ServiceKindsOK(service)
  /\ ServiceEndpointsOnce(service)
  /\ ServiceStatusSound(service)

EntryInv(entry) ==
  /\ EntryTypeOK(entry)
  /\ \A s \in DOMAIN entry.services : ServiceInv(entry.services[s])
  /\ EntryDoneSound(entry)
  /\ EntryChecksBounded(entry)

EntriesInv(m) ==
  /\ IsMap(m, Fragments)
  /\ \A f \in DOMAIN m : EntryInv(m[f])

RegistryInv == EntriesInv(monitoredEntries)

----------------------------------------------------------------------------
(***************************************************************************)
(* Maps.                                                                   *)
(***************************************************************************)
\* The empty Go map.
LEMMA EmptyMapIsMap ==
  ASSUME NEW S
  PROVE  IsMap(EmptyMap, S) /\ DOMAIN EmptyMap = {}
BY FS_EmptySet DEF IsMap, EmptyMap

\* Writing a key of a Go map keeps the other entries and adds at most one.
LEMMA PutIsMap ==
  ASSUME NEW S, NEW m, IsMap(m, S), NEW k \in S, NEW v
  PROVE  /\ IsMap(Put(m, k, v), S)
         /\ DOMAIN Put(m, k, v) = DOMAIN m \cup {k}
         /\ Put(m, k, v)[k] = v
         /\ \A x \in DOMAIN m \ {k} : Put(m, k, v)[x] = m[x]
<1>1. IsFiniteSet(DOMAIN m \cup {k})
  BY FS_AddElement DEF IsMap
<1> QED BY <1>1 DEF IsMap, Put

\* delete removes one key and keeps the other entries.
LEMMA DeleteIsMap ==
  ASSUME NEW S, NEW m, IsMap(m, S), NEW k
  PROVE  /\ IsMap(Delete(m, k), S)
         /\ DOMAIN Delete(m, k) = DOMAIN m \ {k}
         /\ \A x \in DOMAIN m \ {k} : Delete(m, k)[x] = m[x]
<1>1. IsFiniteSet(DOMAIN m \ {k})
  BY FS_RemoveElement DEF IsMap
<1> QED BY <1>1 DEF IsMap, Delete

\* Overwriting the value of a key that is there.
LEMMA ExceptIsMap ==
  ASSUME NEW S, NEW m, IsMap(m, S), NEW k \in DOMAIN m, NEW v
  PROVE  /\ IsMap([m EXCEPT ![k] = v], S)
         /\ DOMAIN [m EXCEPT ![k] = v] = DOMAIN m
         /\ [m EXCEPT ![k] = v][k] = v
         /\ \A x \in DOMAIN m \ {k} : [m EXCEPT ![k] = v][x] = m[x]
BY DEF IsMap

----------------------------------------------------------------------------
(***************************************************************************)
(* The worst status.                                                       *)
(***************************************************************************)
\* A non-empty set of statuses below RUNNING has a least one.
LEMMA LeastExists ==
  ASSUME NEW W \in SUBSET (0 .. 2), W # {}
  PROVE  \E s \in W : \A t \in W : s <= t
<1>1. CASE 0 \in W
  BY <1>1
<1>2. CASE 0 \notin W /\ 1 \in W
  BY <1>2
<1>3. CASE 0 \notin W /\ 1 \notin W
  <2>1. \A t \in W : t = 2
    BY <1>3
  <2>2. PICK s \in W : s = 2
    BY <2>1
  <2>3. \A t \in W : s <= t
    BY <2>1, <2>2
  <2> QED BY <2>3
<1> QED BY <1>1, <1>2, <1>3

\* The aggregation of SetResourceStatus yields ERROR exactly when one status
\* is ERROR, RUNNING only when no status is below it, and never TERMINATING.
THEOREM WorstStatusFacts ==
  ASSUME NEW S \in SUBSET NalejServiceStatus
  PROVE  /\ WorstStatus(S) \in NalejServiceStatus \ {NALEJ_SERVICE_TERMINATING}
         /\ WorstStatus(S) = NALEJ_SERVICE_ERROR <=> NALEJ_SERVICE_ERROR \in S
         /\ WorstStatus(S) = NALEJ_SERVICE_RUNNING =>
              S \subseteq {NALEJ_SERVICE_RUNNING, NALEJ_SERVICE_TERMINATING}
<1> USE DEF NalejServiceStatus, NALEJ_SERVICE_SCHEDULED, NALEJ_SERVICE_WAITING,
            NALEJ_SERVICE_DEPLOYING, NALEJ_SERVICE_RUNNING, NALEJ_SERVICE_ERROR,
            NALEJ_SERVICE_TERMINATING
<1> DEFINE worse == {s \in S : s < NALEJ_SERVICE_RUNNING}
           least == CHOOSE s \in worse : \A t \in worse : s <= t
<1>1. CASE NALEJ_SERVICE_ERROR \in S
  BY <1>1 DEF WorstStatus
<1>2. CASE NALEJ_SERVICE_ERROR \notin S /\ worse = {}
  <2>1. WorstStatus(S) = NALEJ_SERVICE_RUNNING
    BY <1>2 DEF WorstStatus
  <2> QED BY <1>2, <2>1
<1>3. CASE NALEJ_SERVICE_ERROR \notin S /\ worse # {}
  <2>1. WorstStatus(S) = least
    BY <1>3 DEF WorstStatus
  <2>2. worse \in SUBSET (0 .. 2)
    <3> SUFFICES ASSUME NEW s \in worse PROVE s \in 0 .. 2
      OBVIOUS
    <3>1. s \in 0 .. 5 /\ s < 3
      OBVIOUS
    <3> QED BY <3>1
  <2>3. least \in worse
    <3> HIDE DEF worse
    <3> QED BY <1>3, <2>2, LeastExists
  <2>4. WorstStatus(S) \in 0 .. 2
    <3> HIDE DEF worse, least
    <3> QED BY <2>1, <2>2, <2>3
  <2> QED BY <1>3, <2>4
<1> QED BY <1>1, <1>2, <1>3

----------------------------------------------------------------------------
(***************************************************************************)
(* The conditions of a deployment.                                         *)
(***************************************************************************)
\* Conditions are counted one by one: those that are neither Available nor
\* Progressing are the ones the code counts as errors.
LEMMA ConditionsAddUp ==
  ASSUME NEW conditions \in Seq(ConditionTypes)
  PROVE  /\ \A type \in ConditionTypes : CountOf(conditions, type) \in Nat
         /\ Len(conditions) = CountOf(conditions, "Available")
                                + CountOf(conditions, "Progressing")
                                + CountOf(conditions, "ReplicaFailure")
         /\ CountOf(conditions, "ReplicaFailure") = 0
              <=> \A i \in DOMAIN conditions : conditions[i] # "ReplicaFailure"
<1> DEFINE Of(type) == {i \in DOMAIN conditions : conditions[i] = type}
<1>1. /\ DOMAIN conditions = 1 .. Len(conditions)
      /\ Len(conditions) \in Nat
      /\ \A i \in DOMAIN conditions : conditions[i] \in ConditionTypes
  OBVIOUS
<1>2. IsFiniteSet(DOMAIN conditions) /\ Cardinality(DOMAIN conditions) = Len(conditions)
  <2>1. Len(conditions) \in Int /\ 1 \in Int
    BY <1>1
  <2>2. /\ IsFiniteSet(1 .. Len(conditions))
        /\ Cardinality(1 .. Len(conditions))
             = IF 1 > Len(conditions) THEN 0 ELSE Len(conditions) - 1 + 1
    BY <2>1, FS_Interval
  <2> QED BY <1>1, <2>2
<1>3. \A type : IsFiniteSet(Of(type)) /\ Cardinality(Of(type)) \in Nat
  <2> SUFFICES ASSUME NEW type
               PROVE  IsFiniteSet(Of(type)) /\ Cardinality(Of(type)) \in Nat
    OBVIOUS
  <2>1. Of(type) \in SUBSET (DOMAIN conditions)
    OBVIOUS
  <2>2. IsFiniteSet(Of(type))
    BY <1>2, <2>1, FS_Subset
  <2> QED BY <2>2, FS_CardinalityType
<1>4. \A type : CountOf(conditions, type) = Cardinality(Of(type))
  BY DEF CountOf
<1> DEFINE started == Of("Available") \cup Of("Progressing")
<1>5. IsFiniteSet(started)
        /\ Cardinality(started) = Cardinality(Of("Available")) + Cardinality(Of("Progressing"))
  <2>1. Cardinality(Of("Available") \cap Of("Progressing")) = 0
    <3>1. Of("Available") \cap Of("Progressing") = {}
      OBVIOUS
    <3> QED BY <3>1, FS_EmptySet
  <2>2. /\ IsFiniteSet(Of("Available")) /\ Cardinality(Of("Available")) \in Nat
        /\ IsFiniteSet(Of("Progressing")) /\ Cardinality(Of("Progressing")) \in Nat
    BY <1>3
  <2> HIDE DEF Of
  <2>3. /\ IsFiniteSet(started)
        /\ Cardinality(started)
             = Cardinality(Of("Available")) + Cardinality(Of("Progressing"))
                 - Cardinality(Of("Available") \cap Of("Progressing"))
    BY <2>2, FS_Union
  <2> HIDE DEF started
  <2> QED BY <2>1, <2>2, <2>3
<1>6. Cardinality(DOMAIN conditions) = Cardinality(started) + Cardinality(Of("ReplicaFailure"))
  <2>1. Cardinality(started \cap Of("ReplicaFailure")) = 0
    <3>1. started \cap Of("ReplicaFailure") = {}
      OBVIOUS
    <3> QED BY <3>1, FS_EmptySet
  <2>2. started \cup Of("ReplicaFailure") = DOMAIN conditions
    BY <1>1 DEF ConditionTypes
  <2>3. Cardinality(started) \in Nat
    BY <1>5, FS_CardinalityType
  <2>4. IsFiniteSet(Of("ReplicaFailure")) /\ Cardinality(Of("ReplicaFailure")) \in Nat
    BY <1>3
  <2> HIDE DEF started, Of
  <2>5. Cardinality(started \cup Of("ReplicaFailure"))
          = Cardinality(started) + Cardinality(Of("ReplicaFailure"))
              - Cardinality(started \cap Of("ReplicaFailure"))
    BY <1>5, <2>4, FS_Union
  <2> QED BY <2>1, <2>2, <2>3, <2>4, <2>5
<1>7. Cardinality(Of("ReplicaFailure")) = 0 <=> Of("ReplicaFailure") = {}
  BY <1>3, FS_EmptySet
<1>8. Of("ReplicaFailure") = {}
        <=> \A i \in DOMAIN conditions : conditions[i] # "ReplicaFailure"
  OBVIOUS
<1> HIDE DEF started, Of
<1> QED BY <1>2, <1>3, <1>4, <1>5, <1>6, <1>7, <1>8

(***************************************************************************)
(* What OnDeployment tells the registry, for any conditions and replicas:  *)
(* never WAITING, although KubernetesDeploymentStatusTranslation has a     *)
(* branch for it; an ERROR exactly when replicas are missing and some      *)
(* condition is neither Available nor Progressing; and RUNNING without its *)
(* replicas only on conditions that are all Available.                     *)
(***************************************************************************)
THEOREM DeploymentStatusFacts ==
  ASSUME NEW conditions \in Seq(ConditionTypes), NEW unavailable \in Nat, NEW available \in Nat
  PROVE  LET status == DeploymentStatus(conditions, unavailable, available)
             replicated == unavailable = 0 /\ available > 0
         IN /\ status \in DeploymentStatuses
            /\ status = NALEJ_SERVICE_ERROR
                 <=> /\ ~replicated
                     /\ \E i \in DOMAIN conditions : conditions[i] = "ReplicaFailure"
            /\ status = NALEJ_SERVICE_RUNNING
                 => replicated \/ CountOf(conditions, "Available") = Len(conditions)
<1> USE DEF NALEJ_SERVICE_DEPLOYING, NALEJ_SERVICE_RUNNING, NALEJ_SERVICE_ERROR,
            NALEJ_SERVICE_WAITING
<1> DEFINE running == CountOf(conditions, "Available")
           progressing == CountOf(conditions, "Progressing")
           error == Len(conditions) - (running + progressing)
           translated == KubernetesDeploymentStatusTranslation(conditions)
<1>1. /\ running \in Nat /\ progressing \in Nat /\ error \in Nat /\ Len(conditions) \in Nat
      /\ error = 0 <=> \A i \in DOMAIN conditions : conditions[i] # "ReplicaFailure"
  <2>1. CountOf(conditions, "ReplicaFailure") = error
    BY ConditionsAddUp DEF ConditionTypes
  <2> QED BY <2>1, ConditionsAddUp DEF ConditionTypes
<1>2. CASE error > 0
  <2>1. translated = NALEJ_SERVICE_ERROR
    BY <1>1, <1>2 DEF KubernetesDeploymentStatusTranslation
  <2> HIDE DEF error, translated
  <2> QED BY <1>1, <1>2, <2>1 DEF DeploymentStatus, DeploymentStatuses, translated
<1>3. CASE error = 0 /\ Len(conditions) = 0
  <2>1. translated = NALEJ_SERVICE_DEPLOYING
    BY <1>1, <1>3 DEF KubernetesDeploymentStatusTranslation
  <2> HIDE DEF error, translated
  <2> QED BY <1>1, <1>3, <2>1 DEF DeploymentStatus, DeploymentStatuses, translated
<1>4. CASE error = 0 /\ Len(conditions) > 0 /\ running = Len(conditions)
  <2>1. translated = NALEJ_SERVICE_RUNNING
    BY <1>1, <1>4 DEF KubernetesDeploymentStatusTranslation
  <2> HIDE DEF error, translated
  <2> QED BY <1>1, <1>4, <2>1 DEF DeploymentStatus, DeploymentStatuses, translated
<1>5. CASE error = 0 /\ Len(conditions) > 0 /\ running # Len(conditions)
  <2>1. running < Len(conditions) /\ progressing > 0
    BY <1>1, <1>5
  <2>2. translated = NALEJ_SERVICE_DEPLOYING
    BY <1>1, <1>5, <2>1 DEF KubernetesDeploymentStatusTranslation
  <2> HIDE DEF error, translated
  <2> QED BY <1>1, <1>5, <2>2 DEF DeploymentStatus, DeploymentStatuses, translated
<1> HIDE DEF running, progressing, error
<1> QED BY <1>1, <1>2, <1>3, <1>4, <1>5

----------------------------------------------------------------------------
(***************************************************************************)
(* Services.                                                               *)
(***************************************************************************)
\* The service that getMonitoringData creates is good.
LEMMA NewServiceInv == ServiceInv(NewService)
<1> USE DEF NalejServiceStatus, NALEJ_SERVICE_SCHEDULED, NALEJ_SERVICE_WAITING,
            NALEJ_SERVICE_DEPLOYING, NALEJ_SERVICE_RUNNING, NALEJ_SERVICE_ERROR,
            NALEJ_SERVICE_TERMINATING
<1>1. IsMap(EmptyMap, Uids) /\ DOMAIN EmptyMap = {}
  BY EmptyMapIsMap
<1>2. ValuesOf(EmptyMap) = {}
  BY <1>1 DEF ValuesOf
<1>3. NewService.resources = EmptyMap /\ NewService.endpoints = << >>
      /\ NewService.status = 0 /\ NewService.numPendingChecks = 0
  BY DEF NewService
<1>4. ServiceTypeOK(NewService)
  <2>1. << >> \in Seq(Uids)
    OBVIOUS
  <2>2. NewService \in MonitoredServiceEntry(NewService.resources)
    BY <2>1 DEF NewService, MonitoredServiceEntry
  <2> QED BY <1>1, <1>2, <1>3, <2>2 DEF ServiceTypeOK
<1>5. PendingResources(NewService) = {}
  BY <1>1, <1>3 DEF PendingResources
<1>6. ServicePendingChecksExact(NewService)
  BY <1>3, <1>5, FS_EmptySet DEF ServicePendingChecksExact
<1>7. ServiceResourcesOK(NewService) /\ ServiceStatusSound(NewService)
  BY <1>2, <1>3 DEF ServiceResourcesOK, ServiceStatusSound
<1>8. ServiceKindsOK(NewService)
  BY <1>1, <1>3 DEF ServiceKindsOK
<1>9. ServiceEndpointsOnce(NewService)
  <2>1. Len(NewService.endpoints) = 0
    BY <1>3
  <2> QED BY <2>1 DEF ServiceEndpointsOnce
<1> QED BY <1>4, <1>6, <1>7, <1>8, <1>9 DEF ServiceInv

\* A service whose flag is set or cleared, or that is being terminated.
LEMMA RestatusedInv ==
  ASSUME NEW service, ServiceInv(service), NEW new, ServiceTypeOK(new),
         new.resources = service.resources,
         new.endpoints = service.endpoints,
         new.numPendingChecks = service.numPendingChecks,
         new.status \in {service.status, NALEJ_SERVICE_TERMINATING}
  PROVE  ServiceInv(new)
<1> USE DEF NalejServiceStatus, NALEJ_SERVICE_SCHEDULED, NALEJ_SERVICE_WAITING,
            NALEJ_SERVICE_DEPLOYING, NALEJ_SERVICE_RUNNING, NALEJ_SERVICE_ERROR,
            NALEJ_SERVICE_TERMINATING
<1>1. ServiceResourcesOK(new) /\ ServiceKindsOK(new)
  BY DEF ServiceInv, ServiceResourcesOK, ServiceKindsOK
<1>2. PendingResources(new) = PendingResources(service)
  BY DEF PendingResources
<1>3. ServicePendingChecksExact(new)
  BY <1>2 DEF ServiceInv, ServicePendingChecksExact
<1>4. ServiceEndpointsOnce(new)
  BY DEF ServiceInv, ServiceEndpointsOnce
<1>5. ServiceStatusSound(new)
  BY DEF ServiceInv, ServiceStatusSound
<1> QED BY <1>1, <1>3, <1>4, <1>5 DEF ServiceInv

\* Fields that the methods write do not change the type of a service.
LEMMA FlaggedInv ==
  ASSUME NEW service, ServiceInv(service), NEW flag \in BOOLEAN,
         NEW status \in {service.status, NALEJ_SERVICE_TERMINATING}
  PROVE  ServiceInv([service EXCEPT !.newStatus = flag, !.status = status])
<1> DEFINE new == [service EXCEPT !.newStatus = flag, !.status = status]
<1>1. service \in MonitoredServiceEntry(service.resources)
  BY DEF ServiceInv, ServiceTypeOK
<1>2. status \in NalejServiceStatus
  BY <1>1 DEF MonitoredServiceEntry, NalejServiceStatus, NALEJ_SERVICE_SCHEDULED,
              NALEJ_SERVICE_TERMINATING
<1>3. /\ new.resources = service.resources /\ new.endpoints = service.endpoints
      /\ new.numPendingChecks = service.numPendingChecks
      /\ new.status = status
      /\ new \in MonitoredServiceEntry(service.resources)
  BY <1>1, <1>2 DEF MonitoredServiceEntry
<1>4. ServiceTypeOK(new)
  BY <1>3 DEF ServiceTypeOK, ServiceInv
<1> QED BY <1>3, <1>4, RestatusedInv

\* AddPendingResource: one more resource, which is waited for.
LEMMA PendingResourceInv ==
  ASSUME NEW service, ServiceInv(service), NEW uid \in Uids
  PROVE  /\ ServiceInv(WithPendingResource(service, uid))
         /\ WithPendingResource(service, uid).status = service.status
<1>1. CASE uid \in DOMAIN service.resources
  BY <1>1 DEF WithPendingResource
<1>2. CASE uid \notin DOMAIN service.resources
  <2> DEFINE new  == WithPendingResource(service, uid)
             old  == service.resources
             wait == NALEJ_SERVICE_SCHEDULED
             put  == Put(old, uid, wait)
  <2>1. service \in MonitoredServiceEntry(old) /\ IsMap(old, Uids)
        /\ ValuesOf(old) \subseteq NalejServiceStatus
    BY DEF ServiceInv, ServiceTypeOK
  <2>2. /\ IsMap(put, Uids)
        /\ DOMAIN put = DOMAIN old \cup {uid}
        /\ put[uid] = wait
        /\ \A x \in DOMAIN old \ {uid} : put[x] = old[x]
    <3> HIDE DEF old, wait
    <3>1. IsMap(old, Uids)
      BY <2>1
    <3>2. IsMap(put, Uids)
      BY <3>1, PutIsMap
    <3> QED BY <3>2 DEF Put
  <2>3. /\ new.resources = put /\ new.endpoints = service.endpoints
        /\ new.numPendingChecks = service.numPendingChecks + 1
        /\ new.status = service.status
        /\ new \in MonitoredServiceEntry(new.resources)
    <3>1. new = [service EXCEPT !.resources = put,
                                !.numPendingChecks = service.numPendingChecks + 1]
      BY <1>2 DEF WithPendingResource
    <3>2. service.numPendingChecks + 1 \in Int
      BY <2>1 DEF MonitoredServiceEntry
    <3> DEFINE more == service.numPendingChecks + 1
    <3> HIDE DEF new, old, put, more
    <3> QED BY <2>1, <3>1, <3>2 DEF MonitoredServiceEntry
  <2> HIDE DEF new, put
  <2> USE DEF NalejServiceStatus, NALEJ_SERVICE_SCHEDULED, NALEJ_SERVICE_WAITING,
              NALEJ_SERVICE_DEPLOYING, NALEJ_SERVICE_RUNNING, NALEJ_SERVICE_ERROR,
              NALEJ_SERVICE_TERMINATING
  <2>4. ValuesOf(new.resources) = ValuesOf(old) \cup {0}
    BY <1>2, <2>2, <2>3 DEF ValuesOf
  <2>5. ServiceTypeOK(new)
    BY <2>1, <2>2, <2>3, <2>4 DEF ServiceTypeOK
  <2>6. ServiceResourcesOK(new)
    BY <2>4 DEF ServiceInv, ServiceResourcesOK
  <2>7. ServicePendingChecksExact(new)
    <3>1. PendingResources(new) = PendingResources(service) \cup {uid}
      BY <1>2, <2>2, <2>3 DEF PendingResources
    <3>2. uid \notin PendingResources(service)
      BY <1>2 DEF PendingResources
    <3>3. IsFiniteSet(PendingResources(service))
      BY <2>1, FS_Subset DEF IsMap, PendingResources
    <3>4. Cardinality(PendingResources(new)) = Cardinality(PendingResources(service)) + 1
      BY <3>1, <3>2, <3>3, FS_AddElement
    <3> QED BY <2>3, <3>4 DEF ServiceInv, ServicePendingChecksExact
  <2>8. ServiceKindsOK(new)
    BY <2>2, <2>3 DEF ServiceInv, ServiceKindsOK
  <2>9. ServiceEndpointsOnce(new)
    BY <1>2, <2>2, <2>3 DEF ServiceInv, ServiceEndpointsOnce
  <2>10. ServiceStatusSound(new)
    BY <2>3, <2>4 DEF ServiceInv, ServiceStatusSound
  <2>11. ServiceInv(new)
    BY <2>5, <2>6, <2>7, <2>8, <2>9, <2>10 DEF ServiceInv
  <2> QED BY <2>3, <2>11 DEF new
<1> QED BY <1>1, <1>2

\* The statuses and endpoints with which the event handlers call
\* SetResourceStatus.
Reported(uid, status, endpoints) ==
  \/ uid \in Deployments /\ status \in DeploymentStatuses /\ endpoints = << >>
  \/ /\ uid \in Uids \ Deployments
     /\ status = NALEJ_SERVICE_RUNNING
     /\ endpoints = IF uid \in Announcing THEN <<uid>> ELSE << >>

\* One resource leaves or joins the ones waited for, as ChecksDelta says.
LEMMA ChecksDeltaExact ==
  ASSUME NEW service, ServiceInv(service), NEW uid \in DOMAIN service.resources,
         NEW status \in NalejServiceStatus, status # service.resources[uid],
         NEW new, new.resources = [service.resources EXCEPT ![uid] = status],
         new.numPendingChecks = service.numPendingChecks
                                  + ChecksDelta(service.resources[uid], status)
  PROVE  ServicePendingChecksExact(new)
<1> DEFINE old == service.resources
<1>1. IsMap(old, Uids) /\ service.numPendingChecks = Cardinality(PendingResources(service))
  BY DEF ServiceInv, ServiceTypeOK, ServicePendingChecksExact
<1>2. /\ DOMAIN new.resources = DOMAIN old /\ new.resources[uid] = status
      /\ \A x \in DOMAIN old \ {uid} : new.resources[x] = old[x]
  BY <1>1, ExceptIsMap
<1>3. IsFiniteSet(PendingResources(service))
  BY <1>1, FS_Subset DEF IsMap, PendingResources
<1>4. Cardinality(PendingResources(service)) \in Nat
  BY <1>3, FS_CardinalityType
<1>5. CASE status = NALEJ_SERVICE_RUNNING
  <2>1. PendingResources(new) = PendingResources(service) \ {uid}
        /\ uid \in PendingResources(service)
    BY <1>2, <1>5 DEF PendingResources
  <2>2. Cardinality(PendingResources(new)) = Cardinality(PendingResources(service)) - 1
    BY <1>3, <2>1, FS_RemoveElement
  <2>3. ChecksDelta(old[uid], status) = -1
    BY <1>5 DEF ChecksDelta
  <2> QED BY <1>1, <1>4, <2>2, <2>3 DEF ServicePendingChecksExact
<1>6. CASE status # NALEJ_SERVICE_RUNNING /\ old[uid] = NALEJ_SERVICE_RUNNING
  <2>1. PendingResources(new) = PendingResources(service) \cup {uid}
        /\ uid \notin PendingResources(service)
    BY <1>2, <1>6 DEF PendingResources
  <2>2. Cardinality(PendingResources(new)) = Cardinality(PendingResources(service)) + 1
    BY <1>3, <2>1, FS_AddElement
  <2>3. ChecksDelta(old[uid], status) = 1
    BY <1>6 DEF ChecksDelta
  <2> QED BY <1>1, <1>4, <2>2, <2>3 DEF ServicePendingChecksExact
<1>7. CASE status # NALEJ_SERVICE_RUNNING /\ old[uid] # NALEJ_SERVICE_RUNNING
  <2>1. PendingResources(new) = PendingResources(service)
    BY <1>2, <1>7 DEF PendingResources
  <2>2. ChecksDelta(old[uid], status) = 0
    BY <1>7 DEF ChecksDelta
  <2> QED BY <1>1, <1>4, <2>1, <2>2 DEF ServicePendingChecksExact
<1> QED BY <1>5, <1>6, <1>7

\* A change of status neither repeats an endpoint nor leaves one behind.
LEMMA EndpointsStayOnce ==
  ASSUME NEW service, ServiceInv(service), NEW uid \in DOMAIN service.resources,
         NEW status, status # service.resources[uid],
         NEW endpoints, Reported(uid, status, endpoints)
  PROVE  LET new == WithResourceStatus(service, uid, status, endpoints)
         IN  new.endpoints \in Seq(Uids) /\ ServiceEndpointsOnce(new)
<1> DEFINE old == service.resources
           e   == service.endpoints
           new == WithResourceStatus(service, uid, status, endpoints)
<1>0. new.resources = [old EXCEPT ![uid] = status] /\ new.endpoints = e \o endpoints
  BY DEF WithResourceStatus
<1> SUFFICES new.endpoints \in Seq(Uids) /\ ServiceEndpointsOnce(new)
  OBVIOUS
<1> HIDE DEF new
<1>1. IsMap(old, Uids) /\ e \in Seq(Uids)
  BY DEF ServiceInv, ServiceTypeOK, MonitoredServiceEntry
<1>2. /\ DOMAIN new.resources = DOMAIN old /\ new.resources[uid] = status
      /\ \A x \in DOMAIN old \ {uid} : new.resources[x] = old[x]
  BY <1>0, <1>1, ExceptIsMap
<1>3. uid \in Uids
  BY <1>1 DEF IsMap
<1>4. Len(e) \in Nat /\ \A i \in 1 .. Len(e) : e[i] \in Uids
  BY <1>1, LenProperties, ElementOfSeq
<1>5. \A i, j \in 1 .. Len(e) : e[i] = e[j] => i = j
  BY DEF ServiceInv, ServiceEndpointsOnce
<1>6. \A i \in 1 .. Len(e) :
        /\ e[i] \in DOMAIN old /\ e[i] \in Announcing
        /\ old[e[i]] = NALEJ_SERVICE_RUNNING
  BY DEF ServiceInv, ServiceEndpointsOnce
<1>7. \A i \in 1 .. Len(e) : e[i] # uid
  BY <1>6, LabelsAssumption DEF Reported
<1>8. \A i \in 1 .. Len(e) :
        /\ e[i] \in DOMAIN new.resources \cap Announcing
        /\ new.resources[e[i]] = NALEJ_SERVICE_RUNNING
  BY <1>2, <1>6, <1>7
<1>9. CASE endpoints = << >>
  <2>1. new.endpoints = e
    BY <1>0, <1>1, <1>9, ConcatEmptySeq
  <2> QED BY <1>1, <1>5, <1>8, <2>1 DEF ServiceEndpointsOnce
<1>10. CASE endpoints # << >>
  <2>1. endpoints = <<uid>> /\ uid \in Announcing /\ status = NALEJ_SERVICE_RUNNING
    BY <1>10 DEF Reported
  <2>2. new.endpoints = Append(e, uid)
    BY <1>0, <1>1, <1>3, <2>1, AppendIsConcat
  <2>3. /\ new.endpoints \in Seq(Uids) /\ Len(new.endpoints) = Len(e) + 1
        /\ \A i \in 1 .. Len(e) : new.endpoints[i] = e[i]
        /\ new.endpoints[Len(e) + 1] = uid
    BY <1>1, <1>3, <2>2, AppendProperties
  <2> HIDE DEF e, old
  <2>4. \A i \in 1 .. Len(new.endpoints) : i \in 1 .. Len(e) \/ i = Len(e) + 1
    BY <1>4, <2>3
  <2>5. \A i, j \in 1 .. Len(new.endpoints) :
          new.endpoints[i] = new.endpoints[j] => i = j
    <3> SUFFICES ASSUME NEW i \in 1 .. Len(new.endpoints),
                        NEW j \in 1 .. Len(new.endpoints),
                        new.endpoints[i] = new.endpoints[j]
                 PROVE  i = j
      OBVIOUS
    <3>1. CASE i \in 1 .. Len(e) /\ j \in 1 .. Len(e)
      BY <1>5, <2>3, <3>1
    <3>2. CASE i \in 1 .. Len(e) /\ j = Len(e) + 1
      BY <1>7, <2>3, <3>2
    <3>3. CASE i = Len(e) + 1 /\ j \in 1 .. Len(e)
      BY <1>7, <2>3, <3>3
    <3> QED BY <2>4, <3>1, <3>2, <3>3
  <2>6. \A i \in 1 .. Len(new.endpoints) :
          /\ new.endpoints[i] \in DOMAIN new.resources \cap Announcing
          /\ new.resources[new.endpoints[i]] = NALEJ_SERVICE_RUNNING
    BY <1>2, <1>4, <1>8, <2>1, <2>3, <2>4 DEF old
  <2> QED BY <2>3, <2>5, <2>6 DEF ServiceEndpointsOnce
<1> QED BY <1>9, <1>10

\* SetResourceStatus on a service.
LEMMA ResourceStatusInv ==
  ASSUME NEW service, ServiceInv(service), NEW uid \in DOMAIN service.resources,
         NEW status, status # service.resources[uid],
         NEW endpoints, Reported(uid, status, endpoints)
  PROVE  ServiceInv(WithResourceStatus(service, uid, status, endpoints))
<1> DEFINE old   == service.resources
           res   == [old EXCEPT ![uid] = status]
           final == WorstStatus(ValuesOf(res))
           new   == WithResourceStatus(service, uid, status, endpoints)
<1>1. service \in MonitoredServiceEntry(old) /\ IsMap(old, Uids)
      /\ ValuesOf(old) \subseteq NalejServiceStatus
      /\ ValuesOf(old) \subseteq DeploymentStatuses \cup {NALEJ_SERVICE_SCHEDULED}
  BY DEF ServiceInv, ServiceTypeOK, ServiceResourcesOK
<1>2. status \in DeploymentStatuses /\ status \in NalejServiceStatus
  BY DEF Reported, DeploymentStatuses, NalejServiceStatus, NALEJ_SERVICE_SCHEDULED,
         NALEJ_SERVICE_DEPLOYING, NALEJ_SERVICE_RUNNING, NALEJ_SERVICE_ERROR,
         NALEJ_SERVICE_TERMINATING
<1>3. /\ IsMap(res, Uids) /\ DOMAIN res = DOMAIN old
      /\ res[uid] = status /\ \A x \in DOMAIN old \ {uid} : res[x] = old[x]
  BY <1>1, ExceptIsMap
<1>4. ValuesOf(res) \subseteq ValuesOf(old) \cup {status}
  BY <1>3 DEF ValuesOf
<1>5. /\ new.resources = res /\ new.endpoints = service.endpoints \o endpoints
      /\ new.status = final
      /\ new.newStatus = (service.newStatus \/ final # service.status)
      /\ new.numPendingChecks = service.numPendingChecks + ChecksDelta(old[uid], status)
      /\ new = [status |-> new.status, newStatus |-> new.newStatus,
                numPendingChecks |-> new.numPendingChecks,
                resources |-> new.resources, endpoints |-> new.endpoints]
  BY DEF WithResourceStatus
<1> HIDE DEF new
<1>6. new.endpoints \in Seq(Uids) /\ ServiceEndpointsOnce(new)
  <2> HIDE DEF old, res, final
  <2> QED BY EndpointsStayOnce DEF new
<1>7. ServicePendingChecksExact(new)
  BY <1>2, <1>5, ChecksDeltaExact
<1>8. /\ final \in NalejServiceStatus
      /\ final = NALEJ_SERVICE_ERROR <=> NALEJ_SERVICE_ERROR \in ValuesOf(res)
      /\ final = NALEJ_SERVICE_RUNNING =>
           ValuesOf(res) \subseteq {NALEJ_SERVICE_RUNNING, NALEJ_SERVICE_TERMINATING}
  <2>1. ValuesOf(res) \in SUBSET NalejServiceStatus
    BY <1>1, <1>2, <1>4
  <2> HIDE DEF res
  <2> QED BY <2>1, WorstStatusFacts
<1>9. ServiceTypeOK(new)
  <2>1. new.numPendingChecks \in Int
    <3>1. service.numPendingChecks \in Int
      BY <1>1 DEF MonitoredServiceEntry
    <3>2. ChecksDelta(old[uid], status) \in Int
      BY DEF ChecksDelta
    <3> QED BY <1>5, <3>1, <3>2
  <2>2. new.newStatus \in BOOLEAN
    BY <1>5, Zenon
  <2>3. new \in MonitoredServiceEntry(new.resources)
    <3> HIDE DEF final, res, old
    <3> QED BY <1>5, <1>6, <1>8, <2>1, <2>2 DEF MonitoredServiceEntry
  <2>4. ValuesOf(res) \subseteq NalejServiceStatus
    BY <1>1, <1>2, <1>4
  <2> HIDE DEF final, res, old
  <2> QED BY <1>3, <1>5, <2>3, <2>4 DEF ServiceTypeOK
<1>10. ServiceResourcesOK(new)
  BY <1>1, <1>2, <1>4, <1>5 DEF ServiceResourcesOK
<1>11. ServiceKindsOK(new)
  BY <1>3, <1>5 DEF ServiceInv, ServiceKindsOK, Reported
<1>12. ServiceStatusSound(new)
  <2>1. NALEJ_SERVICE_TERMINATING \notin ValuesOf(res)
    BY <1>1, <1>2, <1>4
       DEF DeploymentStatuses, NALEJ_SERVICE_SCHEDULED, NALEJ_SERVICE_DEPLOYING,
           NALEJ_SERVICE_RUNNING, NALEJ_SERVICE_ERROR, NALEJ_SERVICE_TERMINATING
  <2> HIDE DEF final, res, old
  <2> QED BY <1>5, <1>8, <2>1 DEF ServiceStatusSound
<1> QED BY <1>6, <1>7, <1>9, <1>10, <1>11, <1>12 DEF ServiceInv, new

----------------------------------------------------------------------------
(***************************************************************************)
(* Entries.                                                                *)
(***************************************************************************)
\* In the table ServicesToFragmentStatus only RUNNING yields DONE.
LEMMA FragmentStatusOfServices ==
  ASSUME NEW s \in NalejServiceStatus
  PROVE  /\ ServicesToFragmentStatus[s] \in FragmentStatus
         /\ ServicesToFragmentStatus[s] = FRAGMENT_DONE => s = NALEJ_SERVICE_RUNNING
BY DEF ServicesToFragmentStatus, NalejServiceStatus, FragmentStatus,
       NALEJ_SERVICE_SCHEDULED, NALEJ_SERVICE_WAITING, NALEJ_SERVICE_DEPLOYING,
       NALEJ_SERVICE_RUNNING, NALEJ_SERVICE_ERROR, NALEJ_SERVICE_TERMINATING,
       FRAGMENT_WAITING, FRAGMENT_DEPLOYING, FRAGMENT_DONE, FRAGMENT_ERROR,
       FRAGMENT_RETRYING, FRAGMENT_TERMINATING

\* The parts of the invariant of an entry, each in the form the proofs use.
LEMMA EntryFacts ==
  ASSUME NEW entry, EntryInv(entry)
  PROVE  /\ entry \in MonitoredAppEntry(entry.services)
         /\ IsMap(entry.services, ServiceInstances)
         /\ IsFiniteSet(DOMAIN entry.services)
         /\ Cardinality(DOMAIN entry.services) \in Nat
         /\ entry.numPendingChecks \in 0 .. Cardinality(DOMAIN entry.services)
         /\ \A s \in DOMAIN entry.services :
              ServiceInv(entry.services[s])
              /\ entry.services[s].status \in NalejServiceStatus
<1>1. entry \in MonitoredAppEntry(entry.services) /\ IsMap(entry.services, ServiceInstances)
  BY DEF EntryInv, EntryTypeOK
<1>2. IsFiniteSet(DOMAIN entry.services)
  BY <1>1 DEF IsMap
<1>3. Cardinality(DOMAIN entry.services) \in Nat
  BY <1>2, FS_CardinalityType
<1>4. entry.numPendingChecks \in 0 .. Cardinality(DOMAIN entry.services)
  BY DEF EntryInv, EntryChecksBounded
<1>5. ASSUME NEW s \in DOMAIN entry.services
      PROVE  ServiceInv(entry.services[s])
             /\ entry.services[s].status \in NalejServiceStatus
  <2>1. ServiceInv(entry.services[s])
    BY DEF EntryInv
  <2> DEFINE service == entry.services[s]
  <2>2. service \in MonitoredServiceEntry(service.resources)
    BY <2>1 DEF ServiceInv, ServiceTypeOK
  <2> HIDE DEF service
  <2>3. service.status \in NalejServiceStatus
    BY <2>2 DEF MonitoredServiceEntry
  <2> QED BY <2>1, <2>3 DEF service
<1> QED BY <1>1, <1>2, <1>3, <1>4, <1>5

\* An entry is good when its services are, its count is within bounds and it
\* is not announced as DONE too early.
LEMMA EntryFromParts ==
  ASSUME NEW new, new \in MonitoredAppEntry(new.services),
         IsMap(new.services, ServiceInstances),
         \A s \in DOMAIN new.services : ServiceInv(new.services[s]),
         EntryDoneSound(new),
         new.numPendingChecks \in 0 .. Cardinality(DOMAIN new.services)
  PROVE  EntryInv(new)
BY DEF EntryInv, EntryTypeOK, EntryChecksBounded, ServiceInv

\* The entry that getMonitoringData builds for a stage is good.
LEMMA MonitoringDataInv ==
  ASSUME NEW S \in SUBSET ServiceInstances, IsFiniteSet(S)
  PROVE  EntryInv(MonitoringData(S))
<1> DEFINE new == MonitoringData(S)
           map == [s \in S |-> NewService]
<1>1. Cardinality(S) \in Nat
  BY FS_CardinalityType
<1>2. new.services = map /\ new.numPendingChecks = Cardinality(S)
      /\ new.status = FRAGMENT_WAITING
      /\ new = [status |-> FRAGMENT_WAITING, newStatus |-> TRUE,
                numPendingChecks |-> Cardinality(S), services |-> map]
  BY DEF MonitoringData
<1>3. IsMap(map, ServiceInstances) /\ DOMAIN map = S
  BY DEF IsMap
<1>4. \A s \in DOMAIN map : ServiceInv(map[s])
  BY NewServiceInv
<1> HIDE DEF new, map
<1>5. new \in MonitoredAppEntry(new.services)
  <2>1. FRAGMENT_WAITING \in FragmentStatus
    BY DEF FragmentStatus, FRAGMENT_WAITING, FRAGMENT_TERMINATING
  <2> QED BY <1>1, <1>2, <2>1 DEF MonitoredAppEntry
<1>6. EntryDoneSound(new)
  BY <1>2 DEF EntryDoneSound, FRAGMENT_WAITING, FRAGMENT_DONE
<1>7. EntryInv(new)
  BY <1>1, <1>2, <1>3, <1>4, <1>5, <1>6, EntryFromParts
<1> QED BY <1>7 DEF new

\* AddEntry on a fragment of which earlier stages are monitored: the fresh
\* services are counted, the others keep their state.
LEMMA AppendServicesInv ==
  ASSUME NEW entry, EntryInv(entry),
         NEW S \in SUBSET ServiceInstances, IsFiniteSet(S)
  PROVE  EntryInv(AppendServices(entry, MonitoringData(S)))
<1> DEFINE old   == entry.services
           fresh == S \ DOMAIN old
           map   == [s \in DOMAIN old \cup fresh |->
                       IF s \in fresh THEN NewService ELSE old[s]]
           count == entry.numPendingChecks + Cardinality(fresh)
           new   == AppendServices(entry, MonitoringData(S))
<1>1. new = [entry EXCEPT !.services = map, !.numPendingChecks = count]
  BY DEF AppendServices, MonitoringData
<1>2. /\ entry \in MonitoredAppEntry(old) /\ IsMap(old, ServiceInstances)
      /\ IsFiniteSet(DOMAIN old) /\ Cardinality(DOMAIN old) \in Nat
      /\ entry.numPendingChecks \in 0 .. Cardinality(DOMAIN old)
      /\ \A s \in DOMAIN old : ServiceInv(old[s])
  BY EntryFacts
<1>3. IsFiniteSet(fresh) /\ Cardinality(fresh) \in Nat
  BY FS_Difference, FS_CardinalityType
<1>4. /\ IsFiniteSet(DOMAIN old \cup fresh)
      /\ Cardinality(DOMAIN old \cup fresh) = Cardinality(DOMAIN old) + Cardinality(fresh)
  <2>1. DOMAIN old \cap fresh = {}
    OBVIOUS
  <2> DEFINE known == DOMAIN old
  <2>2. IsFiniteSet(known) /\ known \cap fresh = {} /\ Cardinality(known) \in Nat
    BY <1>2, <2>1
  <2> HIDE DEF fresh, known
  <2>3. /\ IsFiniteSet(known \cup fresh)
        /\ Cardinality(known \cup fresh)
             = Cardinality(known) + Cardinality(fresh) - Cardinality(known \cap fresh)
    BY <1>3, <2>2, FS_Union
  <2>4. Cardinality(known \cap fresh) = 0
    BY <2>2, FS_EmptySet
  <2>5. Cardinality(known \cup fresh) = Cardinality(known) + Cardinality(fresh)
    BY <1>3, <2>2, <2>3, <2>4
  <2> QED BY <2>3, <2>5 DEF known
<1>5. /\ IsMap(map, ServiceInstances) /\ DOMAIN map = DOMAIN old \cup fresh
      /\ \A s \in DOMAIN map : map[s] = NewService \/ (s \in DOMAIN old /\ map[s] = old[s])
  BY <1>2, <1>4 DEF IsMap
<1>6. \A s \in DOMAIN map : ServiceInv(map[s])
  BY <1>2, <1>5, NewServiceInv
<1>7. count \in Int /\ count \in 0 .. Cardinality(DOMAIN old \cup fresh)
  BY <1>2, <1>3, <1>4
<1>8. /\ new \in MonitoredAppEntry(new.services) /\ new.services = map
      /\ new.numPendingChecks = count /\ new.status = entry.status
  <2> HIDE DEF map, count, new
  <2> QED BY <1>1, <1>2, <1>7 DEF MonitoredAppEntry
<1>9. EntryDoneSound(new)
  <2> SUFFICES ASSUME entry.status = FRAGMENT_DONE, NEW s \in DOMAIN map
               PROVE  map[s].status \in {NALEJ_SERVICE_SCHEDULED, NALEJ_SERVICE_RUNNING,
                                         NALEJ_SERVICE_TERMINATING}
    <3> HIDE DEF map, new
    <3> QED BY <1>8 DEF EntryDoneSound, ServiceStatuses
  <2>1. CASE map[s] = NewService
    BY <2>1 DEF NewService
  <2>2. CASE s \in DOMAIN old /\ map[s] = old[s]
    BY <2>2 DEF EntryInv, EntryDoneSound, ServiceStatuses
  <2> QED BY <1>5, <2>1, <2>2
<1> HIDE DEF new, map, count
<1>10. EntryInv(new)
  BY <1>5, <1>6, <1>7, <1>8, <1>9, EntryFromParts
<1> QED BY <1>10 DEF new

\* SetResourceStatus on an entry: one service changes and the status of the
\* fragment is computed again.
LEMMA WithServiceInv ==
  ASSUME NEW entry, EntryInv(entry), NEW s \in DOMAIN entry.services,
         NEW service, ServiceInv(service)
  PROVE  EntryInv(WithService(entry, s, service))
<1> DEFINE old    == entry.services
           map    == [old EXCEPT ![s] = service]
           status == ServicesToFragmentStatus[WorstStatus(ServiceStatuses(map))]
           new    == WithService(entry, s, service)
<1>1. new = [entry EXCEPT !.services = map, !.status = status]
  BY DEF WithService
<1>2. /\ entry \in MonitoredAppEntry(old) /\ IsMap(old, ServiceInstances)
      /\ entry.numPendingChecks \in 0 .. Cardinality(DOMAIN old)
      /\ \A t \in DOMAIN old : ServiceInv(old[t])
  BY EntryFacts
<1>3. /\ IsMap(map, ServiceInstances) /\ DOMAIN map = DOMAIN old
      /\ map[s] = service /\ \A t \in DOMAIN old \ {s} : map[t] = old[t]
  <2> HIDE DEF old
  <2> QED BY <1>2, ExceptIsMap DEF old
<1>4. \A t \in DOMAIN map : ServiceInv(map[t])
  BY <1>2, <1>3
<1>5. ServiceStatuses(map) \in SUBSET NalejServiceStatus
  <2> SUFFICES ASSUME NEW t \in DOMAIN map PROVE map[t].status \in NalejServiceStatus
    BY DEF ServiceStatuses
  <2> DEFINE one == map[t]
  <2>1. one \in MonitoredServiceEntry(one.resources)
    BY <1>4 DEF ServiceInv, ServiceTypeOK
  <2> HIDE DEF one
  <2>2. one.status \in NalejServiceStatus
    BY <2>1 DEF MonitoredServiceEntry
  <2> QED BY <2>2 DEF one
<1> HIDE DEF map, new
<1>6. /\ status \in FragmentStatus
      /\ status = FRAGMENT_DONE =>
           ServiceStatuses(map) \subseteq {NALEJ_SERVICE_RUNNING, NALEJ_SERVICE_TERMINATING}
  <2> DEFINE worst == WorstStatus(ServiceStatuses(map))
  <2>1. worst \in NalejServiceStatus
        /\ (worst = NALEJ_SERVICE_RUNNING =>
              ServiceStatuses(map) \subseteq
                {NALEJ_SERVICE_RUNNING, NALEJ_SERVICE_TERMINATING})
    BY <1>5, WorstStatusFacts
  <2> HIDE DEF worst
  <2>2. /\ ServicesToFragmentStatus[worst] \in FragmentStatus
        /\ ServicesToFragmentStatus[worst] = FRAGMENT_DONE => worst = NALEJ_SERVICE_RUNNING
    BY <2>1, FragmentStatusOfServices
  <2> QED BY <2>1, <2>2 DEF worst
<1> HIDE DEF status
<1>7. /\ new \in MonitoredAppEntry(new.services) /\ new.services = map
      /\ new.numPendingChecks = entry.numPendingChecks /\ new.status = status
  BY <1>1, <1>2, <1>6 DEF MonitoredAppEntry
<1>8. EntryDoneSound(new)
  BY <1>6, <1>7 DEF EntryDoneSound
<1>9. EntryInv(new)
  BY <1>2, <1>3, <1>4, <1>7, <1>8, EntryFromParts
<1> QED BY <1>9 DEF new

\* AddPendingResource on an entry: the statuses stay as they were.
LEMMA WithPendingInv ==
  ASSUME NEW entry, EntryInv(entry), NEW s \in DOMAIN entry.services, NEW uid \in Uids
  PROVE  EntryInv([entry EXCEPT !.services[s] = WithPendingResource(@, uid)])
<1> DEFINE old == entry.services
           map == [old EXCEPT ![s] = WithPendingResource(old[s], uid)]
           new == [entry EXCEPT !.services[s] = WithPendingResource(@, uid)]
<1>1. /\ entry \in MonitoredAppEntry(old) /\ IsMap(old, ServiceInstances)
      /\ entry.numPendingChecks \in 0 .. Cardinality(DOMAIN old)
      /\ \A t \in DOMAIN old : ServiceInv(old[t])
  BY EntryFacts
<1>2. new = [entry EXCEPT !.services = map]
  BY <1>1 DEF MonitoredAppEntry
<1>3. ServiceInv(WithPendingResource(old[s], uid))
      /\ WithPendingResource(old[s], uid).status = old[s].status
  BY <1>1, PendingResourceInv
<1>4. /\ IsMap(map, ServiceInstances) /\ DOMAIN map = DOMAIN old
      /\ \A t \in DOMAIN map : ServiceInv(map[t]) /\ map[t].status = old[t].status
  BY <1>1, <1>3 DEF IsMap
<1> HIDE DEF map, new
<1>5. /\ new \in MonitoredAppEntry(new.services) /\ new.services = map
      /\ new.numPendingChecks = entry.numPendingChecks /\ new.status = entry.status
  BY <1>1, <1>2 DEF MonitoredAppEntry
<1>6. ServiceStatuses(map) = ServiceStatuses(old)
  BY <1>4 DEF ServiceStatuses
<1>7. EntryDoneSound(new)
  BY <1>5, <1>6 DEF EntryDoneSound, EntryInv
<1>8. EntryInv(new)
  BY <1>1, <1>4, <1>5, <1>7, EntryFromParts
<1> QED BY <1>8 DEF new

\* The methods that only flag services or terminate them.
LEMMA FlaggedEntryInv ==
  ASSUME NEW entry, EntryInv(entry), NEW flag \in BOOLEAN, NEW status \in FragmentStatus,
         NEW flags, NEW statuses, NEW map,
         map = [s \in DOMAIN entry.services |->
                  [entry.services[s] EXCEPT !.newStatus = flags[s], !.status = statuses[s]]],
         \A s \in DOMAIN entry.services :
           /\ flags[s] \in BOOLEAN
           /\ statuses[s] \in {entry.services[s].status, NALEJ_SERVICE_TERMINATING},
         status = FRAGMENT_DONE => entry.status = FRAGMENT_DONE
  PROVE  EntryInv([entry EXCEPT !.newStatus = flag, !.status = status, !.services = map])
<1> DEFINE old == entry.services
           new == [entry EXCEPT !.newStatus = flag, !.status = status, !.services = map]
<1>1. /\ entry \in MonitoredAppEntry(old) /\ IsMap(old, ServiceInstances)
      /\ entry.numPendingChecks \in 0 .. Cardinality(DOMAIN old)
      /\ \A s \in DOMAIN old : ServiceInv(old[s])
  BY EntryFacts
<1>2. IsMap(map, ServiceInstances) /\ DOMAIN map = DOMAIN old
  BY <1>1 DEF IsMap
<1>3. ASSUME NEW s \in DOMAIN old
      PROVE  ServiceInv(map[s]) /\ map[s].status = statuses[s]
  <2> DEFINE one == old[s]
             ff  == flags[s]
             st  == statuses[s]
  <2>1. map[s] = [one EXCEPT !.newStatus = ff, !.status = st]
    OBVIOUS
  <2>2. ServiceInv(one) /\ ff \in BOOLEAN /\ st \in {one.status, NALEJ_SERVICE_TERMINATING}
    BY <1>1
  <2> HIDE DEF one, ff, st
  <2>3. ServiceInv(map[s])
    BY <2>1, <2>2, FlaggedInv
  <2>4. one \in MonitoredServiceEntry(one.resources)
    BY <2>2 DEF ServiceInv, ServiceTypeOK
  <2>5. map[s].status = st
    BY <2>1, <2>4 DEF MonitoredServiceEntry
  <2> QED BY <2>3, <2>5 DEF st
<1> HIDE DEF new
<1>4. /\ new \in MonitoredAppEntry(new.services) /\ new.services = map
      /\ new.numPendingChecks = entry.numPendingChecks /\ new.status = status
  BY <1>1 DEF MonitoredAppEntry, new
<1>5. EntryDoneSound(new)
  <2> DEFINE settled == {NALEJ_SERVICE_SCHEDULED, NALEJ_SERVICE_RUNNING,
                         NALEJ_SERVICE_TERMINATING}
  <2>1. ASSUME status = FRAGMENT_DONE, NEW s \in DOMAIN old
        PROVE  map[s].status \in settled
    BY <1>3, <2>1 DEF EntryInv, EntryDoneSound, ServiceStatuses
  <2> HIDE DEF settled
  <2>2. ASSUME status = FRAGMENT_DONE PROVE ServiceStatuses(map) \subseteq settled
    BY <1>2, <2>1, <2>2, Zenon DEF ServiceStatuses
  <2> QED BY <1>4, <2>2 DEF EntryDoneSound, settled
<1>6. EntryInv(new)
  BY <1>1, <1>2, <1>3, <1>4, <1>5, EntryFromParts
<1> QED BY <1>6 DEF new

\* The statuses the deployment loop and the undeploy requests set: never DONE.
LEMMA LoopStatusIsStatus ==
  /\ LoopStatuses \subseteq FragmentStatus \ {FRAGMENT_DONE}
  /\ FRAGMENT_TERMINATING \in FragmentStatus \ {FRAGMENT_DONE}
  /\ FragmentStatusToNalejServiceStatus[FRAGMENT_TERMINATING] = NALEJ_SERVICE_TERMINATING
BY DEF LoopStatuses, FragmentStatus, FragmentStatusToNalejServiceStatus,
       FRAGMENT_WAITING, FRAGMENT_DEPLOYING, FRAGMENT_DONE, FRAGMENT_ERROR,
       FRAGMENT_RETRYING, FRAGMENT_TERMINATING

\* A service is the record of its fields.
LEMMA ServiceFields ==
  ASSUME NEW service, ServiceInv(service)
  PROVE  /\ service.newStatus \in BOOLEAN
         /\ \A flag : [service EXCEPT !.newStatus = flag]
                        = [service EXCEPT !.newStatus = flag, !.status = service.status]
         /\ \A st : [service EXCEPT !.status = st]
                      = [service EXCEPT !.newStatus = service.newStatus, !.status = st]
         /\ service = [service EXCEPT !.newStatus = service.newStatus,
                                      !.status = service.status]
<1>1. service \in MonitoredServiceEntry(service.resources)
  BY DEF ServiceInv, ServiceTypeOK
<1> QED BY <1>1 DEF MonitoredServiceEntry

\* SetEntryStatus flags the entry and may terminate all its services.
LEMMA WithEntryStatusInv ==
  ASSUME NEW entry, EntryInv(entry), NEW status \in LoopStatuses
  PROVE  EntryInv(WithEntryStatus(entry, status))
<1> DEFINE old      == entry.services
           flag     == entry.newStatus \/ status # entry.status
           flags    == [s \in DOMAIN old |-> old[s].newStatus]
           statuses == [s \in DOMAIN old |->
                          IF status = FRAGMENT_TERMINATING
                          THEN NALEJ_SERVICE_TERMINATING ELSE old[s].status]
           map      == [s \in DOMAIN old |->
                          [old[s] EXCEPT !.newStatus = flags[s], !.status = statuses[s]]]
<1>1. \A s \in DOMAIN old : ServiceInv(old[s])
  BY EntryFacts
<1>2. \A s \in DOMAIN old : flags[s] \in BOOLEAN
                            /\ statuses[s] \in {old[s].status, NALEJ_SERVICE_TERMINATING}
  BY <1>1, ServiceFields
<1>3. [s \in DOMAIN old |->
         IF status = FRAGMENT_TERMINATING
         THEN [old[s] EXCEPT !.status = NALEJ_SERVICE_TERMINATING] ELSE old[s]] = map
  <2> SUFFICES ASSUME NEW s \in DOMAIN old
               PROVE  (IF status = FRAGMENT_TERMINATING
                       THEN [old[s] EXCEPT !.status = NALEJ_SERVICE_TERMINATING] ELSE old[s])
                      = [old[s] EXCEPT !.newStatus = flags[s], !.status = statuses[s]]
    BY Zenon
  <2>1. flags[s] = old[s].newStatus
    OBVIOUS
  <2>2. CASE status = FRAGMENT_TERMINATING
    BY <1>1, <2>1, <2>2, ServiceFields
  <2>3. CASE status # FRAGMENT_TERMINATING
    BY <1>1, <2>1, <2>3, ServiceFields
  <2> QED BY <2>2, <2>3
<1>4. WithEntryStatus(entry, status)
        = [entry EXCEPT !.newStatus = flag, !.status = status, !.services = map]
  BY <1>3 DEF WithEntryStatus
<1>5. status \in FragmentStatus /\ status # FRAGMENT_DONE /\ flag \in BOOLEAN
  BY LoopStatusIsStatus
<1> HIDE DEF flag, flags, statuses
<1>6. map = [s \in DOMAIN entry.services |->
               [entry.services[s] EXCEPT !.newStatus = flags[s], !.status = statuses[s]]]
  OBVIOUS
<1> HIDE DEF map
<1>7. EntryInv([entry EXCEPT !.newStatus = flag, !.status = status, !.services = map])
  BY <1>2, <1>5, <1>6, FlaggedEntryInv, Zenon
<1> QED BY <1>4, <1>7

\* SetAppStatus, called with TERMINATING, terminates all the services.
LEMMA WithAppStatusInv ==
  ASSUME NEW entry, EntryInv(entry)
  PROVE  EntryInv(WithAppStatus(entry, FRAGMENT_TERMINATING))
<1>1. CASE entry.status = FRAGMENT_TERMINATING
  BY <1>1 DEF WithAppStatus
<1>2. CASE entry.status # FRAGMENT_TERMINATING
  <2> DEFINE old      == entry.services
             flags    == [s \in DOMAIN old |->
                            old[s].newStatus \/ old[s].status # NALEJ_SERVICE_TERMINATING]
             statuses == [s \in DOMAIN old |-> NALEJ_SERVICE_TERMINATING]
             map      == [s \in DOMAIN old |->
                            [old[s] EXCEPT !.newStatus = flags[s], !.status = statuses[s]]]
  <2>1. WithAppStatus(entry, FRAGMENT_TERMINATING)
          = [entry EXCEPT !.newStatus = TRUE, !.status = FRAGMENT_TERMINATING,
                          !.services = map]
    BY <1>2, LoopStatusIsStatus DEF WithAppStatus
  <2>2. \A s \in DOMAIN old : flags[s] \in BOOLEAN
                              /\ statuses[s] \in {old[s].status, NALEJ_SERVICE_TERMINATING}
    OBVIOUS
  <2>3. /\ FRAGMENT_TERMINATING \in FragmentStatus
        /\ FRAGMENT_TERMINATING # FRAGMENT_DONE
    BY LoopStatusIsStatus
  <2> HIDE DEF flags, statuses
  <2>4. map = [s \in DOMAIN entry.services |->
                 [entry.services[s] EXCEPT !.newStatus = flags[s], !.status = statuses[s]]]
    OBVIOUS
  <2> HIDE DEF map
  <2>5. EntryInv([entry EXCEPT !.newStatus = TRUE, !.status = FRAGMENT_TERMINATING,
                               !.services = map])
    BY <2>2, <2>3, <2>4, FlaggedEntryInv, Zenon
  <2> QED BY <2>1, <2>5
<1> QED BY <1>1, <1>2

\* ResetServicesUnnotifiedStatus clears flags and nothing else.
LEMMA NotifiedInv ==
  ASSUME NEW entry, EntryInv(entry)
  PROVE  EntryInv(Notified(entry))
<1> DEFINE old      == entry.services
           flags    == [s \in DOMAIN old |-> FALSE]
           statuses == [s \in DOMAIN old |-> old[s].status]
           map      == [s \in DOMAIN old |->
                          [old[s] EXCEPT !.newStatus = flags[s], !.status = statuses[s]]]
<1>1. entry \in MonitoredAppEntry(old) /\ \A s \in DOMAIN old : ServiceInv(old[s])
  BY EntryFacts
<1>2. [s \in DOMAIN old |-> [old[s] EXCEPT !.newStatus = FALSE]] = map
  <2> SUFFICES ASSUME NEW s \in DOMAIN old
               PROVE  [old[s] EXCEPT !.newStatus = FALSE]
                      = [old[s] EXCEPT !.newStatus = flags[s], !.status = statuses[s]]
    BY Zenon
  <2> QED BY <1>1, ServiceFields
<1>3. \A s \in DOMAIN old : flags[s] \in BOOLEAN
                            /\ statuses[s] \in {old[s].status, NALEJ_SERVICE_TERMINATING}
  OBVIOUS
<1> HIDE DEF flags, statuses
<1>4. map = [s \in DOMAIN entry.services |->
               [entry.services[s] EXCEPT !.newStatus = flags[s], !.status = statuses[s]]]
  OBVIOUS
<1> HIDE DEF map
<1>5. Notified(entry) = [entry EXCEPT !.newStatus = FALSE, !.status = entry.status,
                                      !.services = map]
      /\ entry.status \in FragmentStatus
  BY <1>1, <1>2 DEF Notified, MonitoredAppEntry
<1>6. EntryInv([entry EXCEPT !.newStatus = FALSE, !.status = entry.status,
                             !.services = map])
  BY <1>3, <1>4, <1>5, FlaggedEntryInv, Zenon
<1> QED BY <1>5, <1>6

\* UpdateAppStatus: the services it found pending are some of the services.
LEMMA CountedInv ==
  ASSUME NEW entry, EntryInv(entry), NEW found \in SUBSET DOMAIN entry.services
  PROVE  EntryInv([entry EXCEPT !.numPendingChecks = Cardinality(found)])
<1> DEFINE old   == entry.services
           count == Cardinality(found)
           new   == [entry EXCEPT !.numPendingChecks = count]
<1>1. /\ entry \in MonitoredAppEntry(old) /\ IsMap(old, ServiceInstances)
      /\ IsFiniteSet(DOMAIN old) /\ Cardinality(DOMAIN old) \in Nat
      /\ \A s \in DOMAIN old : ServiceInv(old[s])
  BY EntryFacts
<1>2. found \in SUBSET DOMAIN old
  OBVIOUS
<1>3. IsFiniteSet(found) /\ count <= Cardinality(DOMAIN old)
  BY <1>1, <1>2, FS_Subset
<1>4. count \in Nat
  BY <1>3, FS_CardinalityType
<1>5. count \in 0 .. Cardinality(DOMAIN old) /\ count \in Int
  BY <1>1, <1>3, <1>4
<1> HIDE DEF count, new
<1>6. /\ new \in MonitoredAppEntry(new.services) /\ new.services = old
      /\ new.numPendingChecks = count /\ new.status = entry.status
  BY <1>1, <1>5 DEF MonitoredAppEntry, new
<1>7. EntryDoneSound(new)
  BY <1>6 DEF EntryInv, EntryDoneSound
<1>8. EntryInv(new)
  BY <1>1, <1>5, <1>6, <1>7, EntryFromParts
<1> QED BY <1>8 DEF new, count

----------------------------------------------------------------------------
(***************************************************************************)
(* The registry.                                                           *)
(***************************************************************************)
\* A method that replaces a good entry by a good one keeps the others.
LEMMA OneEntryChanges ==
  ASSUME NEW m, EntriesInv(m), NEW f \in DOMAIN m, NEW e, EntryInv(e)
  PROVE  EntriesInv([m EXCEPT ![f] = e])
<1>1. /\ IsMap([m EXCEPT ![f] = e], Fragments)
      /\ DOMAIN [m EXCEPT ![f] = e] = DOMAIN m
      /\ [m EXCEPT ![f] = e][f] = e
      /\ \A x \in DOMAIN m \ {f} : [m EXCEPT ![f] = e][x] = m[x]
  BY ExceptIsMap DEF EntriesInv
<1> DEFINE n == [m EXCEPT ![f] = e]
<1>2. \A x \in DOMAIN n : EntryInv(n[x])
  <2> SUFFICES ASSUME NEW x \in DOMAIN n PROVE EntryInv(n[x])
    OBVIOUS
  <2>1. CASE x = f
    BY <1>1, <2>1
  <2>2. CASE x # f
    BY <1>1, <2>2 DEF EntriesInv
  <2> QED BY <2>1, <2>2
<1> QED BY <1>1, <1>2 DEF EntriesInv

\* A method that stores a good entry keeps the others.
LEMMA OneEntryIsAdded ==
  ASSUME NEW m, EntriesInv(m), NEW f \in Fragments, NEW e, EntryInv(e)
  PROVE  EntriesInv(Put(m, f, e))
<1>1. IsMap(Put(m, f, e), Fragments)
  BY PutIsMap DEF EntriesInv
<1>2. \A x \in DOMAIN Put(m, f, e) : EntryInv(Put(m, f, e)[x])
  BY DEF Put, EntriesInv
<1> QED BY <1>1, <1>2 DEF EntriesInv

\* A method that goes through all the entries and keeps each of them good.
LEMMA EveryEntryChanges ==
  ASSUME NEW m, EntriesInv(m), NEW n, n = [f \in DOMAIN m |-> n[f]],
         \A f \in DOMAIN m : EntryInv(n[f])
  PROVE  EntriesInv(n)
BY DEF EntriesInv, IsMap

\* AddEntry keeps the invariant, for a new fragment and for a known one.
LEMMA AddEntryKeeps ==
  ASSUME RegistryInv, NEW f \in Fragments, NEW S \in SUBSET ServiceInstances,
         IsFiniteSet(S), AddEntry(f, S)
  PROVE  RegistryInv'
<1> DEFINE m == monitoredEntries
<1>1. EntriesInv(m)
  BY DEF RegistryInv
<1>2. CASE Monitored(f)
  <2> DEFINE e == AppendServices(m[f], MonitoringData(S))
  <2>1. f \in DOMAIN m /\ EntryInv(m[f])
    BY <1>1, <1>2 DEF Monitored, EntriesInv
  <2>2. EntryInv(e)
    BY <2>1, AppendServicesInv
  <2>3. m' = [m EXCEPT ![f] = e]
    BY <1>2 DEF AddEntry
  <2>4. EntriesInv([m EXCEPT ![f] = e])
    BY <1>1, <2>1, <2>2, OneEntryChanges
  <2> QED BY <2>3, <2>4 DEF RegistryInv
<1>3. CASE ~ Monitored(f)
  <2>1. EntryInv(MonitoringData(S))
    BY MonitoringDataInv
  <2>2. m' = Put(m, f, MonitoringData(S))
    BY <1>3 DEF AddEntry
  <2>3. EntriesInv(Put(m, f, MonitoringData(S)))
    BY <1>1, <2>1, OneEntryIsAdded
  <2> QED BY <2>2, <2>3 DEF RegistryInv
<1> QED BY <1>2, <1>3

\* SetEntryStatus keeps the invariant.
LEMMA SetEntryStatusKeeps ==
  ASSUME RegistryInv, NEW f \in Fragments, NEW status \in LoopStatuses,
         SetEntryStatus(f, status)
  PROVE  RegistryInv'
<1> DEFINE m == monitoredEntries
           e == WithEntryStatus(m[f], status)
<1>1. EntriesInv(m)
  BY DEF RegistryInv
<1>2. CASE Monitored(f)
  <2>1. f \in DOMAIN m /\ EntryInv(m[f])
    BY <1>1, <1>2 DEF Monitored, EntriesInv
  <2>2. EntryInv(e)
    BY <2>1, WithEntryStatusInv
  <2>3. m' = [m EXCEPT ![f] = e]
    BY <1>2 DEF SetEntryStatus
  <2>4. EntriesInv([m EXCEPT ![f] = e])
    BY <1>1, <2>1, <2>2, OneEntryChanges
  <2> QED BY <2>3, <2>4 DEF RegistryInv
<1>3. CASE ~ Monitored(f)
  <2>1. m' = m
    BY <1>3 DEF SetEntryStatus
  <2> QED BY <1>1, <2>1 DEF RegistryInv
<1> QED BY <1>2, <1>3

\* UpdateAppStatus keeps the invariant.
LEMMA UpdateAppStatusKeeps ==
  ASSUME RegistryInv, NEW f \in Fragments, UpdateAppStatus(f)
  PROVE  RegistryInv'
<1> DEFINE m == monitoredEntries
           counted(found) == [m[f] EXCEPT !.numPendingChecks = Cardinality(found)]
<1>1. EntriesInv(m)
  BY DEF RegistryInv
<1>2. CASE Monitored(f)
  <2>1. f \in DOMAIN m /\ EntryInv(m[f])
    BY <1>1, <1>2 DEF Monitored, EntriesInv
  <2>2. PICK found \in SUBSET DOMAIN m[f].services : m' = [m EXCEPT ![f] = counted(found)]
    BY <1>2 DEF UpdateAppStatus
  <2>3. EntryInv(counted(found))
    BY <2>1, CountedInv
  <2>4. EntriesInv([m EXCEPT ![f] = counted(found)])
    BY <1>1, <2>1, <2>3, OneEntryChanges
  <2> QED BY <2>2, <2>4 DEF RegistryInv
<1>3. CASE ~ Monitored(f)
  <2>1. m' = m
    BY <1>3 DEF UpdateAppStatus
  <2> QED BY <1>1, <2>1 DEF RegistryInv
<1> QED BY <1>2, <1>3

\* SetAppStatus keeps the invariant of every fragment of the application.
LEMMA SetAppStatusKeeps ==
  ASSUME RegistryInv, NEW app \in Apps, SetAppStatus(app, FRAGMENT_TERMINATING)
  PROVE  RegistryInv'
<1> DEFINE m == monitoredEntries
           n == [f \in DOMAIN m |->
                   IF AppOf[f] = app THEN WithAppStatus(m[f], FRAGMENT_TERMINATING) ELSE m[f]]
<1>1. EntriesInv(m)
  BY DEF RegistryInv
<1>2. \A f \in DOMAIN m : EntryInv(n[f])
  BY <1>1, WithAppStatusInv DEF EntriesInv
<1>3. n = [f \in DOMAIN m |-> n[f]]
  OBVIOUS
<1>4. m' = n
  BY DEF SetAppStatus
<1> HIDE DEF n
<1>5. EntriesInv(n)
  BY <1>1, <1>2, <1>3, EveryEntryChanges
<1> QED BY <1>4, <1>5 DEF RegistryInv

\* ResetServicesUnnotifiedStatus keeps the invariant.
LEMMA ResetKeeps ==
  ASSUME RegistryInv, ResetServicesUnnotifiedStatus
  PROVE  RegistryInv'
<1> DEFINE m == monitoredEntries
           n == [f \in DOMAIN m |-> Notified(m[f])]
<1>1. EntriesInv(m)
  BY DEF RegistryInv
<1>2. \A f \in DOMAIN m : EntryInv(n[f])
  BY <1>1, NotifiedInv DEF EntriesInv
<1>3. n = [f \in DOMAIN m |-> n[f]]
  OBVIOUS
<1>4. m' = n
  BY DEF ResetServicesUnnotifiedStatus
<1> HIDE DEF n
<1>5. EntriesInv(n)
  BY <1>1, <1>2, <1>3, EveryEntryChanges
<1> QED BY <1>4, <1>5 DEF RegistryInv

\* RemoveEntry keeps the invariant.
LEMMA RemoveEntryKeeps ==
  ASSUME RegistryInv, NEW f \in Fragments, RemoveEntry(f)
  PROVE  RegistryInv'
<1> DEFINE m == monitoredEntries
<1>1. EntriesInv(m)
  BY DEF RegistryInv
<1>2. IsMap(Delete(m, f), Fragments)
  BY <1>1, DeleteIsMap DEF EntriesInv
<1>3. \A x \in DOMAIN Delete(m, f) : EntryInv(Delete(m, f)[x])
  BY <1>1 DEF Delete, EntriesInv
<1>4. m' = Delete(m, f)
  BY DEF RemoveEntry
<1>5. EntriesInv(Delete(m, f))
  BY <1>2, <1>3 DEF EntriesInv
<1> QED BY <1>4, <1>5 DEF RegistryInv

\* AddPendingResource keeps the invariant, also for what is not monitored.
LEMMA AddPendingResourceKeeps ==
  ASSUME RegistryInv, NEW uid \in Uids, AddMonitoredResource(uid)
  PROVE  RegistryInv'
<1> DEFINE m == monitoredEntries
           f == FragmentLabel[uid]
           s == ServiceLabel[uid]
           e == [m[f] EXCEPT !.services[s] = WithPendingResource(@, uid)]
<1>1. EntriesInv(m)
  BY DEF RegistryInv
<1>2. CASE MonitoredService(f, s)
  <2>1. f \in DOMAIN m /\ s \in DOMAIN m[f].services /\ EntryInv(m[f])
    BY <1>1, <1>2 DEF MonitoredService, Monitored, EntriesInv
  <2>2. EntryInv(e)
    BY <2>1, WithPendingInv
  <2>3. m' = [m EXCEPT ![f] = e]
    BY <1>2, <2>1 DEF AddMonitoredResource, AddPendingResource
  <2>4. EntriesInv([m EXCEPT ![f] = e])
    BY <1>1, <2>1, <2>2, OneEntryChanges
  <2> QED BY <2>3, <2>4 DEF RegistryInv
<1>3. CASE ~ MonitoredService(f, s)
  <2>1. m' = m
    BY <1>3 DEF AddMonitoredResource, AddPendingResource
  <2> QED BY <1>1, <2>1 DEF RegistryInv
<1> QED BY <1>2, <1>3

\* SetResourceStatus keeps the invariant for every event that is reported.
LEMMA SetResourceStatusKeeps ==
  ASSUME RegistryInv, NEW f, NEW s, NEW uid, NEW status, NEW endpoints,
         Reported(uid, status, endpoints),
         SetResourceStatus(f, s, uid, status, endpoints)
  PROVE  RegistryInv'
<1> DEFINE m == monitoredEntries
           old == m[f].services[s]
           new == WithResourceStatus(old, uid, status, endpoints)
           e   == WithService(m[f], s, new)
<1>1. EntriesInv(m)
  BY DEF RegistryInv
<1>2. CASE MonitoredResource(f, s, uid) /\ old.resources[uid] # status
  <2>1. /\ f \in DOMAIN m /\ s \in DOMAIN m[f].services /\ EntryInv(m[f])
        /\ uid \in DOMAIN old.resources
    BY <1>1, <1>2 DEF MonitoredResource, MonitoredService, Monitored, EntriesInv
  <2>2. ServiceInv(old)
    BY <2>1 DEF EntryInv
  <2>3. ServiceInv(new)
    <3> HIDE DEF old
    <3> QED BY <1>2, <2>1, <2>2, ResourceStatusInv
  <2>4. EntryInv(e)
    <3> HIDE DEF new
    <3> QED BY <2>1, <2>3, WithServiceInv
  <2>5. m' = [m EXCEPT ![f] = e]
    BY <1>2 DEF SetResourceStatus
  <2>6. EntriesInv([m EXCEPT ![f] = e])
    <3> HIDE DEF e
    <3> QED BY <1>1, <2>1, <2>4, OneEntryChanges
  <2> QED BY <2>5, <2>6 DEF RegistryInv
<1>3. CASE ~ (MonitoredResource(f, s, uid) /\ old.resources[uid] # status)
  <2>1. m' = m
    BY <1>3 DEF SetResourceStatus
  <2> QED BY <1>1, <2>1 DEF RegistryInv
<1> QED BY <1>2, <1>3

\* The registry starts empty (NewMemoryMonitoredInstances).
LEMMA RegistryInit == Init => RegistryInv
BY EmptyMapIsMap DEF Init, RegistryInv, EntriesInv

\* Every method of the registry keeps the invariant, whoever calls it.
LEMMA RegistryStep == RegistryInv /\ [Next]_monitoredEntries => RegistryInv'
<1> SUFFICES ASSUME RegistryInv, [Next]_monitoredEntries PROVE RegistryInv'
  OBVIOUS
<1>1. ASSUME NEW f \in Fragments, Deploy(f) PROVE RegistryInv'
  <2>1. ASSUME NEW S \in SUBSET ServiceInstances, IsFiniteSet(S), AddEntry(f, S)
        PROVE  RegistryInv'
    BY <2>1, AddEntryKeeps
  <2>2. ASSUME NEW status \in LoopStatuses, SetEntryStatus(f, status)
        PROVE  RegistryInv'
    BY <2>2, SetEntryStatusKeeps
  <2>3. CASE UpdateAppStatus(f)
    BY <2>3, UpdateAppStatusKeeps
  <2> QED BY <1>1, <2>1, <2>2, <2>3 DEF Deploy
<1>2. ASSUME NEW app \in Apps, Undeploy(app) PROVE RegistryInv'
  BY <1>2, SetAppStatusKeeps DEF Undeploy
<1>3. ASSUME NEW uid \in Uids, Event(uid) PROVE RegistryInv'
  <2>1. CASE AddMonitoredResource(uid)
    BY <2>1, AddPendingResourceKeeps
  <2>2. ASSUME uid \in Deployments, NEW status \in DeploymentStatuses,
               OnDeployment(uid, status)
        PROVE  RegistryInv'
    <3>1. Reported(uid, status, << >>)
      BY <2>2 DEF Reported
    <3> QED BY <2>2, <3>1, SetResourceStatusKeeps DEF OnDeployment
  <2>3. CASE uid \notin Deployments /\ OnServiceOrIngress(uid)
    <3> DEFINE endpoints == IF uid \in Announcing THEN <<uid>> ELSE << >>
    <3>1. Reported(uid, NALEJ_SERVICE_RUNNING, endpoints)
      BY <2>3 DEF Reported
    <3>2. SetResourceStatus(FragmentLabel[uid], ServiceLabel[uid], uid,
                            NALEJ_SERVICE_RUNNING, endpoints)
      BY <2>3 DEF OnServiceOrIngress
    <3> HIDE DEF endpoints
    <3> QED BY <3>1, <3>2, SetResourceStatusKeeps
  <2> QED BY <1>3, <2>1, <2>2, <2>3 DEF Event
<1>4. CASE Notify
  <2>1. CASE ResetServicesUnnotifiedStatus
    BY <2>1, ResetKeeps
  <2>2. ASSUME NEW f \in Fragments, RemoveEntry(f) PROVE RegistryInv'
    BY <2>2, RemoveEntryKeeps
  <2> QED BY <1>4, <2>1, <2>2 DEF Notify
<1>5. CASE UNCHANGED monitoredEntries
  BY <1>5 DEF RegistryInv, EntriesInv
<1> QED BY <1>1, <1>2, <1>3, <1>4, <1>5 DEF Next

\* The inductive invariant gives each of the properties.
LEMMA RegistryInvImplies ==
  RegistryInv => /\ TypeOK /\ PendingChecksExact /\ EndpointsOnce
                 /\ StatusSound /\ DoneSound /\ ChecksBounded
BY DEF RegistryInv, EntriesInv, EntryInv, ServiceInv, TypeOK, PendingChecksExact,
       EndpointsOnce, StatusSound, DoneSound, ChecksBounded

\* The inductive invariant holds of every state the registry reaches.
LEMMA RegistryAlways == Spec => []RegistryInv
BY RegistryInit, RegistryStep, PTL DEF Spec

\* The entries keep the fields of the Go structures and finite maps.
THEOREM RegistryTypeCorrect == Spec => []TypeOK
BY RegistryAlways, RegistryInvImplies, PTL

\* The count that AddPendingResource and SetResourceStatus raise and lower is
\* the number of resources that are not RUNNING, however many services and
\* objects there are and in whatever order their events arrive.
THEOREM PendingChecksCorrect == Spec => []PendingChecksExact
BY RegistryAlways, RegistryInvImplies, PTL

\* SetResourceStatus appends the endpoint of an object once, however often
\* its events are delivered again.
THEOREM EndpointsCorrect == Spec => []EndpointsOnce
BY RegistryAlways, RegistryInvImplies, PTL

\* A RUNNING service hides no failed or progressing resource, and an ERROR
\* of a resource is never hidden by the status of its service.
THEOREM StatusCorrect == Spec => []StatusSound
BY RegistryAlways, RegistryInvImplies, PTL

\* A fragment is DONE only when none of its services failed or progresses.
THEOREM DoneCorrect == Spec => []DoneSound
BY RegistryAlways, RegistryInvImplies, PTL

\* The count that WaitPendingChecks compares with 0 is never negative and
\* never above the number of services, across AddEntry and UpdateAppStatus.
THEOREM ChecksStayBounded == Spec => []ChecksBounded
BY RegistryAlways, RegistryInvImplies, PTL

----------------------------------------------------------------------------
(***************************************************************************)
(* Registry and helper.                                                    *)
(***************************************************************************)
\* Every step of the helper and of its callers is a step of the registry, or
\* leaves it alone.
LEMMA ReportStepIsRegistryStep == [ReportNext]_vars => [Next]_monitoredEntries
<1> SUFFICES ASSUME [ReportNext]_vars PROVE [Next]_monitoredEntries
  OBVIOUS
<1>1. CASE Call
  BY <1>1 DEF Call, Next
<1>2. CASE GetPendingNotifications
  BY <1>2 DEF GetPendingNotifications
<1>3. ASSUME NEW f \in Fragments, RemoveTerminating(f) PROVE Next
  BY <1>3 DEF RemoveTerminating, Next, Notify
<1>4. ASSUME NEW f \in Fragments, NEW delivered, SendServices(f, delivered)
      PROVE  UNCHANGED monitoredEntries
  BY <1>4 DEF SendServices
<1>5. ASSUME NEW delivered, SendFragment(delivered) PROVE UNCHANGED monitoredEntries
  BY <1>5 DEF SendFragment
<1>6. CASE Reset
  BY <1>6 DEF Reset, Next, Notify
<1>7. CASE UNCHANGED vars
  BY <1>7 DEF vars
<1>8. QED
  BY <1>1, <1>2, <1>3, <1>4, <1>5, <1>6, <1>7 DEF ReportNext, UpdateStatus

\* What is proved of the registry alone holds beside the helper.
LEMMA ReportingKeepsRegistry == ReportSpec => Spec
<1>1. ReportInit => Init
  BY DEF ReportInit
<1>2. QED
  BY <1>1, ReportStepIsRegistryStep, PTL DEF ReportSpec, Spec

----------------------------------------------------------------------------
(***************************************************************************)
(* What a call does to the flags.  An entry that was there keeps its       *)
(* services and the flags that are up.  A service with a new status is     *)
(* flagged, or its entry is, with one exception: a TERMINATING entry that  *)
(* is terminated again may have services added since.                      *)
(***************************************************************************)
AllTerminating(entry) ==
  \A s \in DOMAIN entry.services : entry.services[s].status = NALEJ_SERVICE_TERMINATING

EntryKept(old, new) ==
  /\ DOMAIN old.services \subseteq DOMAIN new.services
  /\ old.newStatus => new.newStatus
  /\ \A s \in DOMAIN new.services \ DOMAIN old.services : new.services[s].newStatus
  /\ \A s \in DOMAIN old.services :
       /\ old.services[s].newStatus => new.services[s].newStatus
       /\ \/ new.services[s].status = old.services[s].status
          \/ new.newStatus \/ new.services[s].newStatus
          \/ /\ old.status = FRAGMENT_TERMINATING
             /\ new.services[s].status = NALEJ_SERVICE_TERMINATING
  /\ new.status = FRAGMENT_TERMINATING =>
       \/ AllTerminating(new)
       \/ /\ old.status = FRAGMENT_TERMINATING
          /\ \A s \in DOMAIN old.services : new.services[s].status = old.services[s].status

\* The status of the entry as the manager and the undeploy requests set it.
StatusFlagged(old, new) == new.status # old.status => new.newStatus

\* The fields the helper reads have the types of the Go structures.
LEMMA EntryShape ==
  ASSUME NEW entry, EntryInv(entry)
  PROVE  /\ entry \in MonitoredAppEntry(entry.services)
         /\ entry.newStatus \in BOOLEAN /\ entry.status \in FragmentStatus
         /\ DOMAIN entry.services \subseteq ServiceInstances
         /\ \A s \in DOMAIN entry.services :
              /\ entry.services[s] \in MonitoredServiceEntry(entry.services[s].resources)
              /\ entry.services[s].newStatus \in BOOLEAN
              /\ entry.services[s].status \in NalejServiceStatus
<1>1. entry \in MonitoredAppEntry(entry.services) /\ IsMap(entry.services, ServiceInstances)
  BY DEF EntryInv, EntryTypeOK
<1>2. ASSUME NEW s \in DOMAIN entry.services
      PROVE  /\ entry.services[s] \in MonitoredServiceEntry(entry.services[s].resources)
             /\ entry.services[s].newStatus \in BOOLEAN
             /\ entry.services[s].status \in NalejServiceStatus
  <2> DEFINE service == entry.services[s]
  <2>1. service \in MonitoredServiceEntry(service.resources)
    BY DEF EntryInv, ServiceInv, ServiceTypeOK
  <2> HIDE DEF service
  <2>2. service.newStatus \in BOOLEAN /\ service.status \in NalejServiceStatus
    BY <2>1 DEF MonitoredServiceEntry
  <2>3. QED
    BY <2>1, <2>2 DEF service
<1>3. entry.newStatus \in BOOLEAN /\ entry.status \in FragmentStatus
  BY <1>1 DEF MonitoredAppEntry
<1>4. QED
  BY <1>1, <1>2, <1>3 DEF IsMap

\* A step that leaves an entry alone.
LEMMA SameEntryKept ==
  ASSUME NEW entry
  PROVE  EntryKept(entry, entry) /\ StatusFlagged(entry, entry)
BY DEF EntryKept, StatusFlagged

\* AddEntry for a fragment that is monitored: new services are flagged.
LEMMA AppendServicesFlags ==
  ASSUME NEW entry, EntryInv(entry), NEW S \in SUBSET ServiceInstances
  PROVE  LET new == AppendServices(entry, MonitoringData(S)) IN
         EntryKept(entry, new) /\ StatusFlagged(entry, new)
<1> DEFINE old   == entry.services
           fresh == S \ DOMAIN old
           map   == [s \in DOMAIN old \cup fresh |-> IF s \in fresh THEN NewService ELSE old[s]]
           count == entry.numPendingChecks + Cardinality(fresh)
           new   == AppendServices(entry, MonitoringData(S))
<1>1. new = [entry EXCEPT !.services = map, !.numPendingChecks = count]
  BY DEF AppendServices, MonitoringData
<1>2. DOMAIN old \subseteq DOMAIN map /\ (\A s \in DOMAIN old : map[s] = old[s])
      /\ \A s \in DOMAIN map \ DOMAIN old : map[s].newStatus = TRUE
  BY DEF NewService
<1>3. entry \in MonitoredAppEntry(entry.services)
  BY EntryShape
<1> HIDE DEF map, count, new
<1>4. new.services = map /\ new.status = entry.status /\ new.newStatus = entry.newStatus
  BY <1>1, <1>3 DEF MonitoredAppEntry
<1>5. StatusFlagged(entry, new)
  BY <1>4 DEF StatusFlagged
<1>6. EntryKept(entry, new)
  <2>1. \A s \in DOMAIN new.services \ DOMAIN entry.services : new.services[s].newStatus
    BY <1>2, <1>4
  <2>2. /\ DOMAIN entry.services \subseteq DOMAIN new.services
        /\ \A s \in DOMAIN entry.services : new.services[s] = entry.services[s]
    BY <1>2, <1>4
  <2> HIDE DEF old, fresh
  <2>3. QED
    BY <1>4, <2>1, <2>2 DEF EntryKept
<1>7. QED
  BY <1>5, <1>6 DEF new

\* SetEntryStatus flags the entry if its status is new.
LEMMA WithEntryStatusFlags ==
  ASSUME NEW entry, EntryInv(entry), NEW status \in LoopStatuses
  PROVE  LET new == WithEntryStatus(entry, status) IN
         EntryKept(entry, new) /\ StatusFlagged(entry, new)
<1> DEFINE old  == entry.services
           flag == entry.newStatus \/ status # entry.status
           map  == [s \in DOMAIN old |->
                      IF status = FRAGMENT_TERMINATING
                      THEN [old[s] EXCEPT !.status = NALEJ_SERVICE_TERMINATING] ELSE old[s]]
           new  == WithEntryStatus(entry, status)
<1>1. new = [entry EXCEPT !.newStatus = flag, !.status = status, !.services = map]
  BY DEF WithEntryStatus
<1>2. ASSUME NEW s \in DOMAIN old
      PROVE  /\ map[s].newStatus = old[s].newStatus
             /\ map[s].status = IF status = FRAGMENT_TERMINATING THEN NALEJ_SERVICE_TERMINATING
                                ELSE old[s].status
  <2>1. old[s] \in MonitoredServiceEntry(old[s].resources)
    BY EntryShape
  <2>2. QED
    BY <2>1 DEF MonitoredServiceEntry
<1>3. DOMAIN map = DOMAIN old
  OBVIOUS
<1>4. entry \in MonitoredAppEntry(entry.services) /\ entry.newStatus \in BOOLEAN
  BY EntryShape
<1> HIDE DEF map, new, flag
<1>5. new.services = map /\ new.status = status /\ new.newStatus = flag
  BY <1>1, <1>4 DEF MonitoredAppEntry
<1>6. StatusFlagged(entry, new)
  BY <1>5 DEF StatusFlagged, flag
<1>7. EntryKept(entry, new)
  BY <1>2, <1>3, <1>5 DEF EntryKept, AllTerminating, flag
<1>8. QED
  BY <1>6, <1>7 DEF new

\* SetAppStatus flags the entry if its status is new.
LEMMA WithAppStatusFlags ==
  ASSUME NEW entry, EntryInv(entry)
  PROVE  LET new == WithAppStatus(entry, FRAGMENT_TERMINATING) IN
         EntryKept(entry, new) /\ StatusFlagged(entry, new)
<1>1. CASE entry.status = FRAGMENT_TERMINATING
  BY <1>1, SameEntryKept DEF WithAppStatus
<1>2. CASE entry.status # FRAGMENT_TERMINATING
  <2> DEFINE old == entry.services
             map == [s \in DOMAIN old |->
                       [old[s] EXCEPT
                          !.newStatus = old[s].newStatus
                                          \/ old[s].status # NALEJ_SERVICE_TERMINATING,
                          !.status = NALEJ_SERVICE_TERMINATING]]
             new == WithAppStatus(entry, FRAGMENT_TERMINATING)
  <2>1. new = [entry EXCEPT !.newStatus = TRUE, !.status = FRAGMENT_TERMINATING, !.services = map]
    BY <1>2, LoopStatusIsStatus DEF WithAppStatus
  <2>2. ASSUME NEW s \in DOMAIN old
        PROVE  /\ old[s].newStatus => map[s].newStatus
               /\ map[s].status = NALEJ_SERVICE_TERMINATING
    <3>1. old[s] \in MonitoredServiceEntry(old[s].resources)
      BY EntryShape
    <3>2. QED
      BY <3>1 DEF MonitoredServiceEntry
  <2>3. DOMAIN map = DOMAIN old
    OBVIOUS
  <2>4. entry \in MonitoredAppEntry(entry.services)
    BY EntryShape
  <2> HIDE DEF map, new
  <2>5. new.services = map /\ new.newStatus
    BY <2>1, <2>4 DEF MonitoredAppEntry
  <2>6. EntryKept(entry, new) /\ StatusFlagged(entry, new)
    BY <2>2, <2>3, <2>5 DEF EntryKept, StatusFlagged, AllTerminating
  <2>7. QED
    BY <2>6 DEF new
<1>3. QED
  BY <1>1, <1>2

\* UpdateAppStatus counts and does nothing else.
LEMMA CountedFlags ==
  ASSUME NEW entry, EntryInv(entry), NEW count
  PROVE  LET new == [entry EXCEPT !.numPendingChecks = count] IN
         EntryKept(entry, new) /\ StatusFlagged(entry, new)
<1> DEFINE new == [entry EXCEPT !.numPendingChecks = count]
<1>1. entry \in MonitoredAppEntry(entry.services)
  BY EntryShape
<1>2. new.services = entry.services /\ new.status = entry.status
      /\ new.newStatus = entry.newStatus
  BY <1>1 DEF MonitoredAppEntry
<1> HIDE DEF new
<1>3. EntryKept(entry, new) /\ StatusFlagged(entry, new)
  BY <1>2 DEF EntryKept, StatusFlagged
<1>4. QED
  BY <1>3 DEF new

\* AddPendingResource leaves the statuses and the flags alone.
LEMMA WithPendingFlags ==
  ASSUME NEW entry, EntryInv(entry), NEW s \in DOMAIN entry.services, NEW uid \in Uids
  PROVE  EntryKept(entry, [entry EXCEPT !.services[s] = WithPendingResource(@, uid)])
<1> DEFINE old == entry.services
           service == WithPendingResource(old[s], uid)
           map == [old EXCEPT ![s] = service]
           new == [entry EXCEPT !.services[s] = WithPendingResource(@, uid)]
<1>1. entry \in MonitoredAppEntry(entry.services)
      /\ old[s] \in MonitoredServiceEntry(old[s].resources)
      /\ IsMap(old, ServiceInstances)
  BY EntryShape, EntryFacts
<1>2. service.status = old[s].status /\ service.newStatus = old[s].newStatus
  BY <1>1 DEF WithPendingResource, MonitoredServiceEntry
<1>3. DOMAIN map = DOMAIN old /\ map[s] = service /\ \A t \in DOMAIN old \ {s} : map[t] = old[t]
  OBVIOUS
<1>4. new = [entry EXCEPT !.services = map]
  BY <1>1 DEF MonitoredAppEntry
<1> HIDE DEF map, new, service
<1>5. new.services = map /\ new.status = entry.status /\ new.newStatus = entry.newStatus
  BY <1>1, <1>4 DEF MonitoredAppEntry
<1>6. EntryKept(entry, new)
  BY <1>2, <1>3, <1>5 DEF EntryKept
<1>7. QED
  BY <1>6 DEF new

\* SetResourceStatus flags the service if its status is new, and the entry is
\* not TERMINATING after it.
LEMMA WithServiceFlags ==
  ASSUME NEW entry, EntryInv(entry), NEW s \in DOMAIN entry.services, NEW service,
         ServiceInv(service),
         entry.services[s].newStatus => service.newStatus,
         service.status # entry.services[s].status => service.newStatus
  PROVE  EntryKept(entry, WithService(entry, s, service))
<1> DEFINE old    == entry.services
           map    == [old EXCEPT ![s] = service]
           status == ServicesToFragmentStatus[WorstStatus(ServiceStatuses(map))]
           new    == WithService(entry, s, service)
<1>1. new = [entry EXCEPT !.services = map, !.status = status]
  BY DEF WithService
<1>2. entry \in MonitoredAppEntry(entry.services)
  BY EntryShape
<1>3. DOMAIN map = DOMAIN old /\ map[s] = service /\ \A t \in DOMAIN old \ {s} : map[t] = old[t]
  OBVIOUS
<1>4. ServiceStatuses(map) \in SUBSET NalejServiceStatus
  <2> SUFFICES ASSUME NEW t \in DOMAIN map PROVE map[t].status \in NalejServiceStatus
    BY DEF ServiceStatuses
  <2>1. CASE t = s
    <3>1. service \in MonitoredServiceEntry(service.resources)
      BY DEF ServiceInv, ServiceTypeOK
    <3>2. service.status \in NalejServiceStatus
      BY <3>1 DEF MonitoredServiceEntry
    <3>3. QED
      BY <1>3, <2>1, <3>2
  <2>2. CASE t # s
    BY <1>3, <2>2, EntryShape
  <2>3. QED
    BY <2>1, <2>2
<1>5. status # FRAGMENT_TERMINATING
  <2> DEFINE worst == WorstStatus(ServiceStatuses(map))
  <2>1. worst \in NalejServiceStatus \ {NALEJ_SERVICE_TERMINATING}
    BY <1>4, WorstStatusFacts
  <2> HIDE DEF worst
  <2>2. ServicesToFragmentStatus[worst] # FRAGMENT_TERMINATING
    BY <2>1 DEF ServicesToFragmentStatus, NalejServiceStatus,
       NALEJ_SERVICE_SCHEDULED, NALEJ_SERVICE_WAITING, NALEJ_SERVICE_DEPLOYING,
       NALEJ_SERVICE_RUNNING, NALEJ_SERVICE_ERROR, NALEJ_SERVICE_TERMINATING,
       FRAGMENT_WAITING, FRAGMENT_DEPLOYING, FRAGMENT_DONE, FRAGMENT_ERROR,
       FRAGMENT_RETRYING, FRAGMENT_TERMINATING
  <2>3. QED
    BY <2>2 DEF worst
<1> HIDE DEF map, new, status
<1>6. new.services = map /\ new.status = status /\ new.newStatus = entry.newStatus
  BY <1>1, <1>2 DEF MonitoredAppEntry
<1>7. EntryKept(entry, new)
  BY <1>3, <1>5, <1>6 DEF EntryKept
<1>8. QED
  BY <1>7 DEF new

\* What a call does to the registry.
EntriesKept ==
  /\ DOMAIN monitoredEntries \subseteq DOMAIN monitoredEntries'
  /\ \A f \in DOMAIN monitoredEntries : EntryKept(monitoredEntries[f], monitoredEntries'[f])
  /\ \A f \in DOMAIN monitoredEntries' \ DOMAIN monitoredEntries :
       monitoredEntries'[f].newStatus /\ monitoredEntries'[f].status # FRAGMENT_TERMINATING

StatusesFlagged ==
  \A f \in DOMAIN monitoredEntries : StatusFlagged(monitoredEntries[f], monitoredEntries'[f])

\* A call that changes one entry, or none.
LEMMA OneEntryKept ==
  ASSUME NEW f \in DOMAIN monitoredEntries, NEW e, EntryKept(monitoredEntries[f], e),
         monitoredEntries' = [monitoredEntries EXCEPT ![f] = e]
  PROVE  EntriesKept /\ (StatusFlagged(monitoredEntries[f], e) => StatusesFlagged)
<1>1. DOMAIN monitoredEntries' = DOMAIN monitoredEntries
  OBVIOUS
<1>2. ASSUME NEW g \in DOMAIN monitoredEntries
      PROVE  /\ EntryKept(monitoredEntries[g], monitoredEntries'[g])
             /\ StatusFlagged(monitoredEntries[f], e) =>
                  StatusFlagged(monitoredEntries[g], monitoredEntries'[g])
  <2>1. CASE g = f
    BY <2>1
  <2>2. CASE g # f
    <3>1. monitoredEntries'[g] = monitoredEntries[g]
      BY <2>2
    <3>2. QED
      BY <3>1, SameEntryKept
  <2>3. QED
    BY <2>1, <2>2
<1>3. QED
  BY <1>1, <1>2 DEF EntriesKept, StatusesFlagged

\* Methods that return early: nothing is monitored under the name they got.
LEMMA NoEntryChanges ==
  ASSUME UNCHANGED monitoredEntries
  PROVE  EntriesKept /\ StatusesFlagged
BY SameEntryKept DEF EntriesKept, StatusesFlagged

\* The manager's calls.
LEMMA DeployKeeps ==
  ASSUME RegistryInv, NEW f \in Fragments, Deploy(f)
  PROVE  EntriesKept /\ StatusesFlagged
<1> DEFINE m == monitoredEntries
<1>1. f \in DOMAIN m => EntryInv(m[f])
  BY DEF RegistryInv, EntriesInv
<1>2. ASSUME NEW S \in SUBSET ServiceInstances, AddEntry(f, S)
      PROVE  EntriesKept /\ StatusesFlagged
  <2>1. CASE f \in DOMAIN m
    <3> DEFINE e == AppendServices(m[f], MonitoringData(S))
    <3>1. EntryKept(m[f], e) /\ StatusFlagged(m[f], e)
      BY <1>1, <2>1, AppendServicesFlags
    <3>2. m' = [m EXCEPT ![f] = e]
      BY <1>2, <2>1 DEF AddEntry, Monitored
    <3> HIDE DEF e
    <3>3. QED
      BY <2>1, <3>1, <3>2, OneEntryKept
  <2>2. CASE f \notin DOMAIN m
    <3> DEFINE e == MonitoringData(S)
    <3>1. e.newStatus = TRUE /\ e.status # FRAGMENT_TERMINATING
      BY DEF MonitoringData, FRAGMENT_WAITING, FRAGMENT_TERMINATING
    <3>2. m' = Put(m, f, e)
      BY <1>2, <2>2 DEF AddEntry, Monitored
    <3> HIDE DEF e
    <3>3. DOMAIN m' = DOMAIN m \cup {f} /\ m'[f] = e /\ \A g \in DOMAIN m : m'[g] = m[g]
      BY <2>2, <3>2 DEF Put
    <3>4. QED
      BY <3>1, <3>3, SameEntryKept DEF EntriesKept, StatusesFlagged
  <2>3. QED
    BY <2>1, <2>2
<1>3. ASSUME NEW status \in LoopStatuses, SetEntryStatus(f, status)
      PROVE  EntriesKept /\ StatusesFlagged
  <2>1. CASE f \in DOMAIN m
    <3> DEFINE e == WithEntryStatus(m[f], status)
    <3>1. EntryKept(m[f], e) /\ StatusFlagged(m[f], e)
      BY <1>1, <2>1, WithEntryStatusFlags
    <3>2. m' = [m EXCEPT ![f] = e]
      BY <1>3, <2>1 DEF SetEntryStatus, Monitored
    <3> HIDE DEF e
    <3>3. QED
      BY <2>1, <3>1, <3>2, OneEntryKept
  <2>2. CASE f \notin DOMAIN m
    BY <1>3, <2>2, NoEntryChanges DEF SetEntryStatus, Monitored
  <2>3. QED
    BY <2>1, <2>2
<1>4. CASE UpdateAppStatus(f)
  <2>1. CASE f \in DOMAIN m
    <3> PICK found \in SUBSET DOMAIN m[f].services :
          m' = [m EXCEPT ![f].numPendingChecks = Cardinality(found)]
      BY <1>4, <2>1 DEF UpdateAppStatus, Monitored
    <3> DEFINE count == Cardinality(found)
               e == [m[f] EXCEPT !.numPendingChecks = count]
    <3>1. m' = [m EXCEPT ![f] = e]
      OBVIOUS
    <3> HIDE DEF count
    <3>2. EntryKept(m[f], e) /\ StatusFlagged(m[f], e)
      BY <1>1, <2>1, CountedFlags
    <3> HIDE DEF e
    <3>3. QED
      BY <2>1, <3>1, <3>2, OneEntryKept
  <2>2. CASE f \notin DOMAIN m
    BY <1>4, <2>2, NoEntryChanges DEF UpdateAppStatus, Monitored
  <2>3. QED
    BY <2>1, <2>2
<1>5. QED
  BY <1>2, <1>3, <1>4 DEF Deploy

\* An Undeploy request.
LEMMA UndeployKeeps ==
  ASSUME RegistryInv, NEW app \in Apps, Undeploy(app)
  PROVE  EntriesKept /\ StatusesFlagged
<1> DEFINE m == monitoredEntries
<1>1. DOMAIN m' = DOMAIN m
  BY DEF Undeploy, SetAppStatus
<1>2. ASSUME NEW f \in DOMAIN m
      PROVE  EntryKept(m[f], m'[f]) /\ StatusFlagged(m[f], m'[f])
  <2>1. EntryInv(m[f])
    BY DEF RegistryInv, EntriesInv
  <2>2. m'[f] = m[f] \/ m'[f] = WithAppStatus(m[f], FRAGMENT_TERMINATING)
    BY DEF Undeploy, SetAppStatus
  <2>3. QED
    BY <2>1, <2>2, SameEntryKept, WithAppStatusFlags
<1>3. QED
  BY <1>1, <1>2 DEF EntriesKept, StatusesFlagged

\* An event, or an object that is registered.
LEMMA EventKeeps ==
  ASSUME RegistryInv, NEW uid \in Uids, Event(uid)
  PROVE  EntriesKept
<1> DEFINE m == monitoredEntries
           f == FragmentLabel[uid]
           s == ServiceLabel[uid]
<1>1. CASE AddMonitoredResource(uid)
  <2>1. CASE MonitoredService(f, s)
    <3> DEFINE e == [m[f] EXCEPT !.services[s] = WithPendingResource(@, uid)]
    <3>1. f \in DOMAIN m /\ s \in DOMAIN m[f].services /\ EntryInv(m[f])
      BY <2>1 DEF MonitoredService, Monitored, RegistryInv, EntriesInv
    <3>2. m' = [m EXCEPT ![f] = e]
      BY <1>1, <2>1, <3>1 DEF AddMonitoredResource, AddPendingResource
    <3>3. EntryKept(m[f], e)
      BY <3>1, WithPendingFlags
    <3> HIDE DEF e
    <3>4. QED
      BY <3>1, <3>2, <3>3, OneEntryKept
  <2>2. CASE ~MonitoredService(f, s)
    BY <1>1, <2>2, NoEntryChanges DEF AddMonitoredResource, AddPendingResource
  <2>3. QED
    BY <2>1, <2>2
<1>2. ASSUME NEW status, NEW endpoints, Reported(uid, status, endpoints),
             SetResourceStatus(f, s, uid, status, endpoints)
      PROVE  EntriesKept
  <2> DEFINE old == m[f].services[s]
             new == WithResourceStatus(old, uid, status, endpoints)
             e   == WithService(m[f], s, new)
  <2>1. CASE MonitoredResource(f, s, uid) /\ old.resources[uid] # status
    <3>1. /\ f \in DOMAIN m /\ s \in DOMAIN m[f].services /\ EntryInv(m[f])
          /\ uid \in DOMAIN old.resources
      BY <2>1 DEF MonitoredResource, MonitoredService, Monitored, RegistryInv, EntriesInv
    <3>2. ServiceInv(old)
      BY <3>1 DEF EntryInv
    <3>3. ServiceInv(new)
      <4> HIDE DEF old
      <4>1. QED
        BY <1>2, <2>1, <3>1, <3>2, ResourceStatusInv
    <3>4. (old.newStatus => new.newStatus) /\ (new.status # old.status => new.newStatus)
      BY DEF WithResourceStatus
    <3>5. m' = [m EXCEPT ![f] = e]
      BY <1>2, <2>1 DEF SetResourceStatus
    <3>6. EntryKept(m[f], e)
      <4> HIDE DEF new
      <4>1. QED
        BY <3>1, <3>3, <3>4, WithServiceFlags
    <3> HIDE DEF e
    <3>7. QED
      BY <3>1, <3>5, <3>6, OneEntryKept
  <2>2. CASE ~(MonitoredResource(f, s, uid) /\ old.resources[uid] # status)
    BY <1>2, <2>2, NoEntryChanges DEF SetResourceStatus
  <2>3. QED
    BY <2>1, <2>2
<1>3. ASSUME uid \in Deployments, NEW status \in DeploymentStatuses, OnDeployment(uid, status)
      PROVE  EntriesKept
  <2>1. Reported(uid, status, << >>)
    BY <1>3 DEF Reported
  <2>2. QED
    BY <1>2, <1>3, <2>1 DEF OnDeployment
<1>4. CASE uid \notin Deployments /\ OnServiceOrIngress(uid)
  <2> DEFINE endpoints == IF uid \in Announcing THEN <<uid>> ELSE << >>
  <2>1. Reported(uid, NALEJ_SERVICE_RUNNING, endpoints)
    BY <1>4 DEF Reported
  <2>2. SetResourceStatus(f, s, uid, NALEJ_SERVICE_RUNNING, endpoints)
    BY <1>4 DEF OnServiceOrIngress
  <2> HIDE DEF endpoints
  <2>3. QED
    BY <1>2, <2>1, <2>2
<1>5. QED
  BY <1>1, <1>3, <1>4 DEF Event

\* The helper's program counter agrees with its variables, and every pointer
\* of the snapshot leads to a service: to one of the registry, or to one of
\* an entry that RemoveEntry detached.
ReportTypeOK ==
  /\ phase \in {"idle", "remove", "send", "reset"}
  /\ toRemove \subseteq DOMAIN monitoredEntries
  /\ (toRemove # {}) <=> (phase = "remove")
  /\ phase \in {"idle", "reset"} => pending = EmptyMap
  /\ current \in DOMAIN pending \cup {Nobody}
  /\ \A f \in DOMAIN pending : \A s \in pending[f].services :
       IF f \in DOMAIN detached THEN s \in DOMAIN detached[f]
       ELSE MonitoredService(f, s)
  /\ \A x \in DOMAIN knownServices : knownServices[x] \in NalejServiceStatus
  /\ \A f \in DOMAIN knownFragments : knownFragments[f] \in FragmentStatus

----------------------------------------------------------------------------
(***************************************************************************)
(* What the helper relies on.  During a round a status that conductor does *)
(* not know is one that changed since the snapshot, or one that is in the  *)
(* snapshot and still to be sent.  An entry that was removed and came back *)
(* during the round is not the one of the snapshot: all its services are   *)
(* new.                                                                    *)
(***************************************************************************)
SnapshotOK ==
  /\ pending = [f \in DOMAIN pending |-> pending[f]]
  /\ DOMAIN pending \subseteq Fragments
  /\ \A f \in DOMAIN pending : pending[f].status \in FragmentStatus
  /\ \A f \in DOMAIN detached : \A s \in DOMAIN detached[f] : detached[f][s] \in NalejServiceStatus
  /\ toRemove \cap DOMAIN detached = {}
  /\ phase = "idle" => DOMAIN detached = {}
  /\ phase = "remove" => DOMAIN detached \subseteq DOMAIN pending

InSnapshot(f, s) == f \in DOMAIN pending \ DOMAIN detached /\ s \in pending[f].services

Raced(f, s) == <<f, s>> \in racedServices

ServiceHeard(f, s) ==
  /\ phase = "idle" => ServiceFlagged(f, s) \/ ServiceKnown(f, s) \/ Raced(f, s)
  /\ phase # "idle" => \/ ServiceKnown(f, s) \/ Raced(f, s)
                       \/ InSnapshot(f, s) /\ current # f
  /\ f \in DOMAIN detached => Raced(f, s)

\* The exception among the calls: a service of a TERMINATING entry that is not
\* TERMINATING itself was added since, and either its flag is still up, or it
\* was added during a round, or the helper is about to remove the entry.
ServiceTerminated(f, s) ==
  /\ monitoredEntries[f].status = FRAGMENT_TERMINATING
  /\ monitoredEntries[f].services[s].status # NALEJ_SERVICE_TERMINATING
  => IF phase = "idle" THEN monitoredEntries[f].services[s].newStatus \/ Raced(f, s)
     ELSE f \in toRemove \/ (Raced(f, s) /\ ~InSnapshot(f, s))

ServicesOK ==
  \A f \in DOMAIN monitoredEntries : \A s \in DOMAIN monitoredEntries[f].services :
    ServiceHeard(f, s) /\ ServiceTerminated(f, s)

FragmentKnown(f) ==
  f \in DOMAIN knownFragments /\ knownFragments[f] = monitoredEntries[f].status

\* Nothing is sent, and no flag is cleared before the next snapshot.
NothingToSend == phase = "idle" \/ (phase = "remove" /\ DOMAIN pending = {})

FragmentHeard(f) ==
  IF NothingToSend THEN Flagged(monitoredEntries[f]) \/ FragmentKnown(f)
  ELSE IF f \in DOMAIN pending THEN pending[f].status = monitoredEntries[f].status
  ELSE FragmentKnown(f)

FragmentsOK == \A f \in DOMAIN monitoredEntries \ racedFragments : FragmentHeard(f)

HelperInv == ReportTypeOK /\ SnapshotOK /\ ServicesOK /\ FragmentsOK

\* A call, at any point of a round or between two rounds.
LEMMA CallKeeps ==
  ASSUME RegistryInv, RegistryInv', HelperInv, Call
  PROVE  HelperInv'
<1> DEFINE m == monitoredEntries
<1>1. UNCHANGED <<phase, toRemove, pending, current, detached, knownServices, knownFragments>>
  BY DEF Call, helperVars, conductorVars
<1>2. EntriesKept
  BY DeployKeeps, UndeployKeeps, EventKeeps DEF Call
<1>3. racedServices' = racedServices \cup (IF phase = "idle" THEN {} ELSE ChangedServices)
  BY DEF Call
<1>4. /\ racedFragments \subseteq racedFragments'
      /\ \A f \in DOMAIN m' \ racedFragments' :
           \/ f \in DOMAIN m /\ m'[f].status = m[f].status
           \/ phase = "idle" /\ Flagged(m'[f])
  <2>1. racedFragments \subseteq racedFragments'
    BY DEF Call
  <2>2. ASSUME NEW f \in DOMAIN m', f \notin racedFragments',
               ~(f \in DOMAIN m /\ m'[f].status = m[f].status)
        PROVE  phase = "idle" /\ Flagged(m'[f])
    <3>1. f \in ChangedFragments
      BY <2>2 DEF ChangedFragments, Monitored
    <3>2. phase = "idle"
      BY <2>2, <3>1 DEF Call
    <3>3. CASE racedFragments' = racedFragments \cup UnflaggedFragments
      BY <2>2, <3>1, <3>2, <3>3 DEF UnflaggedFragments
    <3>4. CASE (\E g \in Fragments : Deploy(g)) \/ (\E app \in Apps : Undeploy(app))
      <4>1. StatusesFlagged
        BY <3>4, DeployKeeps, UndeployKeeps
      <4>2. m'[f].newStatus
        BY <1>2, <2>2, <4>1 DEF EntriesKept, StatusesFlagged, StatusFlagged
      <4>3. QED
        BY <3>2, <4>2 DEF Flagged
    <3>5. QED
      BY <3>2, <3>3, <3>4 DEF Call
  <2>3. QED
    BY <2>1, <2>2
<1>5. ASSUME NEW f \in DOMAIN m', NEW s \in DOMAIN m'[f].services,
             ~(MonitoredService(f, s) /\ m'[f].services[s].status = m[f].services[s].status),
             phase # "idle"
      PROVE  Raced(f, s)'
  <2>1. Changed(f, s)
    BY <1>5 DEF Changed
  <2>2. <<f, s>> \in ChangedServices
    BY <1>5, <2>1 DEF ChangedServices
  <2>3. QED
    BY <1>3, <1>5, <2>2 DEF Raced
<1>6. \A f, s : Raced(f, s) => Raced(f, s)'
  BY <1>3 DEF Raced
<1>7. \A f, s : MonitoredService(f, s) => MonitoredService(f, s)'
  BY <1>2 DEF EntriesKept, EntryKept, MonitoredService, Monitored
<1>8. ReportTypeOK'
  BY <1>1, <1>2, <1>7 DEF HelperInv, ReportTypeOK, EntriesKept
<1>9. SnapshotOK'
  BY <1>1 DEF HelperInv, SnapshotOK
<1>10. ASSUME NEW f \in DOMAIN m', NEW s \in DOMAIN m'[f].services
       PROVE  ServiceHeard(f, s)' /\ ServiceTerminated(f, s)'
  <2>1. InSnapshot(f, s)' = InSnapshot(f, s)
    BY <1>1 DEF InSnapshot
  <2>2. CASE MonitoredService(f, s) /\ m'[f].services[s].status = m[f].services[s].status
    <3>1. f \in DOMAIN m /\ s \in DOMAIN m[f].services
      BY <2>2 DEF MonitoredService, Monitored
    <3>2. ServiceHeard(f, s) /\ ServiceTerminated(f, s)
      BY <3>1 DEF HelperInv, ServicesOK
    <3>3. EntryKept(m[f], m'[f])
      BY <1>2, <3>1 DEF EntriesKept
    <3>4. ServiceFlagged(f, s) => ServiceFlagged(f, s)'
      BY <3>1, <3>3 DEF EntryKept, ServiceFlagged
    <3>5. ServiceKnown(f, s) => ServiceKnown(f, s)'
      BY <1>1, <2>2 DEF ServiceKnown
    <3>6. ServiceHeard(f, s)'
      BY <1>1, <1>6, <2>1, <3>2, <3>4, <3>5 DEF ServiceHeard
    <3>7. m'[f].status = FRAGMENT_TERMINATING =>
            \/ m[f].status = FRAGMENT_TERMINATING
            \/ m'[f].services[s].status = NALEJ_SERVICE_TERMINATING
      BY <3>3 DEF EntryKept, AllTerminating
    <3>8. m[f].services[s].newStatus => m'[f].services[s].newStatus
      BY <3>1, <3>3 DEF EntryKept
    <3>9. ServiceTerminated(f, s)'
      BY <1>1, <1>6, <2>1, <2>2, <3>2, <3>7, <3>8 DEF ServiceTerminated
    <3>10. QED
      BY <3>6, <3>9
  <2>3. CASE MonitoredService(f, s) /\ m'[f].services[s].status # m[f].services[s].status
    <3>1. f \in DOMAIN m /\ s \in DOMAIN m[f].services
      BY <2>3 DEF MonitoredService, Monitored
    <3>2. ServiceHeard(f, s) /\ ServiceTerminated(f, s)
      BY <3>1 DEF HelperInv, ServicesOK
    <3>3. EntryKept(m[f], m'[f])
      BY <1>2, <3>1 DEF EntriesKept
    <3>4. m'[f].status = FRAGMENT_TERMINATING => m'[f].services[s].status = NALEJ_SERVICE_TERMINATING
      BY <2>3, <3>1, <3>3 DEF EntryKept, AllTerminating
    <3>5. ServiceTerminated(f, s)'
      BY <3>4 DEF ServiceTerminated
    <3>6. CASE phase # "idle"
      BY <1>1, <1>5, <2>3, <3>5, <3>6 DEF ServiceHeard
    <3>7. CASE phase = "idle"
      <4>1. f \notin DOMAIN detached'
        BY <1>1, <3>7 DEF HelperInv, SnapshotOK
      <4>2. CASE m'[f].newStatus \/ m'[f].services[s].newStatus
        BY <1>1, <3>5, <3>7, <4>1, <4>2 DEF ServiceHeard, ServiceFlagged
      <4>3. CASE /\ m[f].status = FRAGMENT_TERMINATING
                 /\ ~m'[f].newStatus /\ ~m'[f].services[s].newStatus
        <5>1. ~m[f].services[s].newStatus
          BY <3>1, <3>3, <4>3 DEF EntryKept
        <5>2. m[f].services[s].status # NALEJ_SERVICE_TERMINATING
          BY <2>3, <3>1, <3>3, <4>3 DEF EntryKept
        <5>3. Raced(f, s)
          BY <3>2, <3>7, <4>3, <5>1, <5>2 DEF ServiceTerminated
        <5>4. QED
          BY <1>1, <1>6, <3>5, <3>7, <4>1, <5>3 DEF ServiceHeard
      <4>4. QED
        BY <2>3, <3>1, <3>3, <3>5, <4>2, <4>3 DEF EntryKept
    <3>8. QED
      BY <3>5, <3>6, <3>7
  <2>4. CASE ~MonitoredService(f, s)
    <3>1. ServiceFlagged(f, s)' /\ (f \in DOMAIN m => m'[f].services[s].newStatus)
      BY <1>2, <2>4 DEF EntriesKept, EntryKept, MonitoredService, Monitored, ServiceFlagged
    <3>2. ~InSnapshot(f, s)
      BY <2>4 DEF HelperInv, ReportTypeOK, InSnapshot
    <3>3. f \notin DOMAIN m => m'[f].status # FRAGMENT_TERMINATING
      BY <1>2 DEF EntriesKept
    <3>4. CASE phase = "idle"
      <4>1. f \notin DOMAIN detached'
        BY <1>1, <3>4 DEF HelperInv, SnapshotOK
      <4>2. QED
        BY <1>1, <3>1, <3>3, <3>4, <4>1 DEF ServiceHeard, ServiceTerminated
    <3>5. CASE phase # "idle"
      BY <1>1, <1>5, <2>1, <2>4, <3>2, <3>5 DEF ServiceHeard, ServiceTerminated
    <3>6. QED
      BY <3>4, <3>5
  <2>5. QED
    BY <2>2, <2>3, <2>4
<1>11. ASSUME NEW f \in DOMAIN m', f \notin racedFragments' PROVE FragmentHeard(f)'
  <2>1. NothingToSend' = NothingToSend
    BY <1>1 DEF NothingToSend
  <2>2. CASE phase = "idle" /\ Flagged(m'[f])
    BY <1>1, <2>2 DEF FragmentHeard, NothingToSend
  <2>3. CASE f \in DOMAIN m /\ m'[f].status = m[f].status
    <3>1. FragmentHeard(f)
      BY <1>4, <1>11, <2>3 DEF HelperInv, FragmentsOK
    <3>2. Flagged(m[f]) => Flagged(m'[f])
      BY <1>2, <2>3 DEF EntriesKept, EntryKept, Flagged
    <3>3. FragmentKnown(f)' = FragmentKnown(f)
      BY <1>1, <2>3 DEF FragmentKnown
    <3>4. QED
      BY <1>1, <2>1, <2>3, <3>1, <3>2, <3>3 DEF FragmentHeard
  <2>4. QED
    BY <1>4, <1>11, <2>2, <2>3
<1>12. QED
  BY <1>8, <1>9, <1>10, <1>11 DEF HelperInv, ServicesOK, FragmentsOK

\* The snapshot holds whatever is flagged, but for fragments without services.
LEMMA SnapshotKeeps ==
  ASSUME RegistryInv, HelperInv, GetPendingNotifications
  PROVE  HelperInv'
<1> DEFINE m == monitoredEntries
           terminating == {f \in DOMAIN m : m[f].status = FRAGMENT_TERMINATING}
           collected == {f \in DOMAIN m : Unnotified(m[f]) # {}}
<1>1. /\ phase = "idle" /\ toRemove' = terminating
      /\ pending' = [f \in collected |-> [status |-> m[f].status, services |-> Unnotified(m[f])]]
      /\ phase' = IF terminating # {} THEN "remove" ELSE AfterRemovals(pending')
      /\ racedFragments' = (racedFragments \ collected) \cup LeftOut(collected)
      /\ UNCHANGED <<monitoredEntries, current, detached, knownServices, knownFragments, racedServices>>
  BY DEF GetPendingNotifications, conductorVars
<1>2. DOMAIN pending' = collected
      /\ \A f \in collected : /\ pending'[f].status = m[f].status
                             /\ pending'[f].services = Unnotified(m[f])
  BY <1>1
<1>3. /\ phase' = IF terminating # {} THEN "remove" ELSE IF collected = {} THEN "idle" ELSE "send"
      /\ collected = {} => pending' = EmptyMap
  BY <1>1, <1>2 DEF AfterRemovals, EmptyMap
<1>4. /\ DOMAIN m \subseteq Fragments
      /\ \A f \in DOMAIN m : m[f].status \in FragmentStatus
  <2>1. \A f \in DOMAIN m : EntryInv(m[f])
    BY DEF RegistryInv, EntriesInv
  <2>2. QED
    BY <2>1, EntryShape DEF RegistryInv, EntriesInv, IsMap
<1>5. current = Nobody /\ DOMAIN detached = {}
  BY <1>1 DEF HelperInv, ReportTypeOK, SnapshotOK, EmptyMap
<1>6. SnapshotOK'
  <2>1. pending' = [f \in DOMAIN pending' |-> pending'[f]]
    BY <1>1
  <2>2. QED
    BY <1>1, <1>2, <1>4, <1>5, <2>1 DEF SnapshotOK
<1>7. ReportTypeOK'
  <2>1. \A f \in DOMAIN pending' : \A s \in pending'[f].services : MonitoredService(f, s)'
    BY <1>1, <1>2 DEF Unnotified, MonitoredService, Monitored
  <2>2. (toRemove' # {}) <=> (phase' = "remove")
    BY <1>1, <1>3
  <2>3. phase' \in {"idle", "reset"} => pending' = EmptyMap
    BY <1>3
  <2>4. QED
    BY <1>1, <1>3, <1>5, <2>1, <2>2, <2>3 DEF HelperInv, ReportTypeOK
<1>8. ASSUME NEW f \in DOMAIN m', NEW s \in DOMAIN m'[f].services
      PROVE  ServiceHeard(f, s)' /\ ServiceTerminated(f, s)'
  <2>1. f \in DOMAIN m /\ s \in DOMAIN m[f].services
    BY <1>1
  <2>2. ServiceHeard(f, s)
    BY <2>1 DEF HelperInv, ServicesOK
  <2>3. ServiceFlagged(f, s) => InSnapshot(f, s)' /\ collected # {}
    BY <1>1, <1>2, <1>5, <2>1 DEF ServiceFlagged, Unnotified, InSnapshot
  <2>4. /\ ServiceKnown(f, s)' = ServiceKnown(f, s) /\ Raced(f, s)' = Raced(f, s)
        /\ ServiceFlagged(f, s)' = ServiceFlagged(f, s)
    BY <1>1 DEF ServiceKnown, Raced, ServiceFlagged
  <2>5. f # Nobody
    BY <1>4, <2>1, NobodyAssumption
  <2>6. ServiceHeard(f, s)'
    BY <1>1, <1>3, <1>5, <2>2, <2>3, <2>4, <2>5 DEF ServiceHeard
  <2>7. m[f].status = FRAGMENT_TERMINATING => f \in toRemove' /\ phase' # "idle"
    BY <1>1, <1>3, <2>1
  <2>8. ServiceTerminated(f, s)'
    BY <1>1, <2>7 DEF ServiceTerminated
  <2>9. QED
    BY <2>6, <2>8
<1>9. ASSUME NEW f \in DOMAIN m', f \notin racedFragments' PROVE FragmentHeard(f)'
  <2>1. f \in DOMAIN m /\ FragmentKnown(f)' = FragmentKnown(f) /\ Flagged(m[f])' = Flagged(m[f])
    BY <1>1 DEF FragmentKnown, Flagged
  <2>2. CASE f \in collected
    BY <1>2, <1>1, <1>3, <2>2 DEF FragmentHeard, NothingToSend
  <2>3. CASE f \notin collected
    <3>1. f \notin racedFragments /\ f \notin LeftOut(collected)
      BY <1>1, <1>9, <2>3
    <3>2. Flagged(m[f]) \/ FragmentKnown(f)
      BY <1>1, <2>1, <3>1 DEF HelperInv, FragmentsOK, FragmentHeard, NothingToSend
    <3>3. CASE FragmentKnown(f)
      BY <1>2, <2>1, <2>3, <3>3 DEF FragmentHeard
    <3>4. CASE Flagged(m[f])
      <4>1. collected = {}
        BY <2>1, <2>3, <3>1, <3>4 DEF LeftOut, Flagged, Unnotified
      <4>2. NothingToSend'
        BY <1>2, <1>3, <4>1 DEF NothingToSend
      <4>3. QED
        BY <1>1, <3>4, <4>2 DEF FragmentHeard
    <3>5. QED
      BY <3>2, <3>3, <3>4
  <2>4. QED
    BY <2>2, <2>3
<1>10. QED
  BY <1>6, <1>7, <1>8, <1>9 DEF HelperInv, ServicesOK, FragmentsOK

\* A removal takes the entry from the registry and not from the snapshot.
LEMMA RemovalKeeps ==
  ASSUME RegistryInv, HelperInv, NEW f \in Fragments, RemoveTerminating(f)
  PROVE  HelperInv'
<1> DEFINE m == monitoredEntries
           statuses == [s \in pending[f].services |-> m[f].services[s].status]
<1>1. /\ phase = "remove" /\ f \in toRemove /\ toRemove' = toRemove \ {f}
      /\ phase' = IF toRemove' = {} THEN AfterRemovals(pending) ELSE phase
      /\ racedServices' = {x \in racedServices : x[1] # f}
      /\ racedFragments' = racedFragments \ ({f} \cap DOMAIN pending)
      /\ UNCHANGED <<pending, current, knownServices, knownFragments>>
  BY DEF RemoveTerminating, conductorVars
<1>2. DOMAIN m' = DOMAIN m \ {f} /\ \A g \in DOMAIN m' : m'[g] = m[g]
  BY DEF RemoveTerminating, RemoveEntry, Delete
<1>3. f \in DOMAIN m /\ f \notin DOMAIN detached
  BY <1>1 DEF HelperInv, ReportTypeOK, SnapshotOK
<1>4. /\ DOMAIN detached' = DOMAIN detached \cup ({f} \cap DOMAIN pending)
      /\ \A g \in DOMAIN detached : detached'[g] = detached[g]
      /\ f \in DOMAIN pending => detached'[f] = statuses
  <2> HIDE DEF statuses
  <2>1. CASE f \in DOMAIN pending
    <3>1. detached' = Put(detached, f, statuses)
      BY <2>1 DEF RemoveTerminating, statuses
    <3>2. QED
      BY <1>3, <2>1, <3>1 DEF Put
  <2>2. CASE f \notin DOMAIN pending
    <3>1. detached' = detached
      BY <2>2 DEF RemoveTerminating
    <3>2. QED
      BY <2>2, <3>1
  <2>3. QED
    BY <2>1, <2>2
<1>5. f \in DOMAIN pending => \A s \in pending[f].services : statuses[s] \in NalejServiceStatus
  <2> SUFFICES ASSUME f \in DOMAIN pending, NEW s \in pending[f].services
               PROVE  m[f].services[s].status \in NalejServiceStatus
    OBVIOUS
  <2>1. s \in DOMAIN m[f].services
    BY <1>3 DEF HelperInv, ReportTypeOK, MonitoredService
  <2>2. EntryInv(m[f])
    BY <1>3 DEF RegistryInv, EntriesInv
  <2>3. QED
    BY <2>1, <2>2, EntryShape
<1>6. DOMAIN statuses = pending[f].services
  OBVIOUS
<1> HIDE DEF statuses
<1>7. /\ phase' = IF toRemove' = {} THEN IF DOMAIN pending = {} THEN "idle" ELSE "send" ELSE "remove"
      /\ DOMAIN pending = {} => pending = EmptyMap
  <2>1. DOMAIN pending = {} => pending = EmptyMap
    BY DEF HelperInv, SnapshotOK, EmptyMap
  <2>2. QED
    BY <1>1, <2>1 DEF AfterRemovals
<1>8. SnapshotOK'
  <2>1. DOMAIN detached \subseteq DOMAIN pending
    BY <1>1 DEF HelperInv, SnapshotOK
  <2>2. \A g \in DOMAIN detached' : \A s \in DOMAIN detached'[g] :
          detached'[g][s] \in NalejServiceStatus
    BY <1>4, <1>5, <1>6 DEF HelperInv, SnapshotOK
  <2>3. QED
    BY <1>1, <1>4, <1>7, <2>1, <2>2 DEF HelperInv, SnapshotOK
<1>9. ReportTypeOK'
  <2>1. ASSUME NEW g \in DOMAIN pending', NEW s \in pending'[g].services
        PROVE  IF g \in DOMAIN detached' THEN s \in DOMAIN detached'[g] ELSE MonitoredService(g, s)'
    <3>1. CASE g = f
      BY <1>1, <1>4, <1>6, <2>1, <3>1
    <3>2. CASE g # f
      BY <1>1, <1>2, <1>4, <2>1, <3>2 DEF HelperInv, ReportTypeOK, MonitoredService, Monitored
    <3>3. QED
      BY <3>1, <3>2
  <2>2. QED
    BY <1>1, <1>2, <1>7, <2>1 DEF HelperInv, ReportTypeOK
<1>10. ASSUME NEW g \in DOMAIN m', NEW s \in DOMAIN m'[g].services
       PROVE  ServiceHeard(g, s)' /\ ServiceTerminated(g, s)'
  <2>1. g # f /\ g \in DOMAIN m /\ s \in DOMAIN m[g].services /\ m'[g] = m[g]
    BY <1>2
  <2>2. ServiceHeard(g, s) /\ ServiceTerminated(g, s)
    BY <2>1 DEF HelperInv, ServicesOK
  <2>3. /\ ServiceKnown(g, s)' = ServiceKnown(g, s)
        /\ Raced(g, s)' = Raced(g, s)
        /\ InSnapshot(g, s)' = InSnapshot(g, s)
        /\ g \in DOMAIN detached' <=> g \in DOMAIN detached
    BY <1>1, <1>4, <2>1 DEF ServiceKnown, Raced, InSnapshot
  <2>4. phase' = "idle" => ~InSnapshot(g, s)
    BY <1>7 DEF InSnapshot
  <2>5. ServiceHeard(g, s)'
    BY <1>1, <1>7, <2>2, <2>3, <2>4 DEF ServiceHeard
  <2>6. phase' = "idle" => toRemove' = {}
    BY <1>7
  <2>7. ServiceTerminated(g, s)'
    BY <1>1, <2>1, <2>2, <2>3, <2>6 DEF ServiceTerminated
  <2>8. QED
    BY <2>5, <2>7
<1>11. ASSUME NEW g \in DOMAIN m', g \notin racedFragments' PROVE FragmentHeard(g)'
  <2>1. g # f /\ g \in DOMAIN m /\ g \notin racedFragments /\ m'[g] = m[g]
    BY <1>1, <1>2, <1>11
  <2>2. FragmentHeard(g)
    BY <2>1 DEF HelperInv, FragmentsOK
  <2>3. FragmentKnown(g)' = FragmentKnown(g)
    BY <1>1, <2>1 DEF FragmentKnown
  <2>4. NothingToSend' = NothingToSend
    BY <1>1, <1>7 DEF NothingToSend
  <2>5. QED
    BY <1>1, <2>1, <2>2, <2>3, <2>4 DEF FragmentHeard
<1>12. QED
  BY <1>8, <1>9, <1>10, <1>11 DEF HelperInv, ServicesOK, FragmentsOK

\* The services of a fragment are read when the message about them is built:
\* if it is delivered conductor knows them as they are, and if it is not they
\* are among the exceptions.
LEMMA SendServicesKeeps ==
  ASSUME RegistryInv, HelperInv, NEW f \in Fragments, NEW delivered \in BOOLEAN,
         SendServices(f, delivered)
  PROVE  HelperInv'
<1> DEFINE m == monitoredEntries
           subjects == {<<f, s>> : s \in pending[f].services}
<1>1. /\ phase = "send" /\ current = Nobody /\ f \in DOMAIN pending /\ current' = f
      /\ UNCHANGED <<monitoredEntries, phase, toRemove, pending, detached,
                     knownFragments, racedFragments>>
  BY DEF SendServices
<1>2. \A g, s : <<g, s>> \in subjects <=> g = f /\ s \in pending[f].services
  OBVIOUS
<1>3. \A x \in subjects : x[1] = f /\ x[2] \in pending[f].services /\ x = <<x[1], x[2]>>
  OBVIOUS
<1>4. CASE delivered
  <2>1. /\ knownServices' = [x \in DOMAIN knownServices \cup subjects |->
                              IF x \in subjects THEN PointedStatus(f, x[2]) ELSE knownServices[x]]
        /\ racedServices' = IF f \in DOMAIN detached THEN racedServices
                            ELSE racedServices \ subjects
    BY <1>4 DEF SendServices
  <2> HIDE DEF subjects
  <2>2. ASSUME NEW s \in pending[f].services PROVE PointedStatus(f, s) \in NalejServiceStatus
    <3>1. CASE f \in DOMAIN detached
      BY <1>1, <3>1 DEF HelperInv, ReportTypeOK, SnapshotOK, PointedStatus
    <3>2. CASE f \notin DOMAIN detached
      <4>1. f \in DOMAIN m /\ s \in DOMAIN m[f].services
        BY <1>1, <3>2 DEF HelperInv, ReportTypeOK, MonitoredService, Monitored
      <4>2. EntryInv(m[f])
        BY <4>1 DEF RegistryInv, EntriesInv
      <4>3. QED
        BY <3>2, <4>1, <4>2, EntryShape DEF PointedStatus
    <3>3. QED
      BY <3>1, <3>2
  <2>3. \A x \in DOMAIN knownServices' : knownServices'[x] \in NalejServiceStatus
    BY <1>3, <2>1, <2>2 DEF HelperInv, ReportTypeOK
  <2>4. SnapshotOK'
    BY <1>1 DEF HelperInv, SnapshotOK
  <2>5. ReportTypeOK'
    BY <1>1, <2>3 DEF HelperInv, ReportTypeOK, MonitoredService, Monitored
  <2>6. ASSUME NEW g \in DOMAIN m', NEW s \in DOMAIN m'[g].services
        PROVE  ServiceHeard(g, s)' /\ ServiceTerminated(g, s)'
    <3>1. g \in DOMAIN m /\ s \in DOMAIN m[g].services
      BY <1>1
    <3>2. ServiceHeard(g, s) /\ ServiceTerminated(g, s)
      BY <3>1 DEF HelperInv, ServicesOK
    <3>3. InSnapshot(g, s)' = InSnapshot(g, s)
      BY <1>1 DEF InSnapshot
    <3>4. CASE <<g, s>> \notin subjects
      <4>1. ServiceKnown(g, s)' = ServiceKnown(g, s) /\ Raced(g, s)' = Raced(g, s)
        BY <1>1, <2>1, <3>4 DEF ServiceKnown, Raced
      <4>2. InSnapshot(g, s) => g # f
        BY <1>2, <3>4 DEF InSnapshot
      <4>3. QED
        BY <1>1, <3>2, <3>3, <4>1, <4>2 DEF ServiceHeard, ServiceTerminated
    <3>5. CASE <<g, s>> \in subjects /\ f \in DOMAIN detached
      <4>1. g = f
        BY <1>2, <3>5
      <4>2. Raced(g, s)' = Raced(g, s)
        BY <2>1, <3>5 DEF Raced
      <4>3. QED
        BY <1>1, <3>2, <3>3, <3>5, <4>1, <4>2 DEF ServiceHeard, ServiceTerminated
    <3>6. CASE <<g, s>> \in subjects /\ f \notin DOMAIN detached
      <4>1. g = f /\ InSnapshot(g, s)
        BY <1>1, <1>2, <3>6 DEF InSnapshot
      <4>2. knownServices'[<<g, s>>] = m[g].services[s].status
        BY <2>1, <3>6, <4>1 DEF PointedStatus
      <4>3. ServiceKnown(g, s)'
        BY <1>1, <2>1, <3>6, <4>2 DEF ServiceKnown
      <4>4. QED
        BY <1>1, <3>2, <3>3, <3>6, <4>1, <4>3 DEF ServiceHeard, ServiceTerminated
    <3>7. QED
      BY <3>4, <3>5, <3>6
  <2>7. FragmentsOK'
    BY <1>1 DEF HelperInv, FragmentsOK, FragmentHeard, FragmentKnown, NothingToSend, Flagged
  <2>8. QED
    BY <2>4, <2>5, <2>6, <2>7 DEF HelperInv, ServicesOK
<1>5. CASE ~delivered
  <2>1. racedServices' = racedServices \cup subjects /\ knownServices' = knownServices
    BY <1>5 DEF SendServices
  <2> HIDE DEF subjects
  <2>2. SnapshotOK'
    BY <1>1 DEF HelperInv, SnapshotOK
  <2>3. ReportTypeOK'
    BY <1>1, <2>1 DEF HelperInv, ReportTypeOK, MonitoredService, Monitored
  <2>4. ASSUME NEW g \in DOMAIN m', NEW s \in DOMAIN m'[g].services
        PROVE  ServiceHeard(g, s)' /\ ServiceTerminated(g, s)'
    <3>1. ServiceHeard(g, s) /\ ServiceTerminated(g, s)
      BY <1>1 DEF HelperInv, ServicesOK
    <3>2. /\ InSnapshot(g, s)' = InSnapshot(g, s)
          /\ ServiceKnown(g, s)' = ServiceKnown(g, s)
          /\ Raced(g, s) => Raced(g, s)'
          /\ InSnapshot(g, s) /\ g = f => Raced(g, s)'
      BY <1>1, <1>2, <2>1 DEF InSnapshot, ServiceKnown, Raced
    <3>3. QED
      BY <1>1, <3>1, <3>2 DEF ServiceHeard, ServiceTerminated
  <2>5. FragmentsOK'
    BY <1>1 DEF HelperInv, FragmentsOK, FragmentHeard, FragmentKnown, NothingToSend, Flagged
  <2>6. QED
    BY <2>2, <2>3, <2>4, <2>5 DEF HelperInv, ServicesOK
<1>6. QED
  BY <1>4, <1>5

\* The fragment leaves the snapshot once its status was sent.
LEMMA SendFragmentKeeps ==
  ASSUME RegistryInv, HelperInv, NEW delivered \in BOOLEAN, SendFragment(delivered)
  PROVE  HelperInv'
<1> DEFINE m == monitoredEntries
<1>1. /\ phase = "send" /\ current # Nobody /\ current' = Nobody
      /\ pending' = Delete(pending, current)
      /\ phase' = IF DOMAIN pending' = {} THEN "reset" ELSE phase
      /\ UNCHANGED <<monitoredEntries, toRemove, detached, knownServices, racedServices>>
  BY DEF SendFragment
<1>2. current \in DOMAIN pending /\ toRemove = {}
  BY <1>1 DEF HelperInv, ReportTypeOK
<1>3. /\ DOMAIN pending' = DOMAIN pending \ {current}
      /\ \A f \in DOMAIN pending' : pending'[f] = pending[f]
      /\ pending' = [f \in DOMAIN pending' |-> pending'[f]]
  BY <1>1 DEF Delete
<1>4. phase' \in {"send", "reset"} /\ (phase' = "reset" => pending' = EmptyMap)
  BY <1>1, <1>3 DEF EmptyMap
<1>5. /\ \A f \in DOMAIN knownFragments' : knownFragments'[f] \in FragmentStatus
      /\ \A f \in DOMAIN m \ {current} : FragmentKnown(f) => FragmentKnown(f)'
      /\ racedFragments \subseteq racedFragments'
      /\ \/ current \in racedFragments'
         \/ current \in DOMAIN knownFragments' /\ knownFragments'[current] = pending[current].status
  <2>1. CASE delivered
    <3>1. knownFragments' = Put(knownFragments, current, pending[current].status)
          /\ racedFragments' = racedFragments
      BY <2>1 DEF SendFragment
    <3>2. pending[current].status \in FragmentStatus
      BY <1>2 DEF HelperInv, SnapshotOK
    <3>3. QED
      BY <1>1, <3>1, <3>2 DEF Put, FragmentKnown, HelperInv, ReportTypeOK
  <2>2. CASE ~delivered
    <3>1. racedFragments' = racedFragments \cup {current} /\ knownFragments' = knownFragments
      BY <2>2 DEF SendFragment
    <3>2. QED
      BY <1>1, <3>1 DEF FragmentKnown, HelperInv, ReportTypeOK
  <2>3. QED
    BY <2>1, <2>2
<1>6. SnapshotOK'
  BY <1>1, <1>2, <1>3, <1>4 DEF HelperInv, SnapshotOK
<1>7. ReportTypeOK'
  <2>1. \A f \in DOMAIN pending' : \A s \in pending'[f].services :
          IF f \in DOMAIN detached' THEN s \in DOMAIN detached'[f] ELSE MonitoredService(f, s)'
    BY <1>1, <1>3 DEF HelperInv, ReportTypeOK, MonitoredService, Monitored
  <2>2. QED
    BY <1>1, <1>2, <1>4, <1>5, <2>1 DEF HelperInv, ReportTypeOK
<1>8. ASSUME NEW f \in DOMAIN m', NEW s \in DOMAIN m'[f].services
      PROVE  ServiceHeard(f, s)' /\ ServiceTerminated(f, s)'
  <2>1. ServiceHeard(f, s) /\ ServiceTerminated(f, s)
    BY <1>1 DEF HelperInv, ServicesOK
  <2>2. /\ ServiceKnown(f, s)' = ServiceKnown(f, s) /\ Raced(f, s)' = Raced(f, s)
        /\ InSnapshot(f, s)' => InSnapshot(f, s)
        /\ InSnapshot(f, s) /\ f # current => InSnapshot(f, s)'
    BY <1>1, <1>3 DEF ServiceKnown, Raced, InSnapshot
  <2>3. InSnapshot(f, s)' => f # Nobody
    BY <1>6, NobodyAssumption DEF SnapshotOK, InSnapshot
  <2>4. QED
    BY <1>1, <1>2, <1>4, <2>1, <2>2, <2>3 DEF ServiceHeard, ServiceTerminated
<1>9. ASSUME NEW f \in DOMAIN m', f \notin racedFragments' PROVE FragmentHeard(f)'
  <2>1. f \in DOMAIN m \ racedFragments /\ ~NothingToSend /\ ~NothingToSend'
    BY <1>1, <1>4, <1>5, <1>9 DEF NothingToSend
  <2>2. FragmentHeard(f)
    BY <2>1 DEF HelperInv, FragmentsOK
  <2>3. CASE f # current
    BY <1>1, <1>3, <1>5, <2>1, <2>2, <2>3 DEF FragmentHeard
  <2>4. CASE f = current
    <3>1. f \in DOMAIN knownFragments' /\ knownFragments'[f] = pending[f].status
      BY <1>5, <1>9, <2>4
    <3>2. QED
      BY <1>1, <1>2, <1>3, <2>1, <2>2, <2>4, <3>1 DEF FragmentHeard, FragmentKnown
  <2>5. QED
    BY <2>3, <2>4
<1>10. QED
  BY <1>6, <1>7, <1>8, <1>9 DEF HelperInv, ServicesOK, FragmentsOK

\* The reset clears every flag and changes no status: by then conductor knows
\* the statuses that are not among the exceptions.
LEMMA RoundEndKeeps ==
  ASSUME RegistryInv, HelperInv, Reset
  PROVE  HelperInv'
<1> DEFINE m == monitoredEntries
<1>1. /\ phase = "reset" /\ phase' = "idle" /\ detached' = EmptyMap
      /\ m' = [f \in DOMAIN m |-> Notified(m[f])]
      /\ UNCHANGED <<toRemove, pending, current, knownServices, knownFragments,
                     racedServices, racedFragments>>
  BY DEF Reset, ResetServicesUnnotifiedStatus, conductorVars, historyVars
<1>2. ASSUME NEW f \in DOMAIN m
      PROVE  /\ m'[f].status = m[f].status
             /\ DOMAIN m'[f].services = DOMAIN m[f].services
             /\ \A s \in DOMAIN m[f].services :
                  m'[f].services[s].status = m[f].services[s].status
  <2>1. EntryInv(m[f])
    BY DEF RegistryInv, EntriesInv
  <2>2. /\ m[f] \in MonitoredAppEntry(m[f].services)
        /\ \A s \in DOMAIN m[f].services :
             m[f].services[s] \in MonitoredServiceEntry(m[f].services[s].resources)
    BY <2>1, EntryShape
  <2>3. m'[f] = Notified(m[f])
    BY <1>1
  <2>4. /\ m'[f].status = m[f].status
        /\ m'[f].services = [s \in DOMAIN m[f].services |->
                               [m[f].services[s] EXCEPT !.newStatus = FALSE]]
    BY <2>2, <2>3 DEF Notified, MonitoredAppEntry
  <2>5. QED
    BY <2>2, <2>4 DEF MonitoredServiceEntry
<1>3. DOMAIN m' = DOMAIN m
  BY <1>1
<1>4. DOMAIN detached' = {} /\ DOMAIN pending = {} /\ pending = EmptyMap /\ toRemove = {}
  BY <1>1 DEF HelperInv, ReportTypeOK, EmptyMap
<1> HIDE DEF m
<1>5. SnapshotOK'
  BY <1>1, <1>4 DEF HelperInv, SnapshotOK
<1>6. ReportTypeOK'
  BY <1>1, <1>4 DEF HelperInv, ReportTypeOK
<1>7. ASSUME NEW f \in DOMAIN m', NEW s \in DOMAIN m'[f].services
      PROVE  ServiceHeard(f, s)' /\ ServiceTerminated(f, s)'
  <2>1. f \in DOMAIN m /\ s \in DOMAIN m[f].services
    BY <1>2, <1>3
  <2>2. ServiceHeard(f, s) /\ ServiceTerminated(f, s)
    BY <2>1 DEF HelperInv, ServicesOK, m
  <2>3. ServiceKnown(f, s) => ServiceKnown(f, s)'
    BY <1>1, <1>2, <2>1 DEF ServiceKnown, m
  <2>4. Raced(f, s)' = Raced(f, s)
    BY <1>1 DEF Raced
  <2>5. ~InSnapshot(f, s)
    BY <1>4 DEF InSnapshot
  <2>6. ServiceHeard(f, s)'
    BY <1>1, <1>4, <2>2, <2>3, <2>4, <2>5 DEF ServiceHeard
  <2>7. ServiceTerminated(f, s)'
    BY <1>1, <1>2, <1>4, <2>1, <2>2, <2>4 DEF ServiceTerminated, m
  <2>8. QED
    BY <2>6, <2>7
<1>8. ASSUME NEW f \in DOMAIN m', f \notin racedFragments' PROVE FragmentHeard(f)'
  <2>1. f \in DOMAIN m \ racedFragments
    BY <1>1, <1>3, <1>8
  <2>2. FragmentHeard(f)
    BY <2>1 DEF HelperInv, FragmentsOK, m
  <2>3. FragmentKnown(f)
    BY <1>1, <1>4, <2>2 DEF FragmentHeard, NothingToSend
  <2>4. FragmentKnown(f)'
    BY <1>1, <1>2, <2>1, <2>3 DEF FragmentKnown, m
  <2>5. QED
    BY <1>1, <2>4 DEF FragmentHeard, NothingToSend
<1>9. QED
  BY <1>5, <1>6, <1>7, <1>8 DEF HelperInv, ServicesOK, FragmentsOK, m

\* Nothing is monitored and nothing is known.
LEMMA HelperStarts == ReportInit => HelperInv
<1> SUFFICES ASSUME ReportInit PROVE HelperInv
  OBVIOUS
<1>1. DOMAIN EmptyMap = {} /\ EmptyMap = [k \in DOMAIN EmptyMap |-> EmptyMap[k]]
  BY DEF EmptyMap
<1> HIDE DEF EmptyMap
<1>2. ReportTypeOK
  BY <1>1 DEF ReportInit, Init, ReportTypeOK
<1>3. SnapshotOK
  BY <1>1 DEF ReportInit, SnapshotOK
<1>4. ServicesOK /\ FragmentsOK
  BY <1>1 DEF ReportInit, Init, ServicesOK, FragmentsOK
<1>5. QED
  BY <1>2, <1>3, <1>4 DEF HelperInv

\* One step of the helper or of a caller.
LEMMA HelperStep ==
  RegistryInv /\ RegistryInv' /\ HelperInv /\ [ReportNext]_vars => HelperInv'
<1> SUFFICES ASSUME RegistryInv, RegistryInv', HelperInv, [ReportNext]_vars PROVE HelperInv'
  OBVIOUS
<1>1. CASE Call
  BY <1>1, CallKeeps
<1>2. CASE GetPendingNotifications
  BY <1>2, SnapshotKeeps
<1>3. CASE \E f \in Fragments : RemoveTerminating(f)
  BY <1>3, RemovalKeeps
<1>4. Deliveries \subseteq BOOLEAN
  BY NobodyAssumption DEF Deliveries
<1>5. CASE \E f \in Fragments, delivered \in Deliveries : SendServices(f, delivered)
  BY <1>4, <1>5, SendServicesKeeps
<1>6. CASE \E delivered \in Deliveries : SendFragment(delivered)
  BY <1>4, <1>6, SendFragmentKeeps
<1>7. CASE Reset
  BY <1>7, RoundEndKeeps
<1>8. CASE UNCHANGED vars
  <2> USE <1>8 DEF vars, helperVars, conductorVars, historyVars
  <2>1. ReportTypeOK' /\ SnapshotOK'
    BY DEF HelperInv, ReportTypeOK, SnapshotOK, MonitoredService, Monitored
  <2>2. ASSUME NEW f \in DOMAIN monitoredEntries', NEW s \in DOMAIN monitoredEntries'[f].services
        PROVE  ServiceHeard(f, s)' /\ ServiceTerminated(f, s)'
    <3>1. ServiceHeard(f, s) /\ ServiceTerminated(f, s)
      BY DEF HelperInv, ServicesOK
    <3>2. ServiceHeard(f, s)'
      BY <3>1 DEF ServiceHeard, ServiceFlagged, ServiceKnown, Raced, InSnapshot
    <3>3. ServiceTerminated(f, s)'
      BY <3>1 DEF ServiceTerminated, Raced, InSnapshot
    <3>4. QED
      BY <3>2, <3>3
  <2>3. FragmentsOK'
    BY DEF HelperInv, FragmentsOK, FragmentHeard, FragmentKnown, NothingToSend, Flagged
  <2>4. QED
    BY <2>1, <2>2, <2>3 DEF HelperInv, ServicesOK
<1>9. QED
  BY <1>1, <1>2, <1>3, <1>5, <1>6, <1>7, <1>8 DEF ReportNext, UpdateStatus

\* The invariant of the registry and the invariant of the helper, together.
LEMMA HelperAlways == ReportSpec => []HelperInv
<1>1. ReportSpec => []RegistryInv
  BY ReportingKeepsRegistry, RegistryAlways, PTL
<1>2. QED
  BY <1>1, HelperStarts, HelperStep, PTL DEF ReportSpec

----------------------------------------------------------------------------
(***************************************************************************)
(* Entries that leave.  The helper chose them in the snapshot, and removes *)
(* them whatever a call made of them since.                                *)
(***************************************************************************)
\* What conductor knows, or is about to hear, of a fragment that leaves.
Told(f) ==
  IF f \in DOMAIN pending THEN pending[f].status = FRAGMENT_TERMINATING
  ELSE f \in DOMAIN knownFragments \ racedFragments =>
         knownFragments[f] = FRAGMENT_TERMINATING

RemovalsOK == \A f : f \in toRemove \/ f \notin DOMAIN monitoredEntries => Told(f)

\* A TERMINATING entry is in the snapshot with that status, or its flags were
\* down and conductor knows, or it is among the exceptions.
LEMMA SnapshotTells ==
  ASSUME HelperInv, RemovalsOK, GetPendingNotifications
  PROVE  RemovalsOK'
<1> DEFINE m == monitoredEntries
           terminating == {f \in DOMAIN m : m[f].status = FRAGMENT_TERMINATING}
           collected == {f \in DOMAIN m : Unnotified(m[f]) # {}}
<1>1. /\ phase = "idle" /\ toRemove' = terminating
      /\ pending' = [f \in collected |-> [status |-> m[f].status, services |-> Unnotified(m[f])]]
      /\ racedFragments' = (racedFragments \ collected) \cup LeftOut(collected)
      /\ UNCHANGED <<monitoredEntries, knownFragments>>
  BY DEF GetPendingNotifications, conductorVars
<1>2. DOMAIN pending' = collected /\ \A f \in collected : pending'[f].status = m[f].status
  BY <1>1
<1>3. DOMAIN pending = {}
  BY <1>1 DEF HelperInv, ReportTypeOK, EmptyMap
<1>4. ASSUME NEW f \in terminating PROVE Told(f)'
  <2>1. CASE f \in collected
    BY <1>2, <1>4, <2>1 DEF Told
  <2>2. CASE f \notin collected /\ f \notin racedFragments'
    <3>1. f \in DOMAIN m \ racedFragments /\ f \notin LeftOut(collected)
      BY <1>1, <1>4, <2>2
    <3>2. Flagged(m[f]) \/ FragmentKnown(f)
      BY <1>1, <3>1 DEF HelperInv, FragmentsOK, FragmentHeard, NothingToSend
    <3>3. ~Flagged(m[f])
      BY <1>4, <2>2, <3>1 DEF LeftOut, Flagged, Unnotified
    <3>4. QED
      BY <1>1, <1>2, <1>4, <2>2, <3>2, <3>3 DEF FragmentKnown, Told
  <2>3. CASE f \notin collected /\ f \in racedFragments'
    BY <1>2, <2>3 DEF Told
  <2>4. QED
    BY <2>1, <2>2, <2>3
<1>5. ASSUME NEW f, f \notin DOMAIN m PROVE Told(f)'
  <2>1. Told(f) /\ f \notin DOMAIN pending /\ f \notin DOMAIN pending'
    BY <1>2, <1>3, <1>5 DEF RemovalsOK
  <2>2. f \in racedFragments => f \in racedFragments'
    BY <1>1, <1>5
  <2>3. QED
    BY <1>1, <2>1, <2>2 DEF Told
<1>6. QED
  BY <1>1, <1>4, <1>5 DEF RemovalsOK

\* The last message about a fragment that left makes it known, or is lost.
LEMMA MessageTells ==
  ASSUME HelperInv, RemovalsOK, NEW delivered \in BOOLEAN, SendFragment(delivered)
  PROVE  RemovalsOK'
<1>1. /\ phase = "send" /\ current # Nobody
      /\ pending' = Delete(pending, current)
      /\ UNCHANGED <<monitoredEntries, toRemove>>
  BY DEF SendFragment
<1>2. current \in DOMAIN pending
  BY <1>1 DEF HelperInv, ReportTypeOK
<1>3. /\ DOMAIN pending' = DOMAIN pending \ {current}
      /\ \A f \in DOMAIN pending' : pending'[f] = pending[f]
  BY <1>1 DEF Delete
<1>4. /\ racedFragments \subseteq racedFragments'
      /\ \A f \in DOMAIN knownFragments' \ {current} :
           f \in DOMAIN knownFragments /\ knownFragments'[f] = knownFragments[f]
      /\ \/ current \in racedFragments'
         \/ knownFragments'[current] = pending[current].status
  <2>1. CASE delivered
    BY <2>1 DEF SendFragment, Put
  <2>2. CASE ~delivered
    BY <2>2 DEF SendFragment
  <2>3. QED
    BY <2>1, <2>2
<1>5. ASSUME NEW f, f \in toRemove' \/ f \notin DOMAIN monitoredEntries' PROVE Told(f)'
  <2>1. Told(f)
    BY <1>1, <1>5 DEF RemovalsOK
  <2>2. CASE f = current
    BY <1>2, <1>3, <1>4, <2>1, <2>2 DEF Told
  <2>3. CASE f # current
    BY <1>3, <1>4, <2>1, <2>3 DEF Told
  <2>4. QED
    BY <2>2, <2>3
<1>6. QED
  BY <1>5 DEF RemovalsOK

\* One step of the helper or of a caller.
LEMMA RemovalsStep ==
  RegistryInv /\ HelperInv /\ RemovalsOK /\ [ReportNext]_vars => RemovalsOK'
<1> SUFFICES ASSUME RegistryInv, HelperInv, RemovalsOK, [ReportNext]_vars PROVE RemovalsOK'
  OBVIOUS
<1>1. CASE Call
  <2>1. UNCHANGED <<toRemove, pending, knownFragments>>
    BY <1>1 DEF Call, helperVars, conductorVars
  <2>2. racedFragments \subseteq racedFragments'
    BY <1>1 DEF Call
  <2>3. DOMAIN monitoredEntries \subseteq DOMAIN monitoredEntries'
    BY <1>1, DeployKeeps, UndeployKeeps, EventKeeps DEF Call, EntriesKept
  <2>4. QED
    BY <2>1, <2>2, <2>3 DEF RemovalsOK, Told
<1>2. CASE GetPendingNotifications
  BY <1>2, SnapshotTells
<1>3. ASSUME NEW f \in Fragments, RemoveTerminating(f) PROVE RemovalsOK'
  <2>1. /\ f \in toRemove /\ toRemove' = toRemove \ {f}
        /\ racedFragments' = racedFragments \ ({f} \cap DOMAIN pending)
        /\ UNCHANGED <<pending, knownFragments>>
    BY <1>3 DEF RemoveTerminating, conductorVars
  <2>2. DOMAIN monitoredEntries' = DOMAIN monitoredEntries \ {f}
    BY <1>3 DEF RemoveTerminating, RemoveEntry, Delete
  <2>3. ASSUME NEW g, g \in toRemove' \/ g \notin DOMAIN monitoredEntries' PROVE Told(g)'
    <3>1. Told(g)
      BY <2>1, <2>2, <2>3 DEF RemovalsOK
    <3>2. QED
      BY <2>1, <3>1 DEF Told
  <2>4. QED
    BY <2>3 DEF RemovalsOK
<1>4. Deliveries \subseteq BOOLEAN
  BY NobodyAssumption DEF Deliveries
<1>5. CASE \E f \in Fragments, delivered \in Deliveries : SendServices(f, delivered)
  <2>1. UNCHANGED <<monitoredEntries, toRemove, pending, knownFragments, racedFragments>>
    BY <1>5 DEF SendServices
  <2>2. QED
    BY <2>1 DEF RemovalsOK, Told
<1>6. CASE \E delivered \in Deliveries : SendFragment(delivered)
  BY <1>4, <1>6, MessageTells
<1>7. CASE Reset
  <2>1. UNCHANGED <<toRemove, pending, knownFragments, racedFragments>>
    BY <1>7 DEF Reset, conductorVars, historyVars
  <2>2. DOMAIN monitoredEntries' = DOMAIN monitoredEntries
    BY <1>7 DEF Reset, ResetServicesUnnotifiedStatus
  <2>3. QED
    BY <2>1, <2>2 DEF RemovalsOK, Told
<1>8. CASE UNCHANGED vars
  BY <1>8 DEF vars, helperVars, conductorVars, historyVars, RemovalsOK, Told
<1>9. QED
  BY <1>1, <1>2, <1>3, <1>5, <1>6, <1>7, <1>8 DEF ReportNext, UpdateStatus

----------------------------------------------------------------------------
(***************************************************************************)
(* The theorems.                                                           *)
(***************************************************************************)
\* An update of a service is lost by a change during a round or by a lost
\* message, and in no other way: clearing the flags of the whole registry at
\* the end of a round hides nothing else.
THEOREM LostUpdatesWereRaced == ReportSpec => []OnlyRacesLoseUpdates
<1>1. HelperInv => OnlyRacesLoseUpdates
  BY DEF HelperInv, ServicesOK, ServiceHeard, Raced, OnlyRacesLoseUpdates
<1>2. QED
  BY <1>1, HelperAlways, PTL

\* The status of a fragment is hidden from conductor by a change during a
\* round, a lost message, an event that flags no service or an entry with no
\* services, and in no other way.
THEOREM HiddenFragmentsWereRaced == ReportSpec => []OnlyEventsHideFragments
<1>1. HelperInv => OnlyEventsHideFragments
  BY DEF HelperInv, FragmentsOK, FragmentHeard, FragmentKnown, NothingToSend,
         OnlyEventsHideFragments
<1>2. QED
  BY <1>1, HelperAlways, PTL

\* A fragment does not leave the registry unsaid: conductor was told that it
\* terminates, that message was lost, or one of the ways above had hidden it.
THEOREM RemovalsAreTold == ReportSpec => []GoneWasTold
<1>1. ReportInit => RemovalsOK
  BY DEF ReportInit, EmptyMap, RemovalsOK, Told
<1>2. ReportSpec => []RegistryInv
  BY ReportingKeepsRegistry, RegistryAlways, PTL
<1>3. HelperInv /\ RemovalsOK => GoneWasTold
  BY DEF HelperInv, ReportTypeOK, EmptyMap, RemovalsOK, Told, GoneWasTold
<1>4. QED
  BY <1>1, <1>2, <1>3, HelperAlways, RemovalsStep, PTL DEF ReportSpec

============================================================================
