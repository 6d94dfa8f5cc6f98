----------------------- MODULE StageDeployment_proofs -----------------------
(***************************************************************************)
(* The deployment of a fragment, for any stages, services and objects, any *)
(* rollback policy and any number of attempts.                             *)
(*                                                                         *)
(* Three things are followed through the steps: the objects that an        *)
(* attempt has still to create, which bound the creations; the resources   *)
(* of the registry, which are objects that were created; and the events    *)
(* that are still queued, which are all the registry has to hear.          *)
(***************************************************************************)
EXTENDS StageDeployment, FiniteSetTheorems, TLAPS

----------------------------------------------------------------------------
(***************************************************************************)
(* The attempts of a stage.                                                *)
(***************************************************************************)
Labels == {"prepare", "build", "loop", "deploy", "register", "wait", "scan",
           "undeploy", "cleanup", "done", "failed", "aborted"}

Lives == {"live", "terminating", "deleted"}

ObjectOK(object) ==
  /\ object = [status |-> object.status, life |-> object.life]
  /\ object.life \in Lives

\* What has a name, an event or a registration to come has been created.
CreatedOK ==
  /\ pc \in Labels /\ stage \in Int /\ retries \in Nat
  /\ created \in [Objects -> 0 .. MaxCreations]
  /\ left \subseteq Nat \X Objects
  /\ \A o \in fresh : o \in Objects /\ created[o] > 0 /\ KindOf[o] \in MonitoredKinds
  /\ \A o \in DOMAIN objects : o \in Objects /\ created[o] > 0 /\ ObjectOK(objects[o])
  /\ \A o \in Objects, type \in {"add", "update"} :
       <<o, type>> \in DOMAIN events => created[o] > 0
  /\ IsFiniteSet(DOMAIN scanned)

\* The creations that the policy allows.
Allowed == IF Policy = "NONE" THEN 1 ELSE MaxStageRetries

\* The present attempt creates what it has left at most once more, and a service
\* that the deployable does not hold never.
AttemptsOK ==
  /\ \A o \in unlisted : o \in Objects /\ created[o] = 0
  /\ \A o \in Objects : created[o] <= Allowed
  /\ \A o \in Objects : StageOf[ServiceOf[o]] > stage => created[o] = 0
  /\ pc \in {"prepare", "build"} => \A o \in StageObjects : created[o] = 0
  /\ pc = "loop" => \A o \in StageObjects : created[o] <= retries
  /\ pc \in {"deploy", "register"} =>
       /\ retries < MaxRetries
       /\ left \subseteq Work(DeployOrder)
       /\ \A w \in left : created[w[2]] <= retries
  /\ pc \in {"deploy", "register", "wait", "scan", "undeploy"} =>
       \A o \in StageObjects : created[o] <= retries + 1

\* An object has one place among the deployables of Deploy.
LEMMA OnePlace ==
  ASSUME NEW v \in Work(DeployOrder), NEW w \in Work(DeployOrder), v[2] = w[2]
  PROVE  v = w
<1>1. DOMAIN DeployOrder = 1 .. 8
  BY DEF DeployOrder
<1>2. /\ v \in (1 .. 8) \X StageObjects /\ w \in (1 .. 8) \X StageObjects
      /\ DeployOrder[v[1]] = DeployOrder[w[1]]
  BY <1>1 DEF Work
<1>3. v[1] = w[1]
  BY <1>2 DEF DeployOrder
<1>4. QED
  BY <1>2, <1>3

\* The objects of a stage and what Deploy and Undeploy have to do for them.
LEMMA WorkOfStage ==
  /\ StageObjects \subseteq Objects
  /\ \A o \in StageObjects : StageOf[ServiceOf[o]] = stage
  /\ \A o \in Objects : StageOf[ServiceOf[o]] = stage => o \in StageObjects
  /\ Work(DeployOrder) \subseteq Nat \X StageObjects
  /\ Work(UndeployOrder) \subseteq Nat \X StageObjects
<1>1. DOMAIN DeployOrder \subseteq Nat /\ DOMAIN UndeployOrder \subseteq Nat
  BY DEF DeployOrder, UndeployOrder
<1>2. QED
  BY <1>1, StagesAssumption DEF StageObjects, StageServices, Work

\* The policies: under ALWAYS_RETRY the loop of the code runs no attempt.
LEMMA PolicyBound == MaxRetries \in Int /\ MaxRetries <= Allowed /\ Allowed \in Nat
BY StagesAssumption DEF MaxRetries, Allowed, Policies

\* The count of WaitPendingChecks is 0 when every service was found RUNNING.
LEMMA PendingCounted ==
  ASSUME IsFiniteSet(DOMAIN scanned)
  PROVE  PendingFound \in Nat /\ (PendingFound = 0 => DOMAIN scanned = FoundRunning)
<1>1. IsFiniteSet(DOMAIN scanned \ FoundRunning)
  BY FS_Subset
<1>2. PendingFound \in Nat
  BY <1>1, FS_CardinalityType DEF PendingFound
<1>3. PendingFound = 0 => DOMAIN scanned \ FoundRunning = {}
  BY <1>1, FS_EmptySet DEF PendingFound
<1>4. FoundRunning \subseteq DOMAIN scanned
  BY DEF FoundRunning
<1>5. QED
  BY <1>2, <1>3, <1>4

\* The three ends of a check: the entry is gone, a service is pending, or
\* every service of the entry was found RUNNING.
StageFailed ==
  /\ ~Registry!Monitored(Fragment)
  /\ left' = Work(UndeployOrder) /\ pc' = "undeploy"
  /\ UNCHANGED <<monitoredEntries, stage, passed>>

StageGoesOn == pc' = "wait" /\ UNCHANGED <<stage, left, passed>>

StagePassed ==
  /\ Registry!Monitored(Fragment)
  /\ DOMAIN monitoredEntries[Fragment].services \subseteq FoundRunning
  /\ passed' = passed \cup FoundRunning /\ left' = left
  /\ \/ pc' = "build" /\ stage' = stage + 1 /\ stage < NumStages
     \/ pc' = "done" /\ stage' = stage

\* A check has one of these ends, and changes nothing else but the count.
LEMMA CheckOutcome ==
  ASSUME CheckPending, IsFiniteSet(DOMAIN scanned)
  PROVE  /\ pc = "scan"
         /\ UNCHANGED <<retries, fresh, scanned, namespace, objects, created, events, dropped>>
         /\ StageFailed \/ StageGoesOn \/ StagePassed
<1>1. /\ pc = "scan"
      /\ UNCHANGED <<retries, fresh, scanned, namespace, objects, created, events, dropped>>
  BY DEF CheckPending, clusterVars
<1>2. CASE ~Registry!Monitored(Fragment)
  BY <1>1, <1>2 DEF CheckPending, StageFails, StageFailed, Goto
<1>3. CASE Registry!Monitored(Fragment) /\ PendingFound > 0
  <2>1. PendingFound \in Nat /\ PendingFound # 0
    BY <1>3, PendingCounted
  <2>2. StageGoesOn
    BY <1>3, <2>1 DEF CheckPending, StageGoesOn, Goto
  <2>3. QED
    BY <1>1, <2>2
<1>4. CASE Registry!Monitored(Fragment) /\ PendingFound = 0
  <2>1. DOMAIN monitoredEntries[Fragment].services \subseteq FoundRunning
    BY <1>4, PendingCounted DEF CheckPending
  <2>2. QED
    BY <1>1, <1>4, <2>1 DEF CheckPending, StagePassed, Goto
<1>5. QED
  BY <1>1, <1>2, <1>3, <1>4, PendingCounted

\* No object has been created.
LEMMA CreatedStarts == Init => CreatedOK /\ AttemptsOK
<1> SUFFICES ASSUME Init PROVE CreatedOK /\ AttemptsOK
  OBVIOUS
<1>1. DOMAIN Registry!EmptyMap = {}
  BY DEF Registry!EmptyMap
<1>2. MaxCreations \in Nat
  BY StagesAssumption DEF MaxCreations
<1>3. CreatedOK
  BY <1>1, <1>2, FS_EmptySet DEF Init, CreatedOK, Labels
<1>4. AttemptsOK
  BY PolicyBound, WorkOfStage DEF Init, AttemptsOK
<1>5. QED
  BY <1>3, <1>4

\* The events that Enqueue leaves.
LEMMA EnqueueAdds ==
  ASSUME NEW o, NEW type
  PROVE  /\ DOMAIN Enqueue(o, type) \subseteq DOMAIN events \cup {<<o, type>>}
         /\ DOMAIN events \subseteq DOMAIN Enqueue(o, type)
         /\ KindOf[o] \in MonitoredKinds => <<o, type>> \in DOMAIN Enqueue(o, type)
BY DEF Enqueue, Registry!Put

\* The cluster and the dispatcher create nothing; the goroutine creates what
\* it has left, once.
LEMMA CreatedStep == CreatedOK /\ AttemptsOK /\ [Next]_vars => CreatedOK'
<1> SUFFICES ASSUME CreatedOK, AttemptsOK, [Next]_vars PROVE CreatedOK'
  OBVIOUS
<1> USE DEF CreatedOK, Labels, Goto
<1>1. MaxCreations \in Nat
  BY StagesAssumption DEF MaxCreations
<1>2. CASE PrepareEnvironment \/ BuildStage \/ Cleanup \/ Tick \/ Timeout
  <2>1. IsFiniteSet(DOMAIN Registry!EmptyMap)
    BY FS_EmptySet DEF Registry!EmptyMap
  <2>2. QED
    BY <1>2, <2>1, WorkOfStage DEF PrepareEnvironment, BuildStage, Cleanup, Tick, Timeout,
       StageFails, clusterVars
<1>3. CASE LoopStage
  BY <1>3, WorkOfStage DEF LoopStage, clusterVars
<1>4. ASSUME NEW w \in left, CreateObject(w) PROVE CreatedOK'
  <2> DEFINE o == w[2]
  <2>1. o \in Objects
    OBVIOUS
  <2>2. /\ created' = [created EXCEPT ![o] = @ + 1] /\ created[o] < MaxCreations
        /\ events' = Enqueue(o, "add") /\ left' = left \ {w}
        /\ objects' = Registry!Put(objects, o, [status |-> StatusAtCreation(o), life |-> "live"])
        /\ pc' \in {pc, "register"} /\ UNCHANGED <<stage, retries, scanned>>
        /\ fresh' = fresh \/ (fresh' = {o} /\ KindOf[o] \in MonitoredKinds)
    BY <1>4 DEF CreateObject
  <2> HIDE DEF o
  <2>3. /\ created' \in [Objects -> 0 .. MaxCreations]
        /\ created'[o] > 0 /\ \A x \in Objects : created'[x] >= created[x]
    BY <1>1, <2>1, <2>2
  <2>4. \A x \in DOMAIN objects' : x \in Objects /\ created'[x] > 0 /\ ObjectOK(objects'[x])
    BY <2>1, <2>2, <2>3 DEF Registry!Put, ObjectOK, Lives
  <2>5. \A x \in Objects, type \in {"add", "update"} :
          <<x, type>> \in DOMAIN events' => created'[x] > 0
    <3>1. DOMAIN events' \subseteq DOMAIN events \cup {<<o, "add">>}
      BY <2>2, EnqueueAdds
    <3>2. ASSUME NEW x \in Objects, NEW type, <<x, type>> \in DOMAIN events, type \in {"add", "update"}
          PROVE  created'[x] > 0
      <4>1. created[x] > 0 /\ created'[x] >= created[x]
        BY <2>3, <3>2
      <4>2. created[x] \in Int /\ created'[x] \in Int
        BY <2>3
      <4>3. QED
        BY <4>1, <4>2
    <3>3. QED
      BY <2>3, <3>1, <3>2
  <2>6. QED
    BY <2>1, <2>2, <2>3, <2>4, <2>5
<1>5. ASSUME NEW w \in left, SkipService(w) PROVE CreatedOK'
  BY <1>5 DEF SkipService, clusterVars
<1>6. ASSUME NEW w \in left, DeleteObject(w) PROVE CreatedOK'
  <2>1. \A x \in DOMAIN objects' : x \in DOMAIN objects /\ ObjectOK(objects'[x])
    BY <1>6 DEF DeleteObject, Exists, ObjectOK, Lives
  <2>2. QED
    BY <1>6, <2>1 DEF DeleteObject
<1>7. CASE RegisterObject \/ DeployFails \/ DeployDone \/ UndeployFails \/ UndeployDone
  BY <1>7 DEF RegisterObject, DeployFails, DeployDone, UndeployFails, UndeployDone, clusterVars
<1>8. ASSUME NEW s \in ServiceInstances, ReadService(s) PROVE CreatedOK'
  <2>1. DOMAIN scanned' = DOMAIN scanned \cup {s}
    BY <1>8 DEF ReadService, Registry!Put
  <2>2. IsFiniteSet(DOMAIN scanned')
    BY <2>1, FS_AddElement
  <2>3. QED
    BY <1>8, <2>2 DEF ReadService, clusterVars
<1>9. CASE CheckPending
  BY <1>9, CheckOutcome, WorkOfStage DEF StageFailed, StageGoesOn, StagePassed
<1>10. ASSUME NEW o \in Objects, ObjectChanges(o) PROVE CreatedOK'
  <2>1. \A x \in DOMAIN objects' : x \in DOMAIN objects /\ ObjectOK(objects'[x])
    BY <1>10 DEF ObjectChanges, ObjectOK, Lives
  <2>2. \A x \in Objects, type \in {"add", "update"} :
          <<x, type>> \in DOMAIN events' => created[x] > 0
    <3>1. events' = Enqueue(o, "update") /\ created[o] > 0
      BY <1>10 DEF ObjectChanges
    <3>2. DOMAIN events' \subseteq DOMAIN events \cup {<<o, "update">>}
      BY <3>1, EnqueueAdds
    <3>3. QED
      BY <3>1, <3>2
  <2>3. QED
    BY <1>10, <2>1, <2>2 DEF ObjectChanges, goroutineVars
<1>11. ASSUME NEW o \in Objects, Finalized(o) PROVE CreatedOK'
  <2>1. \A x \in DOMAIN objects' : x \in DOMAIN objects /\ ObjectOK(objects'[x])
    BY <1>11 DEF Finalized, ObjectOK, Lives
  <2>2. QED
    BY <1>11, <2>1 DEF Finalized, goroutineVars
<1>12. CASE NamespaceGone
  <2>1. \A x \in DOMAIN objects' : x \in DOMAIN objects /\ ObjectOK(objects'[x])
    BY <1>12 DEF NamespaceGone, ObjectOK, Lives
  <2>2. QED
    BY <1>12, <2>1 DEF NamespaceGone, goroutineVars
<1>13. ASSUME NEW o \in Objects, NEW type \in {"add", "update"}, Dispatch(o, type) PROVE CreatedOK'
  <2>1. UNCHANGED <<pc, stage, retries, left, fresh, scanned, objects, created>>
    BY <1>13 DEF Dispatch, goroutineVars
  <2>2. DOMAIN events' \subseteq DOMAIN events
    BY <1>13 DEF Dispatch, Registry!Delete
  <2>3. QED
    BY <2>1, <2>2
<1>14. CASE UndeployNamespace \/ UndeployEntry \/ RemoveTerminating
  BY <1>14 DEF UndeployNamespace, UndeployEntry, RemoveTerminating, goroutineVars, clusterVars
<1>15. CASE UNCHANGED vars
  BY <1>15 DEF vars, goroutineVars, clusterVars
<1>16. QED
  BY <1>2, <1>3, <1>4, <1>5, <1>6, <1>7, <1>8, <1>9, <1>10, <1>11, <1>12, <1>13, <1>14, <1>15
     DEF Next, Process, Cluster, Dispatcher, UndeployRequest, Terminated

\* The cluster, the dispatcher and an undeploy request leave the goroutine
\* alone, and create nothing.
GoroutineWaits == UNCHANGED <<pc, stage, unlisted, retries, left, fresh, scanned, created, passed>>

\* Every step of another actor is one of these.
LEMMA OthersLeaveGoroutine ==
  ASSUME \/ Cluster \/ Dispatcher \/ UndeployRequest \/ RemoveTerminating
         \/ UNCHANGED vars
  PROVE  GoroutineWaits
BY DEF GoroutineWaits, Cluster, Dispatcher, UndeployRequest, RemoveTerminating, ObjectChanges,
   Finalized, NamespaceGone, Dispatch, UndeployNamespace, UndeployEntry,
   vars, goroutineVars, clusterVars, historyVars

\* The loop starts an attempt only while the policy allows one, and an attempt
\* creates an object once.
LEMMA AttemptsStep == CreatedOK /\ AttemptsOK /\ [Next]_vars => AttemptsOK'
<1> SUFFICES ASSUME CreatedOK, AttemptsOK, [Next]_vars PROVE AttemptsOK'
  OBVIOUS
<1>1. /\ stage \in Int /\ retries \in Nat /\ created \in [Objects -> Nat]
      /\ left \subseteq Nat \X Objects
  <2>1. 0 .. MaxCreations \subseteq Nat
    OBVIOUS
  <2>2. QED
    BY <2>1 DEF CreatedOK
<1>2. /\ stage' = stage => StageObjects' = StageObjects
      /\ UNCHANGED <<stage, unlisted>> => Work(DeployOrder)' = Work(DeployOrder)
  BY DEF StageObjects, StageServices, Work
<1>3. CASE GoroutineWaits
  BY <1>2, <1>3 DEF GoroutineWaits, AttemptsOK
<1> USE <1>1, <1>2 DEF Goto, clusterVars
<1>4. CASE PrepareEnvironment \/ BuildStage \/ Cleanup \/ Tick \/ Timeout
  BY <1>4, WorkOfStage DEF AttemptsOK, PrepareEnvironment, BuildStage, Cleanup, Tick, Timeout, StageFails
<1>5. CASE LoopStage
  <2>1. UNCHANGED <<stage, unlisted, retries, created>>
    BY <1>5 DEF LoopStage
  <2>2. \/ pc' = "deploy" /\ left' = Work(DeployOrder) /\ retries < MaxRetries
        \/ pc' = "cleanup"
    BY <1>5 DEF LoopStage
  <2>3. \A o \in StageObjects : created[o] <= retries
    BY <1>5 DEF LoopStage, AttemptsOK
  <2>4. \A o \in StageObjects : created[o] <= retries + 1
    BY <2>3, WorkOfStage
  <2>5. \A w \in Work(DeployOrder) : created[w[2]] <= retries
    BY <2>3, WorkOfStage
  <2>6. QED
    BY <2>1, <2>2, <2>4, <2>5 DEF AttemptsOK
<1>6. ASSUME NEW w \in left, CreateObject(w) PROVE AttemptsOK'
  <2> DEFINE o == w[2]
  <2>1. /\ pc = "deploy" /\ pc' \in {"deploy", "register"} /\ left' = left \ {w}
        /\ created' = [created EXCEPT ![o] = @ + 1]
        /\ UNCHANGED <<stage, unlisted, retries>>
    BY <1>6 DEF CreateObject
  <2>2. /\ retries < MaxRetries /\ left \subseteq Work(DeployOrder)
        /\ \A v \in left : created[v[2]] <= retries
        /\ \A x \in StageObjects : created[x] <= retries + 1
    BY <2>1 DEF AttemptsOK
  <2>3. o \in StageObjects /\ o \in Objects
    BY <2>2, WorkOfStage
  <2> HIDE DEF o
  <2>4. created'[o] = created[o] + 1 /\ \A x \in Objects \ {o} : created'[x] = created[x]
    BY <2>1, <2>3
  <2>5. created[o] <= retries
    BY <2>2 DEF o
  <2>6. created'[o] <= retries + 1 /\ created'[o] <= Allowed
    BY <2>2, <2>3, <2>4, <2>5, PolicyBound
  <2>7. \A x \in Objects : created'[x] <= Allowed
    BY <2>4, <2>6 DEF AttemptsOK
  <2>8. \A x \in Objects : StageOf[ServiceOf[x]] > stage => created'[x] = 0
    <3>1. ~(StageOf[ServiceOf[o]] > stage)
      BY <2>3, WorkOfStage
    <3>2. QED
      BY <2>4, <3>1 DEF AttemptsOK
  <2>9. \A v \in left' : created'[v[2]] <= retries
    <3>1. ASSUME NEW v \in left' PROVE v[2] # o
      BY <2>1, <2>2, OnePlace DEF o
    <3>2. QED
      BY <2>1, <2>2, <2>4, <3>1
  <2>10. \A x \in StageObjects : created'[x] <= retries + 1
    BY <2>2, <2>4, <2>6, WorkOfStage
  <2>11. left' \subseteq Work(DeployOrder)
    BY <2>1, <2>2
  <2>12. MaxRetries' = MaxRetries /\ Allowed' = Allowed
    BY DEF MaxRetries, Allowed
  <2>13. \A x \in unlisted' : x \in Objects /\ created'[x] = 0
    <3>1. o \notin unlisted
      BY <2>2 DEF Work, o
    <3>2. QED
      BY <2>1, <2>4, <3>1 DEF AttemptsOK
  <2>14. QED
    BY <2>1, <2>2, <2>7, <2>8, <2>9, <2>10, <2>11, <2>12, <2>13 DEF AttemptsOK
<1>7. ASSUME NEW w \in left, SkipService(w) \/ DeleteObject(w) PROVE AttemptsOK'
  <2>1. /\ left' \subseteq left
        /\ UNCHANGED <<pc, stage, unlisted, retries, created>>
    BY <1>7 DEF SkipService, DeleteObject
  <2>2. QED
    BY <2>1 DEF AttemptsOK
<1>8. CASE RegisterObject \/ DeployFails \/ DeployDone \/ UndeployFails \/ UndeployDone
  BY <1>8, WorkOfStage DEF AttemptsOK, RegisterObject, DeployFails, DeployDone, UndeployFails, UndeployDone
<1>9. ASSUME NEW s \in ServiceInstances, ReadService(s) PROVE AttemptsOK'
  BY <1>9 DEF AttemptsOK, ReadService
<1>10. CASE CheckPending
  <2>1. UNCHANGED <<unlisted, retries, created>> /\ pc = "scan"
        /\ (StageFailed \/ StageGoesOn \/ StagePassed)
    BY <1>10, CheckOutcome DEF CreatedOK, CheckPending
  <2>2. CASE stage' = stage
    BY <2>1, <2>2 DEF AttemptsOK, StageFailed, StageGoesOn, StagePassed
  <2>3. CASE stage' = stage + 1 /\ pc' = "build"
    <3>1. \A o \in Objects : StageOf[ServiceOf[o]] \in Int
      BY StagesAssumption
    <3>2. \A o \in Objects : StageOf[ServiceOf[o]] >= stage' => created[o] = 0
      BY <2>3, <3>1 DEF AttemptsOK
    <3>3. \A o \in StageObjects' : o \in Objects /\ StageOf[ServiceOf[o]] = stage'
      BY StagesAssumption DEF StageObjects, StageServices
    <3>4. \A o \in StageObjects' : created'[o] = 0
      BY <2>1, <2>3, <3>1, <3>2, <3>3
    <3>5. \A o \in Objects : StageOf[ServiceOf[o]] > stage' => created'[o] = 0
      BY <2>1, <2>3, <3>1, <3>2
    <3>6. \A o \in Objects : created'[o] <= Allowed'
      BY <2>1 DEF AttemptsOK, Allowed
    <3>7. \A o \in unlisted' : o \in Objects /\ created'[o] = 0
      BY <2>1 DEF AttemptsOK
    <3>8. QED
      BY <2>3, <3>4, <3>5, <3>6, <3>7 DEF AttemptsOK
  <2>4. QED
    BY <2>1, <2>2, <2>3 DEF StageFailed, StageGoesOn, StagePassed
<1>11. QED
  BY <1>3, <1>4, <1>5, <1>6, <1>7, <1>8, <1>9, <1>10, OthersLeaveGoroutine
     DEF Next, Process, Terminated

----------------------------------------------------------------------------
(***************************************************************************)
(* The registry.  Its resources are objects of their service that were     *)
(* created, and a service is RUNNING only if it has one.                   *)
(***************************************************************************)
EntryFields(entry) ==
  DOMAIN entry = {"status", "newStatus", "numPendingChecks", "services"}

ServiceFields(service) ==
  DOMAIN service = {"status", "newStatus", "numPendingChecks", "resources", "endpoints"}

OwnResource(s, uid) ==
  /\ uid \in Uids /\ ServiceOf[uid[1]] = s /\ KindOf[uid[1]] \in MonitoredKinds
  /\ uid[2] <= created[uid[1]]

ServiceOK(s, service) ==
  /\ ServiceFields(service)
  /\ \A uid \in DOMAIN service.resources : OwnResource(s, uid)
  /\ service.status = NALEJ_SERVICE_RUNNING => DOMAIN service.resources # {}

RegistryOK ==
  Registry!Monitored(Fragment) =>
    /\ EntryFields(monitoredEntries[Fragment])
    /\ \A s \in DOMAIN monitoredEntries[Fragment].services :
         ServiceOK(s, monitoredEntries[Fragment].services[s])

(***************************************************************************)
(* What any call does to the registry: it may add the resources added and  *)
(* set the status of the resources touched, and leaves the others alone.   *)
(***************************************************************************)
ServiceMoves(s, new, touched, added) ==
  /\ ServiceFields(new)
  /\ new.status = NALEJ_SERVICE_RUNNING =>
       \/ DOMAIN new.resources # {}
       \/ /\ Registry!MonitoredService(Fragment, s)
          /\ monitoredEntries[Fragment].services[s].status = NALEJ_SERVICE_RUNNING
          /\ monitoredEntries[Fragment].services[s].resources = new.resources
  /\ \A uid \in DOMAIN new.resources :
       (uid \in added /\ ServiceOf[uid[1]] = s) \/ Registry!MonitoredResource(Fragment, s, uid)
  /\ \A uid \in DOMAIN new.resources \ touched :
       /\ Registry!MonitoredResource(Fragment, s, uid)
       /\ new.resources[uid] = monitoredEntries[Fragment].services[s].resources[uid]

RegistryMoves(touched, added) ==
  Fragment \in DOMAIN monitoredEntries' =>
    /\ EntryFields(monitoredEntries'[Fragment])
    /\ \A s \in DOMAIN monitoredEntries'[Fragment].services :
         ServiceMoves(s, monitoredEntries'[Fragment].services[s], touched, added)

\* The services of an entry, for the goroutine that waits for them.
ServicesStay ==
  Fragment \in DOMAIN monitoredEntries' =>
    /\ Fragment \in DOMAIN monitoredEntries
    /\ DOMAIN monitoredEntries[Fragment].services
         \subseteq DOMAIN monitoredEntries'[Fragment].services

\* A service that a call leaves as it was.
LEMMA SameServiceMoves ==
  ASSUME RegistryOK, NEW s, Registry!MonitoredService(Fragment, s), NEW touched, NEW added
  PROVE  ServiceMoves(s, monitoredEntries[Fragment].services[s], touched, added)
BY DEF RegistryOK, ServiceOK, ServiceMoves, Registry!MonitoredService, Registry!MonitoredResource

\* An entry that a call leaves as it was.
LEMMA SameEntryMoves ==
  ASSUME RegistryOK, UNCHANGED monitoredEntries, NEW touched, NEW added
  PROVE  RegistryMoves(touched, added) /\ ServicesStay
<1>1. Registry!Monitored(Fragment) => \A s \in DOMAIN monitoredEntries[Fragment].services :
        ServiceMoves(s, monitoredEntries[Fragment].services[s], touched, added)
  BY SameServiceMoves DEF Registry!MonitoredService
<1>2. QED
  BY <1>1 DEF RegistryMoves, ServicesStay, RegistryOK, Registry!Monitored

\* The statuses of the registry's module are those of this one.
LEMMA SameStatuses ==
  /\ Registry!NALEJ_SERVICE_SCHEDULED = NALEJ_SERVICE_SCHEDULED
  /\ Registry!NALEJ_SERVICE_RUNNING = NALEJ_SERVICE_RUNNING
  /\ Registry!NALEJ_SERVICE_TERMINATING = NALEJ_SERVICE_TERMINATING
  /\ Registry!FRAGMENT_TERMINATING = FRAGMENT_TERMINATING
  /\ NALEJ_SERVICE_RUNNING \notin {NALEJ_SERVICE_SCHEDULED, NALEJ_SERVICE_TERMINATING}
  /\ Registry!FragmentStatusToNalejServiceStatus[FRAGMENT_TERMINATING] = NALEJ_SERVICE_TERMINATING
BY DEF NALEJ_SERVICE_SCHEDULED, NALEJ_SERVICE_RUNNING, NALEJ_SERVICE_TERMINATING, FRAGMENT_TERMINATING,
   Registry!NALEJ_SERVICE_SCHEDULED, Registry!NALEJ_SERVICE_RUNNING, Registry!NALEJ_SERVICE_TERMINATING,
   Registry!FragmentStatusToNalejServiceStatus, Registry!FragmentStatus,
   Registry!FRAGMENT_WAITING, Registry!FRAGMENT_DEPLOYING, Registry!FRAGMENT_DONE,
   Registry!FRAGMENT_ERROR, Registry!FRAGMENT_RETRYING, Registry!FRAGMENT_TERMINATING

\* A service that keeps its resources and does not become RUNNING.
LEMMA QuietServiceMoves ==
  ASSUME NEW s, Registry!MonitoredService(Fragment, s), NEW new, ServiceFields(new),
         NEW touched, NEW added,
         new.resources = monitoredEntries[Fragment].services[s].resources,
         new.status # NALEJ_SERVICE_RUNNING \/ new.status = monitoredEntries[Fragment].services[s].status
  PROVE  ServiceMoves(s, new, touched, added)
BY DEF ServiceMoves, Registry!MonitoredResource

\* SetEntryStatus leaves the resources alone and makes no service RUNNING.
LEMMA SetEntryStatusMoves ==
  ASSUME RegistryOK, NEW status, Registry!SetEntryStatus(Fragment, status)
  PROVE  RegistryMoves({}, {}) /\ ServicesStay
<1> DEFINE m == monitoredEntries
<1>1. CASE ~Registry!Monitored(Fragment)
  BY <1>1, SameEntryMoves DEF Registry!SetEntryStatus
<1>2. CASE Registry!Monitored(Fragment)
  <2>1. Fragment \in DOMAIN m /\ m'[Fragment] = Registry!WithEntryStatus(m[Fragment], status)
    BY <1>2 DEF Registry!SetEntryStatus, Registry!Monitored
  <2>2. EntryFields(m[Fragment])
    BY <1>2 DEF RegistryOK
  <2>3. EntryFields(m'[Fragment]) /\ DOMAIN m'[Fragment].services = DOMAIN m[Fragment].services
    BY <2>1, <2>2 DEF Registry!WithEntryStatus, EntryFields
  <2>4. ASSUME NEW s \in DOMAIN m[Fragment].services
        PROVE  ServiceMoves(s, m'[Fragment].services[s], {}, {})
    <3>1. ServiceFields(m[Fragment].services[s])
      BY <1>2 DEF RegistryOK, ServiceOK
    <3>2. /\ ServiceFields(m'[Fragment].services[s])
          /\ m'[Fragment].services[s].resources = m[Fragment].services[s].resources
          /\ m'[Fragment].services[s].status \in
               {NALEJ_SERVICE_TERMINATING, m[Fragment].services[s].status}
      BY <2>1, <2>2, <3>1, SameStatuses DEF Registry!WithEntryStatus, EntryFields, ServiceFields
    <3>3. QED
      BY <1>2, <3>2, QuietServiceMoves, SameStatuses DEF Registry!MonitoredService
  <2>5. QED
    BY <2>1, <2>3, <2>4 DEF RegistryMoves, ServicesStay
<1>3. QED
  BY <1>1, <1>2

\* What SetAppStatus makes of a service of an entry that is not TERMINATING.
LEMMA TerminatedService ==
  ASSUME NEW entry, EntryFields(entry), entry.status # FRAGMENT_TERMINATING,
         NEW s \in DOMAIN entry.services, ServiceFields(entry.services[s])
  PROVE  LET new == Registry!WithAppStatus(entry, FRAGMENT_TERMINATING).services[s] IN
         /\ ServiceFields(new)
         /\ new.resources = entry.services[s].resources
         /\ new.status = NALEJ_SERVICE_TERMINATING
BY SameStatuses DEF Registry!WithAppStatus, EntryFields, ServiceFields

\* The SetAppStatus of an undeploy request makes no service RUNNING either.
LEMMA SetAppStatusMoves ==
  ASSUME RegistryOK, Registry!SetAppStatus(App, FRAGMENT_TERMINATING)
  PROVE  RegistryMoves({}, {}) /\ ServicesStay
<1> DEFINE m == monitoredEntries
<1>1. DOMAIN m' = DOMAIN m
  BY DEF Registry!SetAppStatus
<1>2. CASE Fragment \notin DOMAIN m
  BY <1>1, <1>2 DEF RegistryMoves, ServicesStay
<1>3. CASE Fragment \in DOMAIN m
  <2>1. m'[Fragment] = Registry!WithAppStatus(m[Fragment], FRAGMENT_TERMINATING)
    BY <1>3 DEF Registry!SetAppStatus
  <2>2. EntryFields(m[Fragment]) /\ Registry!Monitored(Fragment)
    BY <1>3 DEF RegistryOK, Registry!Monitored
  <2>3. EntryFields(m'[Fragment]) /\ DOMAIN m'[Fragment].services = DOMAIN m[Fragment].services
    BY <2>1, <2>2 DEF Registry!WithAppStatus, EntryFields
  <2>4. ASSUME NEW s \in DOMAIN m[Fragment].services
        PROVE  ServiceMoves(s, m'[Fragment].services[s], {}, {})
    <3>1. ServiceFields(m[Fragment].services[s])
      BY <2>2 DEF RegistryOK, ServiceOK
    <3>2. CASE m[Fragment].status = FRAGMENT_TERMINATING
      <4>1. m'[Fragment] = m[Fragment]
        BY <2>1, <3>2 DEF Registry!WithAppStatus
      <4>2. QED
        BY <2>2, <4>1, SameServiceMoves DEF Registry!MonitoredService
    <3>3. CASE m[Fragment].status # FRAGMENT_TERMINATING
      <4>1. /\ ServiceFields(m'[Fragment].services[s])
            /\ m'[Fragment].services[s].resources = m[Fragment].services[s].resources
            /\ m'[Fragment].services[s].status = NALEJ_SERVICE_TERMINATING
        BY <2>1, <2>2, <3>1, <3>3, TerminatedService
      <4>2. QED
        BY <2>2, <4>1, QuietServiceMoves, SameStatuses DEF Registry!MonitoredService
    <3>4. QED
      BY <3>2, <3>3
  <2>5. QED
    BY <1>3, <2>3, <2>4 DEF RegistryMoves, ServicesStay
<1>4. QED
  BY <1>2, <1>3

\* AddEntry adds services without resources.
LEMMA AddEntryMoves ==
  ASSUME RegistryOK, NEW S, Registry!AddEntry(Fragment, S)
  PROVE  /\ RegistryMoves({}, {})
         /\ Fragment \in DOMAIN monitoredEntries'
         /\ S \subseteq DOMAIN monitoredEntries'[Fragment].services
<1> DEFINE m == monitoredEntries
           data == Registry!MonitoringData(S)
<1>1. /\ EntryFields(data) /\ DOMAIN data.services = S
      /\ \A s \in S : data.services[s] = Registry!NewService
  BY DEF Registry!MonitoringData, EntryFields
<1>2. /\ ServiceFields(Registry!NewService)
      /\ DOMAIN Registry!NewService.resources = {}
      /\ Registry!NewService.status # NALEJ_SERVICE_RUNNING
  BY SameStatuses DEF Registry!NewService, Registry!EmptyMap, ServiceFields
<1>3. \A s : ServiceMoves(s, Registry!NewService, {}, {})
  BY <1>2 DEF ServiceMoves
<1> HIDE DEF data
<1>4. CASE ~Registry!Monitored(Fragment)
  <2>1. Fragment \in DOMAIN m' /\ m'[Fragment] = data
    BY <1>4 DEF Registry!AddEntry, Registry!Put, data
  <2>2. QED
    BY <1>1, <1>3, <2>1 DEF RegistryMoves
<1>5. CASE Registry!Monitored(Fragment)
  <2> DEFINE old == m[Fragment].services
  <2>1. Fragment \in DOMAIN m' /\ m'[Fragment] = Registry!AppendServices(m[Fragment], data)
    BY <1>5 DEF Registry!AddEntry, Registry!Monitored, data
  <2>2. EntryFields(m[Fragment])
    BY <1>5 DEF RegistryOK
  <2>3. /\ EntryFields(m'[Fragment])
        /\ DOMAIN m'[Fragment].services = DOMAIN old \cup S
        /\ \A s \in DOMAIN old : m'[Fragment].services[s] = old[s]
        /\ \A s \in S \ DOMAIN old : m'[Fragment].services[s] = Registry!NewService
    BY <1>1, <2>1, <2>2 DEF Registry!AppendServices, EntryFields
  <2>4. \A s \in DOMAIN old : ServiceMoves(s, old[s], {}, {})
    BY <1>5, SameServiceMoves DEF Registry!MonitoredService
  <2>5. \A s \in DOMAIN m'[Fragment].services : ServiceMoves(s, m'[Fragment].services[s], {}, {})
    BY <1>3, <2>3, <2>4
  <2>6. QED
    BY <2>1, <2>3, <2>5 DEF RegistryMoves
<1>6. QED
  BY <1>4, <1>5

\* AddPendingResource adds one resource.
LEMMA AddPendingMoves ==
  ASSUME RegistryOK, NEW uid, NEW t, ServiceOf[uid[1]] = t,
         Registry!AddPendingResource(Fragment, t, uid)
  PROVE  RegistryMoves({uid}, {uid}) /\ ServicesStay
<1> DEFINE m == monitoredEntries
           old == m[Fragment].services
           service == Registry!WithPendingResource(old[t], uid)
<1>1. CASE ~Registry!MonitoredService(Fragment, t)
  BY <1>1, SameEntryMoves DEF Registry!AddPendingResource
<1>2. CASE Registry!MonitoredService(Fragment, t)
  <2>1. /\ Fragment \in DOMAIN m /\ Registry!Monitored(Fragment) /\ t \in DOMAIN old
        /\ m' = [m EXCEPT ![Fragment].services[t] = service]
    BY <1>2 DEF Registry!AddPendingResource, Registry!MonitoredService, Registry!Monitored
  <2>2. EntryFields(m[Fragment]) /\ ServiceFields(old[t])
    BY <2>1 DEF RegistryOK, ServiceOK
  <2>3. /\ ServiceFields(service) /\ service.status = old[t].status
        /\ DOMAIN service.resources = DOMAIN old[t].resources \cup {uid}
        /\ \A u \in DOMAIN old[t].resources : service.resources[u] = old[t].resources[u]
    <3>1. CASE uid \in DOMAIN old[t].resources
      BY <2>2, <3>1 DEF Registry!WithPendingResource
    <3>2. CASE uid \notin DOMAIN old[t].resources
      BY <2>2, <3>2 DEF Registry!WithPendingResource, Registry!Put, ServiceFields
    <3>3. QED
      BY <3>1, <3>2
  <2>4. ServiceMoves(t, service, {uid}, {uid})
    <3> HIDE DEF service
    <3>1. QED
      BY <1>2, <2>1, <2>3 DEF ServiceMoves, Registry!MonitoredResource
  <2> HIDE DEF service
  <2>5. /\ EntryFields(m'[Fragment]) /\ DOMAIN m'[Fragment].services = DOMAIN old
        /\ m'[Fragment].services[t] = service
        /\ \A s \in DOMAIN old \ {t} : m'[Fragment].services[s] = old[s]
    BY <2>1, <2>2 DEF EntryFields
  <2>6. \A s \in DOMAIN old : ServiceMoves(s, old[s], {uid}, {uid})
    BY <2>1, SameServiceMoves DEF Registry!MonitoredService
  <2>7. QED
    BY <2>1, <2>4, <2>5, <2>6 DEF RegistryMoves, ServicesStay
<1>3. QED
  BY <1>1, <1>2

\* SetResourceStatus sets the status of one resource that is registered.
LEMMA SetResourceMoves ==
  ASSUME RegistryOK, NEW uid, NEW t, NEW status, NEW endpoints,
         Registry!SetResourceStatus(Fragment, t, uid, status, endpoints)
  PROVE  /\ RegistryMoves({uid}, {}) /\ ServicesStay
         /\ Registry!MonitoredResource(Fragment, t, uid) =>
              monitoredEntries'[Fragment].services[t].resources[uid] = status
<1> DEFINE m == monitoredEntries
           old == m[Fragment].services
           service == Registry!WithResourceStatus(old[t], uid, status, endpoints)
<1>1. CASE ~Registry!MonitoredResource(Fragment, t, uid)
  BY <1>1, SameEntryMoves DEF Registry!SetResourceStatus
<1>2. CASE Registry!MonitoredResource(Fragment, t, uid) /\ old[t].resources[uid] = status
  BY <1>2, SameEntryMoves DEF Registry!SetResourceStatus
<1>3. CASE Registry!MonitoredResource(Fragment, t, uid) /\ old[t].resources[uid] # status
  <2>1. /\ Fragment \in DOMAIN m /\ Registry!Monitored(Fragment) /\ t \in DOMAIN old
        /\ Registry!MonitoredService(Fragment, t) /\ uid \in DOMAIN old[t].resources
    BY <1>3 DEF Registry!MonitoredResource, Registry!MonitoredService, Registry!Monitored
  <2>2. m'[Fragment] = Registry!WithService(m[Fragment], t, service)
    BY <1>3, <2>1 DEF Registry!SetResourceStatus
  <2>3. EntryFields(m[Fragment])
    BY <2>1 DEF RegistryOK
  <2>4. /\ ServiceFields(service) /\ DOMAIN service.resources = DOMAIN old[t].resources
        /\ service.resources[uid] = status
        /\ \A u \in DOMAIN old[t].resources \ {uid} : service.resources[u] = old[t].resources[u]
    BY <2>1 DEF Registry!WithResourceStatus, ServiceFields
  <2> HIDE DEF service
  <2>5. ServiceMoves(t, service, {uid}, {})
    BY <2>1, <2>4 DEF ServiceMoves, Registry!MonitoredResource
  <2>6. /\ EntryFields(m'[Fragment]) /\ DOMAIN m'[Fragment].services = DOMAIN old
        /\ m'[Fragment].services[t] = service
        /\ \A s \in DOMAIN old \ {t} : m'[Fragment].services[s] = old[s]
    BY <2>1, <2>2, <2>3 DEF Registry!WithService, EntryFields
  <2>7. \A s \in DOMAIN old : ServiceMoves(s, old[s], {uid}, {})
    BY <2>1, SameServiceMoves DEF Registry!MonitoredService
  <2>8. RegistryMoves({uid}, {}) /\ ServicesStay
    BY <2>1, <2>5, <2>6, <2>7 DEF RegistryMoves, ServicesStay
  <2>9. QED
    BY <2>4, <2>6, <2>8
<1>4. QED
  BY <1>1, <1>2, <1>3

\* The count that WaitPendingChecks stores is no status.
LEMMA CheckPendingMoves ==
  ASSUME RegistryOK, CheckPending
  PROVE  RegistryMoves({}, {}) /\ ServicesStay
<1> DEFINE m == monitoredEntries
<1>1. CASE ~Registry!Monitored(Fragment)
  BY <1>1, SameEntryMoves DEF CheckPending
<1>2. CASE Registry!Monitored(Fragment)
  <2>1. /\ Fragment \in DOMAIN m /\ EntryFields(m[Fragment])
        /\ m' = [m EXCEPT ![Fragment].numPendingChecks = PendingFound]
    BY <1>2 DEF CheckPending, RegistryOK, Registry!Monitored
  <2>2. EntryFields(m'[Fragment]) /\ m'[Fragment].services = m[Fragment].services
    BY <2>1 DEF EntryFields
  <2>3. \A s \in DOMAIN m[Fragment].services : ServiceMoves(s, m[Fragment].services[s], {}, {})
    BY <1>2, SameServiceMoves DEF Registry!MonitoredService
  <2>4. QED
    BY <2>1, <2>2, <2>3 DEF RegistryMoves, ServicesStay
<1>3. QED
  BY <1>1, <1>2

\* The monitor helper removes the entry with all its resources.
LEMMA RemoveEntryMoves ==
  ASSUME Registry!RemoveEntry(Fragment)
  PROVE  RegistryMoves({}, {}) /\ ServicesStay
BY DEF Registry!RemoveEntry, Registry!Delete, RegistryMoves, ServicesStay

\* The uid of an object that was created, and its labels.
LEMMA UidOfObject ==
  ASSUME CreatedOK, NEW o \in Objects, created[o] > 0
  PROVE  /\ Uid(o) \in Uids /\ Uid(o)[1] = o /\ Uid(o)[2] = created[o]
         /\ [uid \in Uids |-> Fragment][Uid(o)] = Fragment
         /\ [uid \in Uids |-> ServiceOf[uid[1]]][Uid(o)] = ServiceOf[o]
<1>1. MaxCreations \in Nat
  BY StagesAssumption DEF MaxCreations
<1>2. created[o] \in 1 .. MaxCreations
  BY <1>1 DEF CreatedOK
<1>3. QED
  BY <1>2 DEF Uid, Uids

\* What the goroutine registers.
LEMMA RegisterMoves ==
  ASSUME CreatedOK, RegistryOK, RegisterObject
  PROVE  \E o \in fresh : RegistryMoves({Uid(o)}, {Uid(o)}) /\ ServicesStay
<1>1. PICK o \in fresh : Registry!AddMonitoredResource(Uid(o))
  BY DEF RegisterObject
<1>2. o \in Objects /\ created[o] > 0
  BY DEF CreatedOK
<1>3. Registry!AddPendingResource(Fragment, ServiceOf[o], Uid(o)) /\ Uid(o)[1] = o
  BY <1>1, <1>2, UidOfObject DEF Registry!AddMonitoredResource
<1>4. QED
  BY <1>3, AddPendingMoves

\* What the dispatcher reports: the status that the object has by then.
LEMMA DispatchMoves ==
  ASSUME CreatedOK, RegistryOK, NEW o \in Objects, NEW type \in {"add", "update"}, Dispatch(o, type)
  PROVE  /\ RegistryMoves({Uid(o)}, {}) /\ ServicesStay
         /\ /\ KindOf[o] = "Deployment" \/ objects[o].status = NALEJ_SERVICE_RUNNING
            /\ Registry!MonitoredResource(Fragment, ServiceOf[o], Uid(o))
            => monitoredEntries'[Fragment].services[ServiceOf[o]].resources[Uid(o)] = objects[o].status
<1>1. created[o] > 0
  BY DEF Dispatch, CreatedOK
<1>2. CASE KindOf[o] = "Deployment"
  <2>1. Registry!SetResourceStatus(Fragment, ServiceOf[o], Uid(o), objects[o].status, << >>)
    BY <1>1, <1>2, UidOfObject DEF Dispatch, Registry!OnDeployment
  <2>2. QED
    BY <2>1, SetResourceMoves
<1>3. CASE KindOf[o] # "Deployment" /\ objects[o].status = NALEJ_SERVICE_RUNNING
  <2>1. Registry!OnServiceOrIngress(Uid(o))
    BY <1>3 DEF Dispatch
  <2>2. \E endpoints : Registry!SetResourceStatus(Fragment, ServiceOf[o], Uid(o),
                                                  NALEJ_SERVICE_RUNNING, endpoints)
    BY <1>1, <2>1, UidOfObject, SameStatuses DEF Registry!OnServiceOrIngress
  <2>3. QED
    BY <1>3, <2>2, SetResourceMoves
<1>4. CASE KindOf[o] # "Deployment" /\ objects[o].status # NALEJ_SERVICE_RUNNING
  BY <1>4, SameEntryMoves DEF Dispatch
<1>5. QED
  BY <1>2, <1>3, <1>4

\* Every other step leaves the resources alone, and the services too unless
\* it adds those of a stage.
Registers == RegisterObject
Dispatches == \E o \in Objects, type \in {"add", "update"} : Dispatch(o, type)

\* The rest of the steps.
LEMMA OtherMoves ==
  ASSUME RegistryOK, [Next]_vars, ~Registers, ~Dispatches
  PROVE  RegistryMoves({}, {}) /\ (ServicesStay \/ BuildStage)
<1> USE DEF clusterVars, goroutineVars
<1>1. CASE UNCHANGED monitoredEntries
  BY <1>1, SameEntryMoves
<1>2. CASE BuildStage
  BY <1>2, AddEntryMoves, SetEntryStatusMoves DEF BuildStage
<1>3. CASE PrepareEnvironment
  <2>1. UNCHANGED monitoredEntries \/ Registry!SetEntryStatus(Fragment, FRAGMENT_ERROR)
    BY <1>3 DEF PrepareEnvironment
  <2>2. QED
    BY <2>1, SameEntryMoves, SetEntryStatusMoves
<1>4. CASE LoopStage
  <2>1. UNCHANGED monitoredEntries \/ Registry!SetEntryStatus(Fragment, FRAGMENT_DEPLOYING)
    BY <1>4 DEF LoopStage
  <2>2. QED
    BY <2>1, SameEntryMoves, SetEntryStatusMoves
<1>5. CASE Cleanup \/ DeployFails
  BY <1>5, SetEntryStatusMoves DEF Cleanup, DeployFails
<1>6. CASE CheckPending
  BY <1>6, CheckPendingMoves
<1>7. CASE UndeployEntry
  BY <1>7, SetAppStatusMoves DEF UndeployEntry
<1>8. CASE RemoveTerminating
  BY <1>8, RemoveEntryMoves DEF RemoveTerminating
<1>9. ASSUME NEW w \in left, CreateObject(w) \/ SkipService(w) \/ DeleteObject(w)
      PROVE  UNCHANGED monitoredEntries
  BY <1>9 DEF CreateObject, SkipService, DeleteObject
<1>10. ASSUME \/ DeployDone \/ Tick \/ (\E s \in ServiceInstances : ReadService(s))
              \/ UndeployFails \/ UndeployDone \/ Timeout \/ Cluster \/ UndeployNamespace
              \/ UNCHANGED vars
       PROVE  UNCHANGED monitoredEntries
  BY <1>10 DEF DeployDone, Tick, ReadService, UndeployFails, UndeployDone, Timeout, Cluster,
     ObjectChanges, Finalized, NamespaceGone, UndeployNamespace, vars
<1>11. QED
  BY <1>1, <1>2, <1>3, <1>4, <1>5, <1>6, <1>7, <1>8, <1>9, <1>10
     DEF Next, Process, Dispatcher, UndeployRequest, Terminated, Registers, Dispatches

\* Creations are not undone.
LEMMA CreatedGrows ==
  ASSUME CreatedOK, [Next]_vars
  PROVE  \A o \in Objects : created'[o] >= created[o]
<1>1. \A o \in Objects : created[o] \in Int
  BY DEF CreatedOK
<1>2. CASE UNCHANGED created
  BY <1>1, <1>2
<1>3. ASSUME NEW w \in left, CreateObject(w) PROVE \A o \in Objects : created'[o] >= created[o]
  BY <1>1, <1>3 DEF CreateObject, CreatedOK
<1>4. ASSUME NEW w \in left, SkipService(w) \/ DeleteObject(w) PROVE UNCHANGED created
  BY <1>4 DEF SkipService, DeleteObject, clusterVars
<1>5. ASSUME \/ PrepareEnvironment \/ BuildStage \/ LoopStage \/ Cleanup
             \/ RegisterObject \/ DeployFails \/ DeployDone
             \/ Tick \/ (\E s \in ServiceInstances : ReadService(s)) \/ CheckPending
             \/ UndeployFails \/ UndeployDone \/ Timeout
      PROVE  UNCHANGED created
  BY <1>5 DEF PrepareEnvironment, BuildStage, LoopStage, Cleanup, RegisterObject, DeployFails,
     DeployDone, Tick, ReadService, CheckPending, UndeployFails, UndeployDone, Timeout, clusterVars
<1>6. QED
  BY <1>2, <1>3, <1>4, <1>5, OthersLeaveGoroutine DEF Next, Process, Terminated, GoroutineWaits

\* Calls that add resources of objects that were created keep the registry.
LEMMA MovesKeepRegistry ==
  ASSUME CreatedOK, CreatedOK', RegistryOK, NEW touched, NEW added, RegistryMoves(touched, added),
         \A o \in Objects : created'[o] >= created[o],
         \A uid \in added : OwnResource(ServiceOf[uid[1]], uid)'
  PROVE  RegistryOK'
<1> SUFFICES ASSUME Fragment \in DOMAIN monitoredEntries',
                    NEW s \in DOMAIN monitoredEntries'[Fragment].services
             PROVE  ServiceOK(s, monitoredEntries[Fragment].services[s])'
  BY DEF RegistryOK, RegistryMoves, Registry!Monitored
<1> DEFINE new == monitoredEntries'[Fragment].services[s]
<1>1. ServiceMoves(s, new, touched, added)
  BY DEF RegistryMoves
<1>2. ASSUME NEW uid, OwnResource(s, uid) PROVE OwnResource(s, uid)'
  <2>1. uid[1] \in Objects /\ uid[2] \in Int
    BY <1>2 DEF OwnResource, Uids
  <2>2. created[uid[1]] \in Int /\ created'[uid[1]] \in Int
    BY <2>1 DEF CreatedOK
  <2>3. QED
    BY <1>2, <2>1, <2>2 DEF OwnResource, Uids, MaxCreations
<1>3. \A uid : Registry!MonitoredResource(Fragment, s, uid) => OwnResource(s, uid)
  BY DEF RegistryOK, ServiceOK, Registry!MonitoredResource, Registry!MonitoredService
<1>4. ServiceFields(new)
  BY <1>1 DEF ServiceMoves
<1>5. \A uid \in DOMAIN new.resources : OwnResource(s, uid)'
  BY <1>1, <1>2, <1>3 DEF ServiceMoves
<1>6. new.status = NALEJ_SERVICE_RUNNING => DOMAIN new.resources # {}
  BY <1>1 DEF ServiceMoves, RegistryOK, ServiceOK, Registry!MonitoredService
<1> HIDE DEF new
<1>7. QED
  BY <1>4, <1>5, <1>6 DEF ServiceOK, new, ServiceFields

\* One step of any actor keeps the registry.
LEMMA RegistryStep == CreatedOK /\ CreatedOK' /\ RegistryOK /\ [Next]_vars => RegistryOK'
<1> SUFFICES ASSUME CreatedOK, CreatedOK', RegistryOK, [Next]_vars PROVE RegistryOK'
  OBVIOUS
<1>1. CASE RegisterObject
  <2>0. PICK o \in fresh : RegistryMoves({Uid(o)}, {Uid(o)})
    BY <1>1, RegisterMoves
  <2>1. PICK uid : uid = Uid(o) /\ RegistryMoves({uid}, {uid})
    BY <2>0
  <2>2. o \in Objects /\ created[o] > 0 /\ KindOf[o] \in MonitoredKinds /\ created[o] \in Int
    BY DEF CreatedOK
  <2>3. created' = created
    BY <1>1 DEF RegisterObject, clusterVars
  <2>4. uid \in Uids /\ uid[1] = o /\ uid[2] = created[o]
    BY <2>1, <2>2, UidOfObject
  <2>5. OwnResource(ServiceOf[uid[1]], uid)'
    BY <2>2, <2>3, <2>4 DEF OwnResource, Uids, MaxCreations
  <2>6. \A u \in {uid} : OwnResource(ServiceOf[u[1]], u)'
    BY <2>5
  <2>7. \A x \in Objects : created'[x] >= created[x]
    BY CreatedGrows
  <2>8. QED
    BY <2>1, <2>6, <2>7, MovesKeepRegistry
<1>2. CASE \E o \in Objects, type \in {"add", "update"} : Dispatch(o, type)
  <2>1. PICK uid : RegistryMoves({uid}, {})
    BY <1>2, DispatchMoves
  <2>2. \A x \in Objects : created'[x] >= created[x]
    BY CreatedGrows
  <2>3. QED
    BY <2>1, <2>2, MovesKeepRegistry
<1>3. QED
  BY <1>1, <1>2, OtherMoves, CreatedGrows, MovesKeepRegistry DEF Registers, Dispatches

----------------------------------------------------------------------------
(***************************************************************************)
(* The checks.  While a stage is deployed its services are in the entry or *)
(* the entry is gone, so that a check that finds every service of the      *)
(* entry RUNNING has found every service of the stage.                     *)
(***************************************************************************)
WithinStage == {"loop", "deploy", "register", "wait", "scan", "undeploy"}

Started(s) ==
  \E o \in Objects : ServiceOf[o] = s /\ created[o] > 0 /\ KindOf[o] \in MonitoredKinds

ChecksOK ==
  /\ pc \in WithinStage /\ Registry!Monitored(Fragment) =>
       StageServices(stage) \subseteq DOMAIN monitoredEntries[Fragment].services
  /\ \A s \in DOMAIN scanned : scanned[s] => Started(s)
  /\ \A s \in ServiceInstances : StageOf[s] < stage => s \in passed

\* A stage starts with BuildStage and ends with CheckPending.
LEMMA StageFrame ==
  ASSUME [Next]_vars, ~BuildStage, ~CheckPending
  PROVE  /\ UNCHANGED <<stage, passed>>
         /\ pc' \in WithinStage => pc \in WithinStage
         /\ \/ scanned' = scanned \/ scanned' = Registry!EmptyMap
            \/ \E s \in ServiceInstances : ReadService(s)
<1> USE DEF WithinStage, Goto, historyVars
<1>1. CASE GoroutineWaits
  BY <1>1 DEF GoroutineWaits
<1>2. CASE PrepareEnvironment \/ LoopStage \/ Cleanup \/ Tick \/ Timeout
  BY <1>2 DEF PrepareEnvironment, LoopStage, Cleanup, Tick, Timeout, StageFails
<1>3. ASSUME NEW w \in left, CreateObject(w) \/ SkipService(w) \/ DeleteObject(w)
      PROVE  /\ UNCHANGED <<stage, passed, scanned>>
             /\ pc' \in WithinStage => pc \in WithinStage
  BY <1>3 DEF CreateObject, SkipService, DeleteObject
<1>4. CASE RegisterObject \/ DeployFails \/ DeployDone \/ UndeployFails \/ UndeployDone
  BY <1>4 DEF RegisterObject, DeployFails, DeployDone, UndeployFails, UndeployDone
<1>5. ASSUME NEW s \in ServiceInstances, ReadService(s)
      PROVE  UNCHANGED <<stage, passed, pc>>
  BY <1>5 DEF ReadService
<1>6. QED
  BY <1>1, <1>2, <1>3, <1>4, <1>5, OthersLeaveGoroutine DEF Next, Process, Terminated

\* A service that was found RUNNING has a resource, and so an object.
LEMMA RunningStarted ==
  ASSUME CreatedOK, RegistryOK, NEW s, Registry!MonitoredService(Fragment, s),
         monitoredEntries[Fragment].services[s].status = NALEJ_SERVICE_RUNNING
  PROVE  Started(s)
<1>1. ServiceOK(s, monitoredEntries[Fragment].services[s])
  BY DEF RegistryOK, Registry!MonitoredService
<1>2. PICK uid : OwnResource(s, uid)
  BY <1>1 DEF ServiceOK
<1>3. uid[1] \in Objects /\ uid[2] \in 1 .. MaxCreations /\ created[uid[1]] \in Int
  BY <1>2 DEF OwnResource, Uids, CreatedOK
<1>4. created[uid[1]] > 0
  BY <1>2, <1>3 DEF OwnResource
<1>5. QED
  BY <1>2, <1>3, <1>4 DEF Started, OwnResource

\* Every step but BuildStage keeps the services of the entry.
LEMMA ServicesStayStep ==
  ASSUME CreatedOK, RegistryOK, [Next]_vars, ~BuildStage
  PROVE  ServicesStay
BY RegisterMoves, DispatchMoves, OtherMoves DEF Registers, Dispatches

\* One step of any actor: a check passes a stage as a whole.
LEMMA ChecksStep ==
  CreatedOK /\ CreatedOK' /\ RegistryOK /\ ChecksOK /\ [Next]_vars => ChecksOK'
<1> SUFFICES ASSUME CreatedOK, CreatedOK', RegistryOK, ChecksOK, [Next]_vars PROVE ChecksOK'
  OBVIOUS
<1>1. \A s : Started(s) => Started(s)'
  <2>1. \A o \in Objects : created[o] \in Int /\ created'[o] \in Int /\ created'[o] >= created[o]
    BY CreatedGrows DEF CreatedOK
  <2>2. QED
    BY <2>1 DEF Started
<1>2. CASE BuildStage
  <2>1. UNCHANGED <<stage, scanned, passed>>
    BY <1>2 DEF BuildStage, historyVars
  <2>2. pc' \in WithinStage =>
          StageServices(stage) \subseteq DOMAIN monitoredEntries'[Fragment].services
    BY <1>2, AddEntryMoves DEF BuildStage, Goto, WithinStage
  <2>3. StageServices(stage)' = StageServices(stage)
    BY <2>1 DEF StageServices
  <2>4. QED
    BY <1>1, <2>1, <2>2, <2>3 DEF ChecksOK
<1>3. CASE CheckPending
  <2>1. /\ pc = "scan" /\ scanned' = scanned
        /\ StageFailed \/ StageGoesOn \/ StagePassed
    BY <1>3, CheckOutcome DEF CreatedOK
  <2>2. ServicesStay
    BY <1>3, CheckPendingMoves
  <2>3. \A s \in DOMAIN scanned' : scanned'[s] => Started(s)'
    BY <1>1, <2>1 DEF ChecksOK
  <2>4. CASE StageFailed \/ StageGoesOn
    <3>1. UNCHANGED <<stage, passed>>
      BY <2>4 DEF StageFailed, StageGoesOn
    <3>2. Registry!Monitored(Fragment)' =>
            StageServices(stage)' \subseteq DOMAIN monitoredEntries'[Fragment].services
      BY <2>1, <2>2, <3>1
         DEF ChecksOK, WithinStage, ServicesStay, Registry!Monitored, StageServices
    <3>3. QED
      BY <2>3, <3>1, <3>2 DEF ChecksOK
  <2>5. CASE StagePassed
    <3>1. pc' \notin WithinStage
      BY <2>5 DEF StagePassed, WithinStage
    <3>2. StageServices(stage) \subseteq FoundRunning
      BY <2>1, <2>5 DEF StagePassed, ChecksOK, WithinStage
    <3>3. \A s \in ServiceInstances : StageOf[s] \in Int
      BY StagesAssumption
    <3>4. ASSUME NEW s \in ServiceInstances, StageOf[s] < stage' PROVE s \in passed'
      <4>1. StageOf[s] < stage \/ StageOf[s] = stage
        BY <2>5, <3>3, <3>4 DEF StagePassed, CreatedOK
      <4>2. QED
        BY <2>5, <3>2, <4>1 DEF StagePassed, StageServices, ChecksOK
    <3>5. QED
      BY <2>3, <3>1, <3>4 DEF ChecksOK
  <2>6. QED
    BY <2>1, <2>4, <2>5
<1>4. CASE ~BuildStage /\ ~CheckPending
  <2>1. /\ UNCHANGED <<stage, passed>> /\ (pc' \in WithinStage => pc \in WithinStage)
        /\ \/ scanned' = scanned \/ scanned' = Registry!EmptyMap
           \/ \E s \in ServiceInstances : ReadService(s)
    BY <1>4, StageFrame
  <2>2. ServicesStay
    BY <1>4, ServicesStayStep
  <2>3. pc' \in WithinStage /\ Registry!Monitored(Fragment)' =>
          StageServices(stage)' \subseteq DOMAIN monitoredEntries'[Fragment].services
    BY <2>1, <2>2 DEF ChecksOK, ServicesStay, Registry!Monitored, StageServices
  <2>4. \A s \in DOMAIN scanned' : scanned'[s] => Started(s)'
    <3>1. CASE scanned' = scanned
      BY <1>1, <3>1 DEF ChecksOK
    <3>2. CASE scanned' = Registry!EmptyMap
      BY <3>2 DEF Registry!EmptyMap
    <3>3. ASSUME NEW s \in ServiceInstances, ReadService(s)
          PROVE  \A t \in DOMAIN scanned' : scanned'[t] => Started(t)'
      <4>1. /\ Registry!MonitoredService(Fragment, s)
            /\ DOMAIN scanned' = DOMAIN scanned \cup {s}
            /\ \A t \in DOMAIN scanned \ {s} : scanned'[t] = scanned[t]
            /\ scanned'[s] => monitoredEntries[Fragment].services[s].status = NALEJ_SERVICE_RUNNING
        BY <3>3 DEF ReadService, Registry!Put
      <4>2. scanned'[s] => Started(s)
        BY <4>1, RunningStarted
      <4>3. QED
        BY <1>1, <4>1, <4>2 DEF ChecksOK
    <3>4. QED
      BY <2>1, <3>1, <3>2, <3>3
  <2>5. QED
    BY <2>1, <2>3, <2>4 DEF ChecksOK
<1>5. QED
  BY <1>2, <1>3, <1>4

----------------------------------------------------------------------------
(***************************************************************************)
(* The events.  An object with nothing queued, nothing given up and a      *)
(* status to report is not about to be registered: its last event found it *)
(* registered, or its registration is gone with the entry.                 *)
(***************************************************************************)
Settled(o) ==
  /\ objects[o].life = "live" /\ KindOf[o] \in MonitoredKinds
  /\ \A type \in {"add", "update"} : <<o, type>> \notin DOMAIN events
  /\ Uid(o) \notin dropped
  /\ KindOf[o] = "Deployment" \/ objects[o].status = NALEJ_SERVICE_RUNNING

Follows(o) ==
  /\ o \notin fresh
  /\ Registry!MonitoredResource(Fragment, ServiceOf[o], Uid(o)) =>
       monitoredEntries[Fragment].services[ServiceOf[o]].resources[Uid(o)] = objects[o].status

EventsOK ==
  /\ \A o \in fresh : ~Registry!MonitoredResource(Fragment, ServiceOf[o], Uid(o))
  /\ \A o \in DOMAIN objects : Settled(o) => Follows(o)

\* Objects that end, change nothing that is reported.
ObjectsEnd ==
  \A o \in DOMAIN objects' :
    o \in DOMAIN objects
    /\ (objects'[o].life = "live" => objects[o].life = "live" /\ objects'[o].status = objects[o].status)

\* A step that only ends objects and leaves the resources alone.
LEMMA QuietEvents ==
  ASSUME EventsOK, UNCHANGED <<events, created, dropped>>, fresh' \subseteq fresh, ObjectsEnd,
         RegistryMoves({}, {})
  PROVE  EventsOK'
<1>1. \A o : Uid(o)' = Uid(o)
  BY DEF Uid
<1>2. ASSUME NEW s, NEW uid, Registry!MonitoredResource(Fragment, s, uid)'
      PROVE  /\ Registry!MonitoredResource(Fragment, s, uid)
             /\ monitoredEntries'[Fragment].services[s].resources[uid]
                  = monitoredEntries[Fragment].services[s].resources[uid]
  BY <1>2 DEF RegistryMoves, ServiceMoves, Registry!MonitoredResource, Registry!MonitoredService,
     Registry!Monitored
<1>3. ASSUME NEW o \in fresh', Registry!MonitoredResource(Fragment, ServiceOf[o], Uid(o))' PROVE FALSE
  <2>1. PICK uid : uid = Uid(o)
    OBVIOUS
  <2>2. Registry!MonitoredResource(Fragment, ServiceOf[o], uid)'
    BY <1>1, <1>3, <2>1
       DEF Registry!MonitoredResource, Registry!MonitoredService, Registry!Monitored
  <2>3. QED
    BY <1>2, <1>3, <2>1, <2>2 DEF EventsOK
<1>4. ASSUME NEW o \in DOMAIN objects', Settled(o)' PROVE Follows(o)'
  <2>1. o \in DOMAIN objects /\ objects'[o].status = objects[o].status /\ Settled(o)
    BY <1>1, <1>4 DEF ObjectsEnd, Settled
  <2>2. Follows(o)
    BY <2>1 DEF EventsOK
  <2>3. PICK uid : uid = Uid(o)
    OBVIOUS
  <2>4. uid = Uid(o)'
    BY <1>1, <2>3
  <2>5. ASSUME Registry!MonitoredResource(Fragment, ServiceOf[o], Uid(o))'
        PROVE  monitoredEntries'[Fragment].services[ServiceOf[o]].resources[uid] = objects'[o].status
    <3>1. Registry!MonitoredResource(Fragment, ServiceOf[o], uid)'
      BY <2>4, <2>5 DEF Registry!MonitoredResource, Registry!MonitoredService, Registry!Monitored
    <3>2. QED
      BY <1>2, <2>1, <2>2, <2>3, <3>1 DEF Follows
  <2>6. QED
    BY <2>2, <2>4, <2>5 DEF Follows
<1>5. QED
  BY <1>3, <1>4 DEF EventsOK

\* The steps that create nothing, change no object, register nothing and
\* dispatch nothing.
LEMMA EventsFrame ==
  ASSUME CreatedOK, [Next]_vars, ~Registers, ~Dispatches,
         ~\E w \in left : CreateObject(w),
         ~\E o \in Objects : ObjectChanges(o)
  PROVE  UNCHANGED <<events, created, dropped>> /\ fresh' \subseteq fresh /\ ObjectsEnd
<1> USE DEF clusterVars, goroutineVars, historyVars
<1>1. UNCHANGED objects => ObjectsEnd
  BY DEF ObjectsEnd
<1>2. CASE PrepareEnvironment \/ BuildStage \/ LoopStage \/ Cleanup \/ Tick \/ Timeout
  BY <1>1, <1>2 DEF PrepareEnvironment, BuildStage, LoopStage, Cleanup, Tick, Timeout
<1>3. ASSUME NEW w \in left, SkipService(w)
      PROVE  UNCHANGED <<events, created, dropped>> /\ fresh' \subseteq fresh /\ ObjectsEnd
  BY <1>1, <1>3 DEF SkipService
<1>4. ASSUME NEW w \in left, DeleteObject(w)
      PROVE  UNCHANGED <<events, created, dropped>> /\ fresh' \subseteq fresh /\ ObjectsEnd
  <2>1. /\ w[2] \in DOMAIN objects
        /\ objects' = [objects EXCEPT
             ![w[2]].life = IF KindOf[w[2]] = "Storage" THEN "terminating" ELSE "deleted"]
    BY <1>4 DEF DeleteObject, Exists
  <2>2. ObjectsEnd
    BY <2>1 DEF ObjectsEnd, CreatedOK, ObjectOK
  <2>3. QED
    BY <1>4, <2>2 DEF DeleteObject
<1>5. CASE DeployFails \/ DeployDone \/ UndeployFails \/ UndeployDone
  BY <1>1, <1>5 DEF DeployFails, DeployDone, UndeployFails, UndeployDone
<1>6. CASE CheckPending \/ \E s \in ServiceInstances : ReadService(s)
  BY <1>1, <1>6 DEF CheckPending, ReadService
<1>7. ASSUME NEW o \in Objects, Finalized(o)
      PROVE  UNCHANGED <<events, created, dropped>> /\ fresh' \subseteq fresh /\ ObjectsEnd
  <2>1. ObjectsEnd
    BY <1>7 DEF Finalized, ObjectsEnd, CreatedOK, ObjectOK
  <2>2. QED
    BY <1>7, <2>1 DEF Finalized
<1>8. CASE NamespaceGone
  <2>1. ObjectsEnd
    BY <1>8 DEF NamespaceGone, ObjectsEnd, CreatedOK, ObjectOK
  <2>2. QED
    BY <1>8, <2>1 DEF NamespaceGone
<1>9. CASE UndeployNamespace \/ UndeployEntry \/ RemoveTerminating
  BY <1>1, <1>9 DEF UndeployNamespace, UndeployEntry, RemoveTerminating
<1>10. CASE UNCHANGED vars
  BY <1>1, <1>10 DEF vars
<1>11. QED
  BY <1>2, <1>3, <1>4, <1>5, <1>6, <1>7, <1>8, <1>9, <1>10
     DEF Next, Process, Cluster, Dispatcher, UndeployRequest, Terminated, Registers, Dispatches

\* A new object has a uid that is not registered, and its event is queued.
LEMMA CreateEvents ==
  ASSUME CreatedOK, RegistryOK, EventsOK, NEW w \in left, CreateObject(w)
  PROVE  EventsOK'
<1> DEFINE o == w[2]
<1>1. /\ o \in Objects /\ created' = [created EXCEPT ![o] = @ + 1]
      /\ events' = Enqueue(o, "add")
      /\ objects' = Registry!Put(objects, o, [status |-> StatusAtCreation(o), life |-> "live"])
      /\ IF KindOf[o] \in MonitoredKinds THEN fresh' = {o} ELSE fresh' = fresh
      /\ UNCHANGED <<monitoredEntries, dropped>>
  BY DEF CreateObject, CreatedOK, historyVars
<1> HIDE DEF o
<1>2. created[o] \in Int /\ created'[o] = created[o] + 1
  BY <1>1 DEF CreatedOK
<1>3. \A x \in Objects \ {o} : Uid(x)' = Uid(x)
  BY <1>1 DEF Uid, CreatedOK
<1>4. ~Registry!MonitoredResource(Fragment, ServiceOf[o], <<o, created[o] + 1>>)
  <2>1. SUFFICES ASSUME Registry!MonitoredResource(Fragment, ServiceOf[o], <<o, created[o] + 1>>)
                 PROVE  FALSE
    OBVIOUS
  <2>2. OwnResource(ServiceOf[o], <<o, created[o] + 1>>)
    BY <2>1 DEF RegistryOK, ServiceOK, Registry!MonitoredResource, Registry!MonitoredService
  <2>3. QED
    BY <1>2, <2>2 DEF OwnResource
<1>5. /\ o \in fresh' => ~Registry!MonitoredResource(Fragment, ServiceOf[o], Uid(o))'
      /\ o \in DOMAIN objects' => ~Settled(o)'
  <2>1. ~Registry!MonitoredResource(Fragment, ServiceOf[o], Uid(o))'
    BY <1>1, <1>2, <1>4
       DEF Uid, Registry!MonitoredResource, Registry!MonitoredService, Registry!Monitored
  <2>2. KindOf[o] \in MonitoredKinds => <<o, "add">> \in DOMAIN events'
    BY <1>1, EnqueueAdds
  <2>3. QED
    BY <2>1, <2>2 DEF Settled
<1>6. ASSUME NEW x \in fresh', x # o
      PROVE  ~Registry!MonitoredResource(Fragment, ServiceOf[x], Uid(x))'
  <2>1. x \in fresh /\ x \in Objects /\ Uid(x)' = Uid(x)
    BY <1>1, <1>3, <1>6 DEF CreatedOK
  <2>2. QED
    BY <1>1, <2>1
       DEF EventsOK, Registry!MonitoredResource, Registry!MonitoredService, Registry!Monitored
<1>7. ASSUME NEW x \in DOMAIN objects', x # o, Settled(x)' PROVE Follows(x)'
  <2>1. x \in DOMAIN objects /\ objects'[x] = objects[x]
    BY <1>1, <1>7 DEF Registry!Put
  <2>2. Uid(x)' = Uid(x)
    BY <1>3, <1>7, <2>1 DEF CreatedOK
  <2>3. DOMAIN events \subseteq DOMAIN events'
    BY <1>1, EnqueueAdds
  <2>4. Settled(x)
    BY <1>1, <1>7, <2>1, <2>2, <2>3 DEF Settled
  <2>5. Follows(x)
    BY <2>1, <2>4 DEF EventsOK
  <2>6. QED
    BY <1>1, <1>7, <2>1, <2>2, <2>5
       DEF Follows, Registry!MonitoredResource, Registry!MonitoredService, Registry!Monitored
<1>8. QED
  BY <1>5, <1>6, <1>7 DEF EventsOK

\* A change of an object is queued.
LEMMA ChangeEvents ==
  ASSUME CreatedOK, EventsOK, NEW o \in Objects, ObjectChanges(o)
  PROVE  EventsOK'
<1>1. /\ o \in DOMAIN objects /\ events' = Enqueue(o, "update")
      /\ UNCHANGED <<monitoredEntries, created, dropped, fresh>>
      /\ DOMAIN objects' = DOMAIN objects
      /\ \A x \in DOMAIN objects \ {o} : objects'[x] = objects[x]
  BY DEF ObjectChanges, goroutineVars, historyVars
<1>2. \A x : Uid(x)' = Uid(x)
  BY <1>1 DEF Uid
<1>3. DOMAIN events \subseteq DOMAIN events'
      /\ (KindOf[o] \in MonitoredKinds => <<o, "update">> \in DOMAIN events')
  BY <1>1, EnqueueAdds
<1>4. ~Settled(o)'
  BY <1>3 DEF Settled
<1>5. ASSUME NEW x \in DOMAIN objects', Settled(x)' PROVE Follows(x)'
  <2>1. x # o /\ x \in DOMAIN objects /\ objects'[x] = objects[x]
    BY <1>1, <1>4, <1>5
  <2>2. Settled(x)
    BY <1>1, <1>2, <1>3, <1>5, <2>1 DEF Settled
  <2>3. Follows(x)
    BY <2>1, <2>2 DEF EventsOK
  <2>4. QED
    BY <1>1, <1>2, <2>1, <2>3
       DEF Follows, Registry!MonitoredResource, Registry!MonitoredService, Registry!Monitored
<1>6. \A x \in fresh' : ~Registry!MonitoredResource(Fragment, ServiceOf[x], Uid(x))'
  BY <1>1, <1>2
     DEF EventsOK, Registry!MonitoredResource, Registry!MonitoredService, Registry!Monitored
<1>7. QED
  BY <1>5, <1>6 DEF EventsOK

\* The resources that a call does not touch.
LEMMA UntouchedResources ==
  ASSUME NEW touched, NEW added, RegistryMoves(touched, added), NEW s, NEW uid, uid \notin touched,
         Registry!MonitoredResource(Fragment, s, uid)'
  PROVE  /\ Registry!MonitoredResource(Fragment, s, uid)
         /\ monitoredEntries'[Fragment].services[s].resources[uid]
              = monitoredEntries[Fragment].services[s].resources[uid]
BY DEF RegistryMoves, ServiceMoves, Registry!MonitoredResource, Registry!MonitoredService,
   Registry!Monitored

\* A registration is of an object that still has an event to come.
LEMMA RegisterEvents ==
  ASSUME CreatedOK, RegistryOK, EventsOK, RegisterObject
  PROVE  EventsOK'
<1>0. PICK o \in fresh : RegistryMoves({Uid(o)}, {Uid(o)})
  BY RegisterMoves
<1>1. PICK uid : uid = Uid(o) /\ RegistryMoves({uid}, {uid})
  BY <1>0
<1>2. fresh' = {} /\ UNCHANGED <<objects, created, events, dropped>>
  BY DEF RegisterObject, clusterVars, historyVars
<1>3. \A x : Uid(x)' = Uid(x) /\ Settled(x)' = Settled(x)
  BY <1>2 DEF Uid, Settled
<1>4. ASSUME NEW x \in DOMAIN objects', Settled(x)' PROVE Follows(x)'
  <2>1. x \in DOMAIN objects /\ Settled(x)
    BY <1>2, <1>3, <1>4
  <2>2. Follows(x)
    BY <2>1 DEF EventsOK
  <2>3. x # o
    BY <2>2 DEF Follows
  <2>4. PICK u : u = Uid(x)
    OBVIOUS
  <2>5. u # uid /\ u = Uid(x)'
    BY <1>1, <1>3, <2>3, <2>4 DEF Uid
  <2>6. ASSUME Registry!MonitoredResource(Fragment, ServiceOf[x], Uid(x))'
        PROVE  monitoredEntries'[Fragment].services[ServiceOf[x]].resources[u] = objects'[x].status
    <3>1. Registry!MonitoredResource(Fragment, ServiceOf[x], u)'
      BY <2>5, <2>6 DEF Registry!MonitoredResource, Registry!MonitoredService, Registry!Monitored
    <3>2. /\ Registry!MonitoredResource(Fragment, ServiceOf[x], u)
          /\ monitoredEntries'[Fragment].services[ServiceOf[x]].resources[u]
               = monitoredEntries[Fragment].services[ServiceOf[x]].resources[u]
      BY <1>1, <2>5, <3>1, UntouchedResources
    <3>3. QED
      BY <1>2, <2>2, <2>4, <3>2 DEF Follows
  <2>7. QED
    BY <1>2, <2>5, <2>6 DEF Follows
<1>5. QED
  BY <1>2, <1>4 DEF EventsOK

\* An event that is dispatched and neither retried nor given up has found its
\* object registered, and has set the status that the object has.
LEMMA DispatchEvents ==
  ASSUME CreatedOK, RegistryOK, EventsOK,
         NEW o \in Objects, NEW type \in {"add", "update"}, Dispatch(o, type)
  PROVE  EventsOK'
<1> DEFINE reported == KindOf[o] = "Deployment" \/ objects[o].status = NALEJ_SERVICE_RUNNING
           failed == reported /\ ~Registry!MonitoredResource(Fragment, ServiceOf[o], Uid(o))
           again == failed /\ events[<<o, type>>] < MaxEventRetries
<1>1. PICK uid : uid = Uid(o)
  OBVIOUS
<1>2. /\ RegistryMoves({uid}, {})
      /\ reported /\ Registry!MonitoredResource(Fragment, ServiceOf[o], uid)
           => monitoredEntries'[Fragment].services[ServiceOf[o]].resources[uid] = objects[o].status
  BY <1>1, DispatchMoves
<1>3. UNCHANGED <<objects, created, fresh>> /\ <<o, type>> \in DOMAIN events
  BY DEF Dispatch, goroutineVars
<1>4. /\ events' = IF again THEN [events EXCEPT ![<<o, type>>] = events[<<o, type>>] + 1]
                   ELSE Registry!Delete(events, <<o, type>>)
      /\ dropped' = CASE ~failed -> dropped \ {uid} [] again -> dropped
                      [] OTHER -> dropped \cup {uid}
  BY <1>1 DEF Dispatch
<1> HIDE DEF failed, again, reported
<1>5. /\ again => DOMAIN events' = DOMAIN events
      /\ ~again => DOMAIN events' = DOMAIN events \ {<<o, type>>}
  BY <1>4 DEF Registry!Delete
<1>6. /\ dropped \ {uid} \subseteq dropped'
      /\ failed /\ ~again => uid \in dropped'
  <2>1. again => failed
    BY DEF again
  <2>2. QED
    BY <1>4, <2>1
<1>7. \A x : Uid(x)' = Uid(x)
  BY <1>3 DEF Uid
<1>8. ASSUME NEW x \in fresh', Registry!MonitoredResource(Fragment, ServiceOf[x], Uid(x))' PROVE FALSE
  <2>1. PICK u : u = Uid(x)
    OBVIOUS
  <2>2. Registry!MonitoredResource(Fragment, ServiceOf[x], u)'
    BY <1>7, <1>8, <2>1
       DEF Registry!MonitoredResource, Registry!MonitoredService, Registry!Monitored
  <2>3. Registry!MonitoredResource(Fragment, ServiceOf[x], u)
    BY <1>2, <2>2 DEF RegistryMoves, ServiceMoves,
       Registry!MonitoredResource, Registry!MonitoredService, Registry!Monitored
  <2>4. QED
    BY <1>3, <1>8, <2>1, <2>3 DEF EventsOK
<1>9. ASSUME NEW x \in DOMAIN objects', x # o, Settled(x)' PROVE Follows(x)'
  <2>1. PICK u : u = Uid(x)
    OBVIOUS
  <2>2. u # uid /\ u = Uid(x)'
    BY <1>1, <1>7, <1>9, <2>1 DEF Uid
  <2>3. Settled(x)
    <3>1. \A t : <<x, t>> \notin DOMAIN events' => <<x, t>> \notin DOMAIN events
      BY <1>5, <1>9
    <3>2. Uid(x) \notin dropped
      BY <1>6, <1>9, <2>1, <2>2 DEF Settled
    <3>3. QED
      BY <1>3, <1>9, <3>1, <3>2 DEF Settled
  <2>4. Follows(x)
    BY <1>3, <1>9, <2>3 DEF EventsOK
  <2>5. ASSUME Registry!MonitoredResource(Fragment, ServiceOf[x], Uid(x))'
        PROVE  monitoredEntries'[Fragment].services[ServiceOf[x]].resources[u] = objects'[x].status
    <3>1. Registry!MonitoredResource(Fragment, ServiceOf[x], u)'
      BY <2>2, <2>5 DEF Registry!MonitoredResource, Registry!MonitoredService, Registry!Monitored
    <3>2. /\ Registry!MonitoredResource(Fragment, ServiceOf[x], u)
          /\ monitoredEntries'[Fragment].services[ServiceOf[x]].resources[u]
               = monitoredEntries[Fragment].services[ServiceOf[x]].resources[u]
      BY <1>2, <2>2, <3>1, UntouchedResources
    <3>3. QED
      BY <1>3, <2>1, <2>4, <3>2 DEF Follows
  <2>6. QED
    BY <1>3, <2>2, <2>4, <2>5 DEF Follows
<1>10. ASSUME o \in DOMAIN objects', Settled(o)' PROVE Follows(o)'
  <2>1. ~again
    BY <1>3, <1>5, <1>10 DEF Settled
  <2>2. ~failed
    BY <1>1, <1>6, <1>7, <1>10, <2>1 DEF Settled
  <2>3. reported
    BY <1>3, <1>10 DEF Settled, reported
  <2>4. Registry!MonitoredResource(Fragment, ServiceOf[o], Uid(o))
    BY <2>2, <2>3 DEF failed
  <2>5. o \notin fresh
    BY <2>4 DEF EventsOK
  <2>6. monitoredEntries'[Fragment].services[ServiceOf[o]].resources[uid] = objects'[o].status
    BY <1>1, <1>2, <1>3, <2>3, <2>4
  <2>7. QED
    BY <1>1, <1>3, <1>7, <2>5, <2>6 DEF Follows
<1>11. QED
  BY <1>8, <1>9, <1>10 DEF EventsOK

\* One step of any actor: nothing queued is forgotten.
LEMMA EventsStep == CreatedOK /\ RegistryOK /\ EventsOK /\ [Next]_vars => EventsOK'
<1> SUFFICES ASSUME CreatedOK, RegistryOK, EventsOK, [Next]_vars PROVE EventsOK'
  OBVIOUS
<1>1. CASE \E w \in left : CreateObject(w)
  BY <1>1, CreateEvents
<1>2. CASE \E o \in Objects : ObjectChanges(o)
  BY <1>2, ChangeEvents
<1>3. CASE Registers
  BY <1>3, RegisterEvents DEF Registers
<1>4. CASE Dispatches
  BY <1>4, DispatchEvents DEF Dispatches
<1>5. QED
  BY <1>1, <1>2, <1>3, <1>4, EventsFrame, OtherMoves, QuietEvents

----------------------------------------------------------------------------
(***************************************************************************)
(* What an Undeploy leaves for the next attempt.                           *)
(***************************************************************************)
Leftover(o) == Exists(o) => KindOf[o] = "LoadBalancer" \/ objects[o].life = "terminating"

LeftoversOK ==
  /\ pc = "undeploy" => \A o \in StageObjects : Leftover(o) \/ \E w \in left : w[2] = o
  /\ pc = "loop" /\ retries > 0 => \A o \in StageObjects : Leftover(o)

\* Undeploy has something to do for every object but the load balancers and
\* the services that the deployable does not hold.
LEMMA UndeployCovers ==
  ASSUME NEW o \in StageObjects \ unlisted, KindOf[o] # "LoadBalancer"
  PROVE  \E w \in Work(UndeployOrder) : w[2] = o
<1>1. o \in Objects /\ KindOf[o] \in {DeployOrder[i] : i \in DOMAIN DeployOrder}
  BY StagesAssumption, WorkOfStage
<1>2. DOMAIN DeployOrder = 1 .. 8 /\ DOMAIN UndeployOrder = 1 .. 8
  BY DEF DeployOrder, UndeployOrder
<1>3. KindOf[o] \in {"Secret", "Configmap", "Storage", "Deployment", "Service", "DeviceGroup", "Ingress"}
  BY <1>1, <1>2 DEF DeployOrder
<1>4. PICK i \in 1 .. 8 : UndeployOrder[i] = KindOf[o]
  <2>1. /\ UndeployOrder[1] = "Deployment" /\ UndeployOrder[2] = "Service"
        /\ UndeployOrder[3] = "DeviceGroup" /\ UndeployOrder[4] = "Ingress"
        /\ UndeployOrder[5] = "Configmap" /\ UndeployOrder[6] = "Secret"
        /\ UndeployOrder[7] = "Storage"
    BY DEF UndeployOrder
  <2>2. QED
    BY <1>3, <2>1
<1>5. <<i, o>> \in Work(UndeployOrder)
  BY <1>2, <1>4 DEF Work
<1>6. QED
  BY <1>5

\* The cluster ends objects and starts none.
LEMMA LeftoversStay ==
  ASSUME CreatedOK, [Next]_vars, ~\E w \in left : CreateObject(w), NEW o, Leftover(o)
  PROVE  Leftover(o)'
<1> USE DEF clusterVars, goroutineVars
<1>1. CASE UNCHANGED objects
  BY <1>1 DEF Leftover, Exists
<1>2. ASSUME NEW x \in Objects, ObjectChanges(x) PROVE Leftover(o)'
  BY <1>2 DEF ObjectChanges, Leftover, Exists, CreatedOK, ObjectOK
<1>3. ASSUME NEW x \in Objects, Finalized(x) PROVE Leftover(o)'
  BY <1>3 DEF Finalized, Leftover, Exists, CreatedOK, ObjectOK
<1>4. CASE NamespaceGone
  BY <1>4 DEF NamespaceGone, Leftover, Exists, CreatedOK, ObjectOK
<1>5. ASSUME NEW w \in left, DeleteObject(w) PROVE Leftover(o)'
  BY <1>5 DEF DeleteObject, Leftover, Exists, CreatedOK, ObjectOK
<1>6. ASSUME NEW w \in left, SkipService(w) PROVE UNCHANGED objects
  BY <1>6 DEF SkipService
<1>7. ASSUME \/ PrepareEnvironment \/ BuildStage \/ LoopStage \/ Cleanup \/ RegisterObject
             \/ DeployFails \/ DeployDone \/ Tick \/ Timeout \/ CheckPending
             \/ (\E s \in ServiceInstances : ReadService(s)) \/ UndeployFails \/ UndeployDone
             \/ UndeployRequest \/ RemoveTerminating \/ Dispatcher \/ UNCHANGED vars
      PROVE  UNCHANGED objects
  BY <1>7 DEF PrepareEnvironment, BuildStage, LoopStage, Cleanup, RegisterObject, DeployFails,
     DeployDone, Tick, Timeout, CheckPending, ReadService, UndeployFails, UndeployDone,
     UndeployRequest, UndeployNamespace, UndeployEntry, RemoveTerminating, Dispatcher, Dispatch, vars
<1>8. QED
  BY <1>1, <1>2, <1>3, <1>4, <1>5, <1>6, <1>7 DEF Next, Process, Cluster, Terminated

\* Undeploy starts with every object of the stage in its hands and goes on to
\* the next attempt when it has none left.
LEMMA LeftoversStep == CreatedOK /\ AttemptsOK /\ LeftoversOK /\ [Next]_vars => LeftoversOK'
<1> SUFFICES ASSUME CreatedOK, AttemptsOK, LeftoversOK, [Next]_vars PROVE LeftoversOK'
  OBVIOUS
<1>1. stage' = stage => StageObjects' = StageObjects
  BY DEF StageObjects, StageServices
<1>2. CASE StageFails /\ stage' = stage /\ ~\E w \in left : CreateObject(w)
  <2>1. left' = Work(UndeployOrder) /\ pc' = "undeploy"
    BY <1>2 DEF StageFails, Goto
  <2>2. ASSUME NEW o \in StageObjects PROVE Leftover(o)' \/ \E w \in left' : w[2] = o
    <3>1. CASE o \notin unlisted
      BY <2>1, <3>1, UndeployCovers DEF Leftover
    <3>2. CASE o \in unlisted
      <4>1. Leftover(o)
        BY <3>2 DEF AttemptsOK, CreatedOK, Leftover, Exists
      <4>2. QED
        BY <1>2, <4>1, LeftoversStay
    <3>3. QED
      BY <3>1, <3>2
  <2>3. QED
    BY <1>1, <1>2, <2>1, <2>2 DEF LeftoversOK
<1>3. CASE /\ pc' = pc /\ stage' = stage /\ retries' = retries /\ left' = left
           /\ ~\E w \in left : CreateObject(w)
  <2>1. \A o : Leftover(o) => Leftover(o)'
    BY <1>3, LeftoversStay
  <2>2. QED
    BY <1>1, <1>3, <2>1 DEF LeftoversOK
<1>4. CASE pc' \notin {"undeploy", "loop"}
  BY <1>4 DEF LeftoversOK
<1>5. CASE BuildStage
  BY <1>5 DEF BuildStage, Goto, LeftoversOK
<1>6. CASE PrepareEnvironment \/ LoopStage \/ Cleanup \/ DeployFails \/ DeployDone
           \/ RegisterObject \/ UndeployFails \/ \E w \in left : CreateObject(w)
  BY <1>4, <1>6 DEF PrepareEnvironment, LoopStage, Cleanup, DeployFails, DeployDone,
     RegisterObject, UndeployFails, CreateObject, Goto
<1>7. CASE \E w \in left : SkipService(w)
  BY <1>4, <1>7 DEF SkipService
<1>8. ASSUME NEW w \in left, DeleteObject(w) PROVE LeftoversOK'
  <2>1. /\ pc = "undeploy" /\ left' = left \ {w} /\ w[2] \in DOMAIN objects
        /\ UNCHANGED <<pc, stage, retries>>
        /\ objects' = [objects EXCEPT
             ![w[2]].life = IF KindOf[w[2]] = "Storage" THEN "terminating" ELSE "deleted"]
    BY <1>8 DEF DeleteObject, Exists
  <2>2. Leftover(w[2])'
    BY <2>1 DEF Leftover, Exists, CreatedOK, ObjectOK
  <2>3. ~\E v \in left : CreateObject(v)
    BY <2>1 DEF CreateObject
  <2>4. \A o : Leftover(o) => Leftover(o)'
    BY <2>3, LeftoversStay
  <2>5. \A o \in StageObjects : Leftover(o)' \/ \E v \in left' : v[2] = o
    BY <2>1, <2>2, <2>4 DEF LeftoversOK
  <2>6. QED
    BY <1>1, <2>1, <2>5 DEF LeftoversOK
<1>9. CASE Tick \/ Timeout
  <2>1. stage' = stage /\ ~\E w \in left : CreateObject(w)
    BY <1>9 DEF Tick, Timeout, CreateObject
  <2>2. StageFails \/ pc' = "scan"
    BY <1>9 DEF Tick, Timeout, Goto
  <2>3. QED
    BY <1>2, <1>4, <2>1, <2>2
<1>10. CASE \E s \in ServiceInstances : ReadService(s)
  BY <1>4, <1>10 DEF ReadService
<1>11. CASE CheckPending
  <2>1. pc = "scan" /\ (StageFailed \/ StageGoesOn \/ StagePassed)
    BY <1>11, CheckOutcome DEF CreatedOK
  <2>2. ~\E w \in left : CreateObject(w)
    BY <2>1 DEF CreateObject
  <2>3. QED
    BY <1>2, <1>4, <2>1, <2>2 DEF StageFailed, StageGoesOn, StagePassed, StageFails, Goto
<1>12. CASE UndeployDone
  <2>1. pc = "undeploy" /\ left = {} /\ pc' = "loop" /\ stage' = stage
    BY <1>12 DEF UndeployDone, Goto
  <2>2. ~\E w \in left : CreateObject(w)
    BY <2>1
  <2>3. \A o \in StageObjects : Leftover(o)'
    BY <2>1, <2>2, LeftoversStay DEF LeftoversOK
  <2>4. QED
    BY <1>1, <2>1, <2>3 DEF LeftoversOK
<1>13. CASE Cluster \/ Dispatcher \/ UndeployRequest \/ RemoveTerminating \/ UNCHANGED vars
  <2>1. GoroutineWaits
    BY <1>13, OthersLeaveGoroutine
  <2>2. CASE \E w \in left : CreateObject(w)
    BY <1>6, <2>2
  <2>3. QED
    BY <1>3, <2>1, <2>2 DEF GoroutineWaits
<1>14. QED
  BY <1>5, <1>6, <1>7, <1>8, <1>9, <1>10, <1>11, <1>12, <1>13 DEF Next, Process, Terminated

----------------------------------------------------------------------------
(***************************************************************************)
(* The theorems.                                                           *)
(***************************************************************************)
StageInv == CreatedOK /\ AttemptsOK /\ RegistryOK /\ ChecksOK /\ EventsOK /\ LeftoversOK

\* The request starts with an empty registry and an empty namespace.
LEMMA StageStarts == Init => StageInv
<1> SUFFICES ASSUME Init PROVE StageInv
  OBVIOUS
<1>1. DOMAIN Registry!EmptyMap = {}
  BY DEF Registry!EmptyMap
<1>2. ~Registry!Monitored(Fragment)
  BY <1>1 DEF Init, Registry!Init, Registry!Monitored
<1>3. \A s \in ServiceInstances : ~(StageOf[s] < stage)
  BY StagesAssumption DEF Init
<1>4. RegistryOK /\ ChecksOK /\ EventsOK /\ LeftoversOK
  BY <1>1, <1>2, <1>3 DEF Init, RegistryOK, ChecksOK, EventsOK, LeftoversOK
<1>5. QED
  BY <1>4, CreatedStarts DEF StageInv

\* The invariants of the attempts, the registry, the checks, the events and
\* the leftovers, together.
LEMMA StageAlways == Spec => []StageInv
<1>1. StageInv /\ [Next]_vars => StageInv'
  BY CreatedStep, AttemptsStep, RegistryStep, ChecksStep, EventsStep, LeftoversStep DEF StageInv
<1>2. QED
  BY <1>1, StageStarts, PTL DEF Spec

\* An object of a stage is created only after every service of the earlier
\* stages was found RUNNING by one check, for any stages, objects and events.
THEOREM StagesInOrder == Spec => []StageOrder
<1>1. StageInv => StageOrder
  <2> SUFFICES ASSUME StageInv, NEW o \in Objects, created[o] > 0,
                      NEW s \in ServiceInstances, StageOf[s] < StageOf[ServiceOf[o]]
               PROVE  s \in passed
    BY DEF StageOrder
  <2>1. StageOf[s] \in Int /\ StageOf[ServiceOf[o]] \in Int /\ stage \in Int
    BY StagesAssumption DEF StageInv, CreatedOK
  <2>2. ~(StageOf[ServiceOf[o]] > stage)
    BY DEF StageInv, AttemptsOK
  <2>3. QED
    BY <2>1, <2>2 DEF StageInv, ChecksOK
<1>2. QED
  BY <1>1, StageAlways, PTL

\* Without rollback an object is created once at most, and with limited retries
\* as often as there are attempts, whatever fails and in whichever of them.
THEOREM AttemptsAreBounded == Spec => []RetriesBounded
<1>1. StageInv => RetriesBounded
  BY DEF StageInv, AttemptsOK, RetriesBounded, Allowed
<1>2. QED
  BY <1>1, StageAlways, PTL

\* Deduplicated, retried and late events leave no status behind: what the
\* registry has is the status of the object once nothing is queued for it.
THEOREM EventsReachRegistry == Spec => []RegistryFollowsCluster
<1>1. StageInv => RegistryFollowsCluster
  <2> SUFFICES ASSUME StageInv, NEW o \in DOMAIN objects,
                      objects[o].life = "live",
                      Registry!MonitoredResource(Fragment, ServiceOf[o], Uid(o)),
                      \A type \in {"add", "update"} : <<o, type>> \notin DOMAIN events,
                      Uid(o) \notin dropped,
                      KindOf[o] = "Deployment" \/ objects[o].status = NALEJ_SERVICE_RUNNING
               PROVE  monitoredEntries[Fragment].services[ServiceOf[o]].resources[Uid(o)] = objects[o].status
    BY DEF RegistryFollowsCluster
  <2>1. OwnResource(ServiceOf[o], Uid(o))
    BY DEF StageInv, RegistryOK, ServiceOK, Registry!MonitoredResource, Registry!MonitoredService
  <2>2. KindOf[o] \in MonitoredKinds
    BY <2>1 DEF OwnResource, Uid
  <2>3. Settled(o)
    BY <2>2 DEF Settled
  <2>4. QED
    BY <2>3 DEF StageInv, EventsOK, Follows
<1>2. QED
  BY <1>1, StageAlways, PTL

\* A retry starts with nothing of the former attempt but load balancers and
\* storage that is being deleted.
THEOREM RetriesStartClean == Spec => []RetryMeetsOnlyBalancers
<1>1. StageInv => RetryMeetsOnlyBalancers
  BY DEF StageInv, LeftoversOK, Leftover, RetryMeetsOnlyBalancers
<1>2. QED
  BY <1>1, StageAlways, PTL

\* A stage passes only if an object that the registry hears of was created for
\* each of its services: a failed Deploy passes no service that it left out.
THEOREM PassedStagesStarted == Spec => PassedMeansStarted
<1> DEFINE Passing == pc = "scan" /\ pc' \in {"build", "done"} =>
             \A s \in StageServices(stage) : \E o \in StageObjects :
               ServiceOf[o] = s /\ created[o] > 0 /\ KindOf[o] \in MonitoredKinds
<1>1. StageInv /\ [Next]_vars => [Passing]_vars
  <2> SUFFICES ASSUME StageInv, [Next]_vars, pc = "scan", pc' \in {"build", "done"},
                      NEW s \in StageServices(stage)
               PROVE  \E o \in StageObjects :
                        ServiceOf[o] = s /\ created[o] > 0 /\ KindOf[o] \in MonitoredKinds
    OBVIOUS
  <2>1. CheckPending
    <3>1. ~GoroutineWaits
      BY DEF GoroutineWaits
    <3>2. \A w \in left : ~CreateObject(w) /\ ~SkipService(w) /\ ~DeleteObject(w)
      BY DEF CreateObject, SkipService, DeleteObject
    <3>3. \A t \in ServiceInstances : ~ReadService(t)
      BY DEF ReadService
    <3>4. QED
      BY <3>1, <3>2, <3>3, OthersLeaveGoroutine DEF Next, Process, Terminated,
         PrepareEnvironment, BuildStage, LoopStage, Cleanup, RegisterObject, DeployFails, DeployDone,
         Tick, Timeout, UndeployFails, UndeployDone
  <2>2. StagePassed
    BY <2>1, CheckOutcome DEF StageInv, CreatedOK, StageFailed, StageGoesOn
  <2>3. s \in FoundRunning
    BY <2>2 DEF StagePassed, StageInv, ChecksOK, WithinStage
  <2>4. Started(s)
    BY <2>3 DEF FoundRunning, StageInv, ChecksOK
  <2>5. QED
    BY <2>4 DEF Started, StageObjects
<1>2. QED
  BY <1>1, StageAlways, PTL DEF Spec, PassedMeansStarted

----------------------------------------------------------------------------
(***************************************************************************)
(* The refinement.  The deployment calls the registry as MonitoredInstances *)
(* says that its callers do: it reports only statuses that a deployment can *)
(* have, and the count that a check stores, of services that it has read   *)
(* one by one and that have changed since, is one of services of the entry. *)
(***************************************************************************)
DeploymentsOK ==
  /\ \A o \in DOMAIN objects :
       KindOf[o] = "Deployment" => objects[o].status \in DeploymentStatuses
  /\ \A o \in Objects : created[o] > 0 => o \in DOMAIN objects

CallsOK ==
  /\ DeploymentsOK
  /\ pc = "scan" /\ Registry!Monitored(Fragment) =>
       DOMAIN scanned \subseteq DOMAIN monitoredEntries[Fragment].services

\* A new deployment is DEPLOYING.
LEMMA NewDeployment ==
  ASSUME NEW o, KindOf[o] = "Deployment"
  PROVE  StatusAtCreation(o) \in DeploymentStatuses
<1>1. \A type : CountOf(<< >>, type) = 0
  <2>1. \A type : {i \in DOMAIN << >> : << >>[i] = type} = {}
    OBVIOUS
  <2>2. QED
    BY <2>1, FS_EmptySet DEF CountOf
<1>2. KubernetesDeploymentStatusTranslation(<< >>) = NALEJ_SERVICE_DEPLOYING
  BY <1>1 DEF KubernetesDeploymentStatusTranslation
<1>3. QED
  BY <1>2 DEF StatusAtCreation, DeploymentStatuses

\* The statuses of deployments, through creations, changes and deletions.
LEMMA DeploymentsStep ==
  ASSUME CreatedOK, DeploymentsOK, [Next]_vars
  PROVE  DeploymentsOK'
<1>1. CASE UNCHANGED <<objects, created>>
  BY <1>1 DEF DeploymentsOK
<1>2. ASSUME NEW w \in left, CreateObject(w) PROVE DeploymentsOK'
  <2>1. /\ DOMAIN objects' = DOMAIN objects \cup {w[2]}
        /\ objects'[w[2]].status = StatusAtCreation(w[2])
        /\ \A o \in DOMAIN objects \ {w[2]} : objects'[o] = objects[o]
        /\ \A o \in Objects \ {w[2]} : created'[o] = created[o]
    BY <1>2 DEF CreateObject, Registry!Put, CreatedOK
  <2>2. QED
    BY <2>1, NewDeployment DEF DeploymentsOK
<1>3. ASSUME NEW p \in Objects, ObjectChanges(p) PROVE DeploymentsOK'
  <2>1. PICK status \in StatusesOf(p) : objects' = [objects EXCEPT ![p].status = status]
    BY <1>3 DEF ObjectChanges
  <2>2. KindOf[p] = "Deployment" => status \in DeploymentStatuses
    BY DEF StatusesOf
  <2>3. ObjectOK(objects[p]) /\ created' = created
    BY <1>3 DEF ObjectChanges, CreatedOK
  <2>4. QED
    BY <2>1, <2>2, <2>3 DEF DeploymentsOK, ObjectOK
<1>4. ASSUME (\E w \in left : DeleteObject(w)) \/ (\E o \in Objects : Finalized(o)) \/ NamespaceGone
      PROVE  DeploymentsOK'
  <2>1. \A o \in DOMAIN objects : ObjectOK(objects[o])
    BY DEF CreatedOK
  <2>2. /\ DOMAIN objects' = DOMAIN objects /\ created' = created
        /\ \A o \in DOMAIN objects : objects'[o].status = objects[o].status
    <3>1. CASE \E w \in left : DeleteObject(w)
      BY <2>1, <3>1 DEF DeleteObject, ObjectOK
    <3>2. CASE \E o \in Objects : Finalized(o)
      BY <2>1, <3>2 DEF Finalized, ObjectOK
    <3>3. CASE NamespaceGone
      BY <2>1, <3>3 DEF NamespaceGone, ObjectOK
    <3>4. QED
      BY <1>4, <3>1, <3>2, <3>3
  <2>3. QED
    BY <2>2 DEF DeploymentsOK
<1>5. ASSUME \/ PrepareEnvironment \/ BuildStage \/ LoopStage \/ Cleanup \/ RegisterObject
             \/ DeployFails \/ DeployDone \/ Tick \/ (\E s \in ServiceInstances : ReadService(s))
             \/ CheckPending \/ UndeployFails \/ UndeployDone \/ Timeout
             \/ (\E w \in left : SkipService(w))
      PROVE  UNCHANGED <<objects, created>>
  BY <1>5 DEF PrepareEnvironment, BuildStage, LoopStage, Cleanup, RegisterObject, DeployFails,
     DeployDone, Tick, ReadService, CheckPending, UndeployFails, UndeployDone, Timeout,
     SkipService, clusterVars
<1>6. ASSUME Dispatcher \/ UndeployRequest \/ RemoveTerminating \/ UNCHANGED vars
      PROVE  UNCHANGED <<objects, created>>
  BY <1>6 DEF Dispatcher, Dispatch, UndeployRequest, UndeployNamespace, UndeployEntry,
     RemoveTerminating, vars, clusterVars
<1>7. QED
  BY <1>1, <1>2, <1>3, <1>4, <1>5, <1>6 DEF Next, Process, Cluster, Terminated

\* What a check has read stays in the entry until the check is over: only the
\* goroutine that waits adds its services again.
LEMMA ScannedStep ==
  ASSUME CreatedOK, RegistryOK, CallsOK, [Next]_vars,
         pc' = "scan", Registry!Monitored(Fragment)'
  PROVE  DOMAIN scanned' \subseteq DOMAIN monitoredEntries'[Fragment].services
<1>1. ~BuildStage /\ ~CheckPending
  <2>1. CheckPending => StageFailed \/ StageGoesOn \/ StagePassed
    BY CheckOutcome DEF CreatedOK
  <2>2. QED
    BY <2>1 DEF BuildStage, Goto, StageFailed, StageGoesOn, StagePassed
<1>2. Registry!Monitored(Fragment)
      /\ DOMAIN monitoredEntries[Fragment].services
           \subseteq DOMAIN monitoredEntries'[Fragment].services
  BY <1>1, ServicesStayStep DEF ServicesStay, Registry!Monitored
<1>3. CASE UNCHANGED <<pc, scanned>>
  BY <1>2, <1>3 DEF CallsOK
<1>4. ASSUME NEW s \in ServiceInstances, ReadService(s)
      PROVE  DOMAIN scanned' \subseteq DOMAIN monitoredEntries'[Fragment].services
  BY <1>2, <1>4 DEF ReadService, CallsOK, Registry!Put, Registry!MonitoredService
<1>5. CASE Tick
  BY <1>2, <1>5 DEF Tick, StageFails, Goto, Registry!EmptyMap
<1>6. ASSUME \/ PrepareEnvironment \/ LoopStage \/ Cleanup \/ RegisterObject
             \/ DeployFails \/ DeployDone \/ UndeployFails \/ UndeployDone \/ Timeout
      PROVE  FALSE
  BY <1>6 DEF PrepareEnvironment, LoopStage, Cleanup, RegisterObject, DeployFails, DeployDone,
     UndeployFails, UndeployDone, Timeout, StageFails, Goto
<1>7. ASSUME NEW w \in left, CreateObject(w) \/ SkipService(w) \/ DeleteObject(w)
      PROVE  FALSE
  BY <1>7 DEF CreateObject, SkipService, DeleteObject, Goto
<1>8. QED
  BY <1>1, <1>3, <1>4, <1>5, <1>6, <1>7, OthersLeaveGoroutine
     DEF Next, Process, Terminated, GoroutineWaits

\* A status that the loop sets.
LEMMA LoopCalls ==
  ASSUME NEW status \in {FRAGMENT_DEPLOYING, FRAGMENT_RETRYING, FRAGMENT_ERROR},
         Registry!SetEntryStatus(Fragment, status)
  PROVE  Registry!Next
<1>1. status \in Registry!LoopStatuses
  BY DEF Registry!LoopStatuses, FRAGMENT_DEPLOYING, FRAGMENT_RETRYING, FRAGMENT_ERROR,
     Registry!FRAGMENT_DEPLOYING, Registry!FRAGMENT_RETRYING, Registry!FRAGMENT_ERROR
<1>2. Registry!Deploy(Fragment)
  BY <1>1 DEF Registry!Deploy
<1>3. QED
  BY <1>2 DEF Registry!Next

\* An event, by the kind of its object.
LEMMA DispatchCalls ==
  ASSUME CreatedOK, CallsOK, NEW o \in Objects, NEW type \in {"add", "update"}, Dispatch(o, type)
  PROVE  [Registry!Next]_monitoredEntries
<1>1. created[o] > 0
  BY DEF Dispatch, CreatedOK
<1>2. Uid(o) \in Uids /\ Uid(o)[1] = o
  BY <1>1, UidOfObject
<1>3. CASE KindOf[o] = "Deployment"
  <2>1. Registry!OnDeployment(Uid(o), objects[o].status)
    BY <1>3 DEF Dispatch
  <2>2. objects[o].status \in Registry!DeploymentStatuses
    BY <1>1, <1>3 DEF CallsOK, DeploymentsOK, DeploymentStatuses, Registry!DeploymentStatuses,
       NALEJ_SERVICE_DEPLOYING, NALEJ_SERVICE_RUNNING, NALEJ_SERVICE_ERROR,
       Registry!NALEJ_SERVICE_DEPLOYING, Registry!NALEJ_SERVICE_RUNNING,
       Registry!NALEJ_SERVICE_ERROR
  <2>3. QED
    BY <1>2, <1>3, <2>1, <2>2 DEF Registry!Event, Registry!Next
<1>4. CASE KindOf[o] # "Deployment"
  <2>1. Registry!OnServiceOrIngress(Uid(o)) \/ UNCHANGED monitoredEntries
    BY <1>4 DEF Dispatch
  <2>2. QED
    BY <1>2, <1>4, <2>1 DEF Registry!Event, Registry!Next
<1>5. QED
  BY <1>3, <1>4

\* The count of a check is that of the services that it found pending.
LEMMA CheckCalls ==
  ASSUME CallsOK, CheckPending
  PROVE  [Registry!Next]_monitoredEntries
<1>1. CASE ~Registry!Monitored(Fragment)
  BY <1>1 DEF CheckPending
<1>2. CASE Registry!Monitored(Fragment)
  <2>1. DOMAIN scanned \ FoundRunning \in SUBSET DOMAIN monitoredEntries[Fragment].services
    BY <1>2 DEF CheckPending, CallsOK
  <2>2. monitoredEntries' = [monitoredEntries EXCEPT ![Fragment].numPendingChecks =
                               Cardinality(DOMAIN scanned \ FoundRunning)]
    BY <1>2 DEF CheckPending, PendingFound
  <2>3. Registry!UpdateAppStatus(Fragment)
    BY <1>2, <2>1, <2>2 DEF Registry!UpdateAppStatus, Cardinality, Registry!Cardinality
  <2>4. Registry!Deploy(Fragment)
    BY <2>3 DEF Registry!Deploy
  <2>5. QED
    BY <2>4 DEF Registry!Next
<1>3. QED
  BY <1>1, <1>2

\* Every step is one of the registry or leaves it alone.
LEMMA StageStepIsRegistryStep ==
  ASSUME CreatedOK, CallsOK, [Next]_vars
  PROVE  [Registry!Next]_monitoredEntries
<1>1. CASE UNCHANGED monitoredEntries
  BY <1>1
<1>2. CASE PrepareEnvironment \/ LoopStage \/ Cleanup \/ DeployFails
  <2>1. \/ UNCHANGED monitoredEntries
        \/ \E status \in {FRAGMENT_DEPLOYING, FRAGMENT_RETRYING, FRAGMENT_ERROR} :
             Registry!SetEntryStatus(Fragment, status)
    BY <1>2 DEF PrepareEnvironment, LoopStage, Cleanup, DeployFails
  <2>2. QED
    BY <2>1, LoopCalls
<1>3. CASE BuildStage
  <2>1. CASE Registry!AddEntry(Fragment, StageServices(stage))
    <3>1. StageServices(stage) \in SUBSET ServiceInstances /\ IsFiniteSet(StageServices(stage))
      BY StagesAssumption, FS_Subset DEF StageServices
    <3>2. Registry!Deploy(Fragment)
      BY <2>1, <3>1 DEF Registry!Deploy, IsFiniteSet, Registry!IsFiniteSet
    <3>3. QED
      BY <3>2 DEF Registry!Next
  <2>2. CASE Registry!SetEntryStatus(Fragment, FRAGMENT_ERROR)
    BY <2>2, LoopCalls
  <2>3. QED
    BY <1>3, <2>1, <2>2 DEF BuildStage
<1>4. CASE RegisterObject
  <2>1. PICK o \in fresh : Registry!AddMonitoredResource(Uid(o))
    BY <1>4 DEF RegisterObject
  <2>2. Uid(o) \in Uids
    BY UidOfObject DEF CreatedOK
  <2>3. QED
    BY <2>1, <2>2 DEF Registry!Event, Registry!Next
<1>5. CASE CheckPending
  BY <1>5, CheckCalls
<1>6. CASE Dispatcher
  BY <1>6, DispatchCalls DEF Dispatcher
<1>7. CASE UndeployEntry
  <2>1. Registry!SetAppStatus(App, Registry!FRAGMENT_TERMINATING)
    BY <1>7, SameStatuses DEF UndeployEntry
  <2>2. QED
    BY <2>1 DEF Registry!Undeploy, Registry!Next
<1>8. CASE RemoveTerminating
  BY <1>8 DEF RemoveTerminating, Registry!Notify, Registry!Next
<1>9. ASSUME NEW w \in left, CreateObject(w) \/ SkipService(w) \/ DeleteObject(w)
      PROVE  UNCHANGED monitoredEntries
  BY <1>9 DEF CreateObject, SkipService, DeleteObject
<1>10. ASSUME \/ DeployDone \/ Tick \/ (\E s \in ServiceInstances : ReadService(s))
              \/ UndeployFails \/ UndeployDone \/ Timeout \/ Cluster \/ UndeployNamespace
              \/ UNCHANGED vars
       PROVE  UNCHANGED monitoredEntries
  BY <1>10 DEF DeployDone, Tick, ReadService, UndeployFails, UndeployDone, Timeout, Cluster,
     ObjectChanges, Finalized, NamespaceGone, UndeployNamespace, vars
<1>11. QED
  BY <1>1, <1>2, <1>3, <1>4, <1>5, <1>6, <1>7, <1>8, <1>9, <1>10
     DEF Next, Process, UndeployRequest, Terminated

\* A deployment, with its retries, its checks that read without the lock, the
\* events of its objects and an undeploy request in between, uses the registry
\* as MonitoredInstances says: the theorems about the registry hold of it.
THEOREM StagesImplementRegistry == Spec => Registry!Spec
<1>1. Init => CallsOK /\ Registry!Init
  <2>1. Init => DOMAIN objects = {} /\ \A o \in Objects : created[o] = 0
    BY DEF Init, Registry!EmptyMap
  <2>2. QED
    BY <2>1 DEF Init, CallsOK, DeploymentsOK
<1>2. StageInv /\ CallsOK /\ [Next]_vars => CallsOK'
  BY DeploymentsStep, ScannedStep DEF StageInv, CallsOK
<1>3. StageInv /\ CallsOK /\ [Next]_vars => [Registry!Next]_monitoredEntries
  BY StageStepIsRegistryStep DEF StageInv
<1>4. QED
  BY <1>1, <1>2, <1>3, StageAlways, PTL DEF Spec, Registry!Spec

============================================================================
