------------------------- MODULE NetworkDecorators -------------------------
(***************************************************************************)
(* The network decorators beside the loop that deploys a stage: what they  *)
(* add to the deployments in memory (zerotier_decorator.go), what they     *)
(* create in the cluster beside the services (istio_decorator.go), and     *)
(* what both mean for a retry (kubernetes_deployment.go,                   *)
(* kubernetes_service.go, deploymentLoopStage of handler/manager.go).      *)
(*                                                                         *)
(* Every fragment of the application deploys a stage with one service, in  *)
(* a goroutine of its own and in the namespace they share.  Its public     *)
(* rule opens a port of a service that runs in another cluster, the same   *)
(* one for every fragment: the Istio decorator reads the Service and the   *)
(* VirtualService of that name and creates them or adds the port.          *)
(*                                                                         *)
(* External: the Kubernetes API.  Any call may fail, and one that changes  *)
(* something may be carried out and its answer be lost; an update with an  *)
(* old version and a pod template with two containers of one name are      *)
(* refused.                                                                *)
(* Left out: the other objects of a stage and the deletion of the          *)
(* namespace after a failure (StageDeployment and AppUndeployment).        *)
(***************************************************************************)
EXTENDS Integers, FiniteSets, Sequences

CONSTANTS
  Fragments,        \* the fragments of the application
  Exposing,         \* those whose service has exposed ports
  PortOf,           \* the target port of the public rule of a fragment
  MaxStageRetries   \* attempts of deploymentLoopStage

ASSUME FragmentsAssumption ==
  /\ Exposing \subseteq Fragments
  /\ PortOf \in [Fragments -> Nat \ {0}]
  /\ MaxStageRetries \in Nat \ {0}

Networks == {"zerotier", "istio"}

Names == {"deployment", "agent", "service"}

Kinds == {"Service", "VirtualService"}

VARIABLES
  network,     \* the network type of the configuration
  pc,          \* the goroutine of a fragment
  attempts,    \* the loop counter of deploymentLoopStage
  builds,      \* how often the ZeroTier decorator has built its objects
  listed,      \* whether the stage has a Service to create
  heard,       \* whether the registry has heard of the deployment
  next,        \* the element of a list that is created or deleted next
  cluster,     \* the objects of a fragment that exist
  shared,      \* Kind -> ports and version of the shared object
  found,       \* the shared object as the goroutine has read it
  unserved     \* history: ports whose Service could not be created

memory == <<builds, listed, heard>>

vars == <<network, pc, attempts, memory, next, cluster, shared, found, unserved>>

----------------------------------------------------------------------------
(***************************************************************************)
(* The deployments in memory.  createSidecars appends a container to that  *)
(* of the service, and createInbounds an agent to the list, every time.    *)
(* The Istio decorator sets an annotation, which is the same every time.   *)
(***************************************************************************)
\* A mutation of Decorated: the Istio decorator appends as well.
DecoratedAlways(f) == [builds EXCEPT ![f] = @ + 1]

Decorated(f) == IF network = "zerotier" THEN [builds EXCEPT ![f] = @ + 1] ELSE builds

Sidecars(f) == builds[f]

Agents(f) == IF f \in Exposing THEN builds[f] ELSE 0

Deployments(f) ==
  [i \in 1 .. 1 + Agents(f) |-> IF i = 1 THEN "deployment" ELSE "agent"]

\* Undeploy of the stage deletes the deployments and then the service.
Undeployed(f) == Deployments(f) \o (IF listed[f] THEN <<"service">> ELSE <<>>)

\* The steps of the Istio decorator for a kind.
GetStep == [Service |-> "get service", VirtualService |-> "get route"]
CreateStep == [Service |-> "create service", VirtualService |-> "create route"]
UpdateStep == [Service |-> "update service", VirtualService |-> "update route"]

Goto(f, label) == pc' = [pc EXCEPT ![f] = label]

Start(f, label) == Goto(f, label) /\ next' = [next EXCEPT ![f] = 1]

\* Build of the stage.  A service with ports is listed, unless the API cannot
\* say that it does not exist.
Build(f) ==
  /\ pc[f] = "build"
  /\ builds' = Decorated(f)
  /\ \E l \in {FALSE, (f \in Exposing)} : listed' = [listed EXCEPT ![f] = l]
  /\ Start(f, "create")
  /\ UNCHANGED <<network, attempts, heard, cluster, shared, found, unserved>>

----------------------------------------------------------------------------
(***************************************************************************)
(* An attempt.  The error of Deploy ends Deploy, not the attempt.          *)
(***************************************************************************)
Accepted(f, name) ==
  name \notin cluster[f] /\ (name = "deployment" => Sidecars(f) <= 1)

\* DeployableDeployments.Deploy, one element of its list, which is monitored
\* from then on; with an error it is not, whether it was created or not.
CreateDeployment(f) ==
  /\ pc[f] = "create" /\ next[f] \in DOMAIN Deployments(f)
  /\ \/ /\ Accepted(f, Deployments(f)[next[f]])
        /\ cluster' = [cluster EXCEPT ![f] = @ \cup {Deployments(f)[next[f]]}]
        /\ next' = [next EXCEPT ![f] = @ + 1]
        /\ heard' = [heard EXCEPT ![f] = TRUE]
        /\ UNCHANGED pc
     \/ /\ Accepted(f, Deployments(f)[next[f]])
        /\ cluster' = [cluster EXCEPT ![f] = @ \cup {Deployments(f)[next[f]]}]
        /\ Goto(f, "wait") /\ UNCHANGED <<next, heard>>
     \/ Goto(f, "wait") /\ UNCHANGED <<cluster, next, heard>>
  /\ UNCHANGED <<network, attempts, builds, listed, shared, found, unserved>>

\* Its end: the decorator's Build again, where Deploy seems to be meant.
DecorateAgain(f) ==
  /\ pc[f] = "create" /\ next[f] \notin DOMAIN Deployments(f)
  /\ builds' = Decorated(f)
  /\ Goto(f, "service")
  /\ UNCHANGED <<network, attempts, listed, heard, next, cluster, shared, found, unserved>>

DecorateServices == IF network = "istio" THEN GetStep["Service"] ELSE "wait"

\* DeployableServices.Deploy: the Service is created, or skipped when the API
\* does not say that it is missing; at its end comes the decorator's Deploy.
CreateService(f) ==
  /\ pc[f] = "service"
  /\ \/ /\ listed[f] /\ "service" \notin cluster[f]
        /\ cluster' = [cluster EXCEPT ![f] = @ \cup {"service"}]
        /\ Goto(f, DecorateServices) \/ Goto(f, "wait")
     \/ Goto(f, DecorateServices) /\ UNCHANGED cluster
     \/ listed[f] /\ Goto(f, "wait") /\ UNCHANGED cluster
  /\ UNCHANGED <<network, attempts, memory, next, shared, found, unserved>>

\* WaitPendingChecks: the registry takes the service for running, as it may
\* since its deployment was first created, or it does not in time.
Wait(f) ==
  /\ pc[f] = "wait"
  /\ \/ heard[f] /\ Goto(f, "passed") /\ UNCHANGED next
     \/ Start(f, "undeploy")
  /\ UNCHANGED <<network, attempts, memory, cluster, shared, found, unserved>>

\* Undeploy of the stage, one object.  An error ends it, and the loop.
Delete(f) ==
  LET name == Undeployed(f)[next[f]] IN
  /\ pc[f] = "undeploy" /\ next[f] \in DOMAIN Undeployed(f)
  /\ \/ /\ name \in cluster[f]
        /\ cluster' = [cluster EXCEPT ![f] = @ \ {name}]
        /\ next' = [next EXCEPT ![f] = @ + 1]
        /\ UNCHANGED pc
     \/ /\ cluster' \in {cluster, [cluster EXCEPT ![f] = @ \ {name}]}
        /\ Goto(f, "failed") /\ UNCHANGED next
  /\ UNCHANGED <<network, attempts, memory, shared, found, unserved>>

\* The loop goes on with the same deployables.
Retry(f) ==
  /\ pc[f] = "undeploy" /\ next[f] \notin DOMAIN Undeployed(f)
  /\ attempts' = [attempts EXCEPT ![f] = @ + 1]
  /\ IF attempts[f] + 1 < MaxStageRetries THEN Start(f, "create")
     ELSE Goto(f, "failed") /\ UNCHANGED next
  /\ UNCHANGED <<network, memory, cluster, shared, found, unserved>>

----------------------------------------------------------------------------
(***************************************************************************)
(* decorateServices: the Service of the rule and then its VirtualService.  *)
(***************************************************************************)
Exists(object) == object.version > 0

AfterObject(kind) == IF kind = "Service" THEN GetStep["VirtualService"] ELSE "wait"

WithPort(object, port) == [ports |-> object.ports \cup {port}, version |-> object.version + 1]

Get(f, kind) ==
  /\ pc[f] = GetStep[kind]
  /\ \/ /\ found' = [found EXCEPT ![f] = shared[kind]]
        /\ Goto(f, IF Exists(shared[kind]) THEN UpdateStep[kind] ELSE CreateStep[kind])
     \/ Goto(f, "wait") /\ UNCHANGED found
  /\ UNCHANGED <<network, attempts, memory, next, cluster, shared, unserved>>

\* The object may have been created meanwhile.  The error of the Service is
\* only logged, that of the VirtualService is returned, which ends Deploy as
\* its success does: whether the answer of a creation was lost is the same.
Create(f, kind) ==
  /\ pc[f] = CreateStep[kind]
  /\ \/ /\ ~Exists(shared[kind])
        /\ shared' = [shared EXCEPT ![kind] = WithPort(@, PortOf[f])]
        /\ Goto(f, AfterObject(kind))
        /\ UNCHANGED unserved
     \/ /\ Goto(f, IF kind = "Service" THEN AfterObject(kind) ELSE "wait")
        /\ unserved' = IF kind = "Service" THEN unserved \cup {PortOf[f]} ELSE unserved
        /\ UNCHANGED shared
  /\ UNCHANGED <<network, attempts, memory, next, cluster, found>>

\* A mutation of Update: an error is only logged.
UpdateLogging(f, kind) ==
  /\ pc[f] = UpdateStep[kind]
  /\ \/ PortOf[f] \in found[f].ports /\ UNCHANGED shared
     \/ /\ PortOf[f] \notin found[f].ports /\ found[f].version = shared[kind].version
        /\ shared' = [shared EXCEPT ![kind] = WithPort(found[f], PortOf[f])]
     \/ PortOf[f] \notin found[f].ports /\ UNCHANGED shared
  /\ Goto(f, AfterObject(kind))
  /\ UNCHANGED <<network, attempts, memory, next, cluster, found, unserved>>

\* updateServicePorts and updateVirtualServicePorts: nothing to do if the port
\* was there; the update is refused if the object has changed since.
Update(f, kind) ==
  /\ pc[f] = UpdateStep[kind]
  /\ \/ PortOf[f] \in found[f].ports /\ Goto(f, AfterObject(kind)) /\ UNCHANGED shared
     \/ /\ PortOf[f] \notin found[f].ports /\ found[f].version = shared[kind].version
        /\ shared' = [shared EXCEPT ![kind] = WithPort(found[f], PortOf[f])]
        /\ Goto(f, AfterObject(kind)) \/ Goto(f, "wait")
     \/ /\ PortOf[f] \notin found[f].ports
        /\ Goto(f, "wait") /\ UNCHANGED shared
  /\ UNCHANGED <<network, attempts, memory, next, cluster, found, unserved>>

----------------------------------------------------------------------------
NoObject == [ports |-> {}, version |-> 0]

Init ==
  /\ network \in Networks
  /\ pc = [f \in Fragments |-> "build"]
  /\ attempts = [f \in Fragments |-> 0] /\ builds = [f \in Fragments |-> 0]
  /\ listed = [f \in Fragments |-> FALSE] /\ heard = [f \in Fragments |-> FALSE]
  /\ next = [f \in Fragments |-> 1] /\ cluster = [f \in Fragments |-> {}]
  /\ shared = [k \in Kinds |-> NoObject] /\ found = [f \in Fragments |-> NoObject]
  /\ unserved = {}

Goroutine(f) ==
  \/ Build(f) \/ CreateDeployment(f) \/ DecorateAgain(f) \/ CreateService(f)
  \/ Wait(f) \/ Delete(f) \/ Retry(f)
  \/ \E kind \in Kinds : Get(f, kind) \/ Create(f, kind) \/ Update(f, kind)

Next == \E f \in Fragments : Goroutine(f)

Spec == Init /\ [][Next]_vars

----------------------------------------------------------------------------
(***************************************************************************)
(* Properties.                                                             *)
(***************************************************************************)

\* With Istio a retry can succeed: whatever failed before it, lost answers
\* included, Undeploy has deleted what the former attempts left of the
\* deployments, or was the end, and the decorator's second Build has added
\* nothing to them.  (Not so with ZeroTier: that Build adds a second sidecar.)
IstioRetriesAreAccepted ==
  network = "istio" =>
    \A f \in Fragments : pc[f] = "create" /\ next[f] \in DOMAIN Deployments(f) =>
      Accepted(f, Deployments(f)[next[f]])

\* Whatever fragments read and write at the same time, the VirtualService
\* routes to no port that the Service does not have, except for those whose
\* Service could not be created, which is only logged.
RoutesHavePorts ==
  shared["VirtualService"].ports \subseteq shared["Service"].ports \cup unserved

============================================================================
