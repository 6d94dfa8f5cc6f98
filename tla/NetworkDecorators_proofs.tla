----------------------- MODULE NetworkDecorators_proofs -----------------------
(***************************************************************************)
(* The routes of the Istio decorator and the retries of the stages it      *)
(* decorates, for any number of fragments with any ports, any number of    *)
(* attempts, calls that fail at any place and answers that are lost.       *)
(***************************************************************************)
EXTENDS NetworkDecorators, TLAPS

Labels ==
  {"build", "create", "service", "wait", "undeploy", "passed", "failed",
   "get service", "create service", "update service",
   "get route", "create route", "update route"}

Objects == [ports : SUBSET Nat, version : Nat]

DecoratorsTypeOK ==
  /\ pc \in [Fragments -> Labels]
  /\ found \in [Fragments -> Objects]
  /\ shared \in [Kinds -> Objects]
  /\ unserved \in SUBSET Nat

\* A goroutine that has come to the VirtualService has seen to its port.
ServicePort(f) == PortOf[f] \in shared["Service"].ports \cup unserved

ReachedRoutes ==
  \A f \in Fragments :
    pc[f] \in {"get route", "create route", "update route"} => ServicePort(f)

\* What a goroutine has read is older than the object or the same, and an
\* object never loses a port.
FoundOlder(f, kind) ==
  /\ found[f].version <= shared[kind].version
  /\ found[f].version = shared[kind].version => found[f].ports = shared[kind].ports
  /\ found[f].ports \subseteq shared[kind].ports

FoundOK ==
  \A f \in Fragments, kind \in Kinds : pc[f] = UpdateStep[kind] => FoundOlder(f, kind)

RoutesInv == DecoratorsTypeOK /\ ReachedRoutes /\ FoundOK /\ RoutesHavePorts

----------------------------------------------------------------------------
\* The steps of a kind are different from those of the other.
LEMMA StepsOfKinds ==
  /\ GetStep["Service"] = "get service" /\ GetStep["VirtualService"] = "get route"
  /\ CreateStep["Service"] = "create service"
  /\ CreateStep["VirtualService"] = "create route"
  /\ UpdateStep["Service"] = "update service"
  /\ UpdateStep["VirtualService"] = "update route"
  /\ AfterObject("Service") = "get route" /\ AfterObject("VirtualService") = "wait"
BY DEF GetStep, CreateStep, UpdateStep, AfterObject

\* No fragment has started and the shared objects do not exist.
LEMMA RoutesInvInit == Init => RoutesInv
BY FragmentsAssumption
   DEF Init, RoutesInv, DecoratorsTypeOK, ReachedRoutes, FoundOK, RoutesHavePorts,
       Labels, Objects, NoObject, Kinds, UpdateStep

\* The steps that leave the shared objects alone keep the invariant, as long
\* as they do not lead the goroutine to the steps the invariant speaks of.
LEMMA QuietStepKeepsInv ==
  ASSUME NEW f \in Fragments, NEW label \in Labels, RoutesInv,
         label \notin {"get route", "create route", "update route", "update service"},
         pc' = [pc EXCEPT ![f] = label] \/ pc' = pc,
         shared' = shared, found' = found, unserved' = unserved
  PROVE  RoutesInv'
<1>1. \A g \in Fragments : pc'[g] = pc[g] \/ pc'[g] = label
  BY DEF RoutesInv, DecoratorsTypeOK
<1>2. DecoratorsTypeOK'
  BY DEF RoutesInv, DecoratorsTypeOK
<1>3. ReachedRoutes'
  BY <1>1 DEF RoutesInv, ReachedRoutes, ServicePort
<1>4. FoundOK'
  <2> SUFFICES ASSUME NEW g \in Fragments, NEW kind \in Kinds, pc'[g] = UpdateStep[kind]
               PROVE  FoundOlder(g, kind)'
    BY DEF FoundOK
  <2>1. pc[g] = UpdateStep[kind]
    BY <1>1, StepsOfKinds DEF Kinds
  <2>2. QED
    BY <2>1 DEF RoutesInv, FoundOK, FoundOlder
<1>5. RoutesHavePorts'
  BY DEF RoutesInv, RoutesHavePorts
<1>6. QED
  BY <1>2, <1>3, <1>4, <1>5 DEF RoutesInv

\* The stage itself never touches the shared objects.
LEMMA StageKeepsInv ==
  ASSUME NEW f \in Fragments, RoutesInv,
         \/ Build(f) \/ CreateDeployment(f) \/ DecorateAgain(f)
         \/ CreateService(f) \/ Wait(f) \/ Delete(f) \/ Retry(f)
  PROVE  RoutesInv'
<1> DEFINE Quiet(label) ==
      /\ pc' = [pc EXCEPT ![f] = label] \/ pc' = pc
      /\ shared' = shared /\ found' = found /\ unserved' = unserved
<1> DEFINE Places ==
      {"create", "service", "wait", "undeploy", "passed", "failed", "get service"}
<1>1. \E label \in Places : Quiet(label)
  <2>1. CASE Build(f)
    BY <2>1 DEF Build, Start, Goto
  <2>2. CASE CreateDeployment(f)
    BY <2>2 DEF CreateDeployment, Goto
  <2>3. CASE DecorateAgain(f)
    BY <2>3 DEF DecorateAgain, Goto
  <2>4. CASE CreateService(f)
    BY <2>4, StepsOfKinds DEF CreateService, Goto, DecorateServices
  <2>5. CASE Wait(f)
    BY <2>5 DEF Wait, Start, Goto
  <2>6. CASE Delete(f)
    BY <2>6 DEF Delete, Goto
  <2>7. CASE Retry(f)
    BY <2>7 DEF Retry, Start, Goto
  <2>8. QED
    BY <2>1, <2>2, <2>3, <2>4, <2>5, <2>6, <2>7
<1>2. PICK label \in Places : Quiet(label)
  BY <1>1
<1>3. label \in Labels
      /\ label \notin {"get route", "create route", "update route", "update service"}
  BY DEF Labels
<1>4. QED
  BY <1>2, <1>3, QuietStepKeepsInv

\* A read takes the object as it is.
LEMMA GetKeepsInv ==
  ASSUME NEW f \in Fragments, NEW kind \in Kinds, RoutesInv, Get(f, kind)
  PROVE  RoutesInv'
<1> DEFINE label == IF Exists(shared[kind]) THEN UpdateStep[kind] ELSE CreateStep[kind]
<1>1. CASE pc' = [pc EXCEPT ![f] = "wait"] /\ found' = found
  BY <1>1, QuietStepKeepsInv DEF Get, Labels
<1>2. CASE /\ found' = [found EXCEPT ![f] = shared[kind]]
           /\ pc' = [pc EXCEPT ![f] = label]
  <2>0. pc[f] = GetStep[kind] /\ shared' = shared /\ unserved' = unserved
    BY DEF Get
  <2>1. DecoratorsTypeOK'
    BY <1>2, <2>0, StepsOfKinds DEF RoutesInv, DecoratorsTypeOK, Labels, Kinds
  <2>2. ReachedRoutes'
    BY <1>2, <2>0, StepsOfKinds
       DEF RoutesInv, DecoratorsTypeOK, ReachedRoutes, ServicePort, Kinds
  <2>3. FoundOK'
    <3> SUFFICES ASSUME NEW g \in Fragments, NEW k \in Kinds, pc'[g] = UpdateStep[k]
                 PROVE  FoundOlder(g, k)'
      BY DEF FoundOK
    <3>1. CASE g = f
      <4>1. k = kind
        BY <1>2, <3>1, StepsOfKinds DEF RoutesInv, DecoratorsTypeOK, Kinds
      <4>2. found'[g] = shared[k] /\ shared[k].version \in Nat
        BY <1>2, <3>1, <4>1 DEF RoutesInv, DecoratorsTypeOK, Objects
      <4>3. QED
        BY <2>0, <4>2 DEF FoundOlder
    <3>2. CASE g # f
      <4>1. pc'[g] = pc[g] /\ found'[g] = found[g]
        BY <1>2, <3>2 DEF RoutesInv, DecoratorsTypeOK
      <4>2. FoundOlder(g, k)
        BY <4>1 DEF RoutesInv, FoundOK
      <4>3. QED
        BY <2>0, <4>1, <4>2 DEF FoundOlder
    <3>3. QED
      BY <3>1, <3>2
  <2>4. RoutesHavePorts'
    BY <2>0 DEF RoutesInv, RoutesHavePorts
  <2>5. QED
    BY <2>1, <2>2, <2>3, <2>4 DEF RoutesInv
<1>3. QED
  BY <1>1, <1>2 DEF Get, Goto

\* A new version of an object with one port more keeps the invariant, whether
\* its goroutine hears of it and goes on or not: it was made from the latest
\* version.
LEMMA WriteKeepsInv ==
  ASSUME NEW f \in Fragments, NEW kind \in Kinds, NEW label \in {AfterObject(kind), "wait"},
         RoutesInv,
         pc[f] = CreateStep[kind] \/ pc[f] = UpdateStep[kind],
         shared' = [shared EXCEPT ![kind] = WithPort(shared[kind], PortOf[f])],
         pc' = [pc EXCEPT ![f] = label],
         found' = found, unserved' = unserved
  PROVE  RoutesInv'
<1>0. PortOf[f] \in Nat
  BY FragmentsAssumption
<1>1. /\ shared'[kind].version = shared[kind].version + 1
      /\ shared'[kind].ports = shared[kind].ports \cup {PortOf[f]}
      /\ \A k \in Kinds : k # kind => shared'[k] = shared[k]
      /\ shared[kind].version \in Nat
  BY DEF RoutesInv, DecoratorsTypeOK, WithPort, Objects
<1>2. DecoratorsTypeOK'
  <2>1. WithPort(shared[kind], PortOf[f]) \in Objects
    BY <1>0 DEF RoutesInv, DecoratorsTypeOK, WithPort, Objects
  <2>2. label \in Labels
    BY StepsOfKinds DEF Kinds, Labels
  <2>3. QED
    BY <2>1, <2>2 DEF RoutesInv, DecoratorsTypeOK
<1>3. \A k \in Kinds : shared[k].ports \subseteq shared'[k].ports
  BY <1>1
<1>4. ReachedRoutes'
  <2> SUFFICES ASSUME NEW g \in Fragments,
                      pc'[g] \in {"get route", "create route", "update route"}
               PROVE  PortOf[g] \in shared'["Service"].ports \cup unserved
    BY DEF ReachedRoutes, ServicePort
  <2>1. CASE g = f
    <3>1. kind = "Service"
      BY <2>1, StepsOfKinds DEF RoutesInv, DecoratorsTypeOK, Kinds
    <3>2. QED
      BY <1>1, <2>1, <3>1
  <2>2. CASE g # f
    BY <1>3, <2>2 DEF RoutesInv, DecoratorsTypeOK, ReachedRoutes, ServicePort, Kinds
  <2>3. QED
    BY <2>1, <2>2
<1>5. FoundOK'
  <2> SUFFICES ASSUME NEW g \in Fragments, NEW k \in Kinds, pc'[g] = UpdateStep[k]
               PROVE  FoundOlder(g, k)'
    BY DEF FoundOK
  <2>1. g # f
    BY StepsOfKinds DEF RoutesInv, DecoratorsTypeOK, Kinds
  <2>2. FoundOlder(g, k) /\ found[g].version \in Nat
    BY <2>1 DEF RoutesInv, DecoratorsTypeOK, FoundOK, Objects
  <2>3. CASE k = kind
    BY <1>1, <2>2, <2>3 DEF FoundOlder
  <2>4. CASE k # kind
    BY <1>1, <2>2, <2>4 DEF FoundOlder
  <2>5. QED
    BY <2>3, <2>4
<1>6. RoutesHavePorts'
  <2>1. CASE kind = "Service"
    BY <1>1, <2>1 DEF RoutesInv, RoutesHavePorts, Kinds
  <2>2. CASE kind = "VirtualService"
    <3>1. PortOf[f] \in shared["Service"].ports \cup unserved
      BY <2>2, StepsOfKinds DEF RoutesInv, ReachedRoutes, ServicePort
    <3>2. QED
      BY <1>1, <2>2, <3>1 DEF RoutesInv, RoutesHavePorts, Kinds
  <2>3. QED
    BY <2>1, <2>2 DEF Kinds
<1>7. QED
  BY <1>2, <1>4, <1>5, <1>6 DEF RoutesInv

\* A goroutine comes to the VirtualService because its port was already in
\* the Service, or because the Service could not be created.
LEMMA MoveOnKeepsInv ==
  ASSUME NEW f \in Fragments, RoutesInv,
         pc' = [pc EXCEPT ![f] = "get route"],
         shared' = shared, found' = found,
         unserved' \in SUBSET Nat, unserved \subseteq unserved',
         PortOf[f] \in shared["Service"].ports \cup unserved'
  PROVE  RoutesInv'
<1>1. DecoratorsTypeOK'
  BY DEF RoutesInv, DecoratorsTypeOK, Labels
<1>2. ReachedRoutes'
  BY DEF RoutesInv, DecoratorsTypeOK, ReachedRoutes, ServicePort
<1>3. FoundOK'
  <2> SUFFICES ASSUME NEW g \in Fragments, NEW k \in Kinds, pc'[g] = UpdateStep[k]
               PROVE  FoundOlder(g, k)'
    BY DEF FoundOK
  <2>1. pc[g] = UpdateStep[k]
    BY StepsOfKinds DEF RoutesInv, DecoratorsTypeOK, Kinds
  <2>2. QED
    BY <2>1 DEF RoutesInv, FoundOK, FoundOlder
<1>4. RoutesHavePorts'
  BY DEF RoutesInv, RoutesHavePorts
<1>5. QED
  BY <1>1, <1>2, <1>3, <1>4 DEF RoutesInv

\* An object is created with one port, or the creation fails, which is only
\* logged for the Service.
LEMMA CreateKeepsInv ==
  ASSUME NEW f \in Fragments, NEW kind \in Kinds, RoutesInv, Create(f, kind)
  PROVE  RoutesInv'
<1>0. pc[f] = CreateStep[kind] /\ found' = found
  BY DEF Create
<1>1. CASE /\ shared' = [shared EXCEPT ![kind] = WithPort(shared[kind], PortOf[f])]
           /\ pc' = [pc EXCEPT ![f] = AfterObject(kind)]
           /\ unserved' = unserved
  BY <1>0, <1>1, WriteKeepsInv
<1>2. CASE /\ kind = "Service" /\ pc' = [pc EXCEPT ![f] = AfterObject(kind)]
           /\ unserved' = unserved \cup {PortOf[f]} /\ shared' = shared
  <2>1. unserved' \in SUBSET Nat
    BY <1>2, FragmentsAssumption DEF RoutesInv, DecoratorsTypeOK
  <2>2. QED
    BY <1>0, <1>2, <2>1, StepsOfKinds, MoveOnKeepsInv
<1>3. CASE /\ kind = "VirtualService" /\ pc' = [pc EXCEPT ![f] = "wait"]
           /\ unserved' = unserved /\ shared' = shared
  BY <1>0, <1>3, QuietStepKeepsInv DEF Labels
<1>4. QED
  BY <1>1, <1>2, <1>3 DEF Create, Goto, Kinds

\* The API accepts an update of the version that was read and no other.
LEMMA UpdateKeepsInv ==
  ASSUME NEW f \in Fragments, NEW kind \in Kinds, RoutesInv, Update(f, kind)
  PROVE  RoutesInv'
<1>0. pc[f] = UpdateStep[kind] /\ found' = found /\ unserved' = unserved
  BY DEF Update
<1>1. FoundOlder(f, kind)
  BY <1>0 DEF RoutesInv, FoundOK
<1>2. CASE /\ PortOf[f] \in found[f].ports /\ shared' = shared
           /\ pc' = [pc EXCEPT ![f] = AfterObject(kind)]
  <2>1. CASE kind = "Service"
    <3>1. PortOf[f] \in shared["Service"].ports \cup unserved'
      BY <1>1, <1>2, <2>1 DEF FoundOlder
    <3>2. unserved' \in SUBSET Nat /\ unserved \subseteq unserved'
      BY <1>0 DEF RoutesInv, DecoratorsTypeOK
    <3>3. QED
      BY <1>0, <1>2, <2>1, <3>1, <3>2, StepsOfKinds, MoveOnKeepsInv
  <2>2. CASE kind = "VirtualService"
    BY <1>0, <1>2, <2>2, StepsOfKinds, QuietStepKeepsInv DEF Labels
  <2>3. QED
    BY <2>1, <2>2 DEF Kinds
<1>3. CASE /\ found[f].version = shared[kind].version
           /\ shared' = [shared EXCEPT ![kind] = WithPort(found[f], PortOf[f])]
           /\ \/ pc' = [pc EXCEPT ![f] = AfterObject(kind)]
              \/ pc' = [pc EXCEPT ![f] = "wait"]
  <2>1. WithPort(found[f], PortOf[f]) = WithPort(shared[kind], PortOf[f])
    BY <1>1, <1>3 DEF FoundOlder, WithPort
  <2>2. QED
    BY <1>0, <1>3, <2>1, WriteKeepsInv
<1>4. CASE pc' = [pc EXCEPT ![f] = "wait"] /\ shared' = shared
  BY <1>0, <1>4, QuietStepKeepsInv DEF Labels
<1>5. QED
  BY <1>2, <1>3, <1>4 DEF Update, Goto

----------------------------------------------------------------------------
\* Every step under either decorator keeps the invariant.
LEMMA RoutesInvStep == RoutesInv /\ [Next]_vars => RoutesInv'
<1> SUFFICES ASSUME RoutesInv, [Next]_vars
             PROVE  RoutesInv'
  OBVIOUS
<1>1. CASE Next
  <2>1. PICK f \in Fragments : Goroutine(f)
    BY <1>1 DEF Next
  <2>2. CASE \/ Build(f) \/ CreateDeployment(f) \/ DecorateAgain(f)
             \/ CreateService(f) \/ Wait(f) \/ Delete(f) \/ Retry(f)
    BY <2>2, StageKeepsInv
  <2>3. CASE \E kind \in Kinds : Get(f, kind) \/ Create(f, kind) \/ Update(f, kind)
    BY <2>3, GetKeepsInv, CreateKeepsInv, UpdateKeepsInv
  <2>4. QED
    BY <2>1, <2>2, <2>3 DEF Goroutine
<1>2. CASE UNCHANGED vars
  BY <1>2
     DEF vars, RoutesInv, DecoratorsTypeOK, ReachedRoutes, ServicePort, FoundOK,
         FoundOlder, RoutesHavePorts
<1>3. QED
  BY <1>1, <1>2

(***************************************************************************)
(* Whatever fragments run the Istio decorator at the same time, a route of *)
(* the VirtualService has its port in the Service, unless the Service      *)
(* could not be created and decorateServices has only logged it.  Updates  *)
(* with an old version, which the API refuses, cannot drop a port.         *)
(***************************************************************************)
THEOREM RoutesCorrect == Spec => []RoutesHavePorts
<1>1. RoutesInv => RoutesHavePorts
  BY DEF RoutesInv
<1>2. QED
  BY RoutesInvInit, RoutesInvStep, <1>1, PTL DEF Spec

----------------------------------------------------------------------------
(***************************************************************************)
(* Retries with the Istio decorator.  Its Build adds nothing to the list,  *)
(* which is one deployment; Undeploy goes on to the next attempt only      *)
(* after it has deleted all of the list.                                   *)
(***************************************************************************)
NoDeployment(f) == "deployment" \notin cluster[f]

IstioTypeOK ==
  /\ pc \in [Fragments -> Labels]
  /\ next \in [Fragments -> Nat \ {0}]
  /\ builds \in [Fragments -> {0}]
  /\ cluster \in [Fragments -> SUBSET Names]

StartsClean(f) ==
  /\ pc[f] = "build" => NoDeployment(f)
  /\ pc[f] = "create" /\ next[f] = 1 => NoDeployment(f)
  /\ pc[f] = "undeploy" /\ next[f] > 1 => NoDeployment(f)

IstioInv ==
  network = "istio" => IstioTypeOK /\ \A f \in Fragments : StartsClean(f)

\* The list of Deploy is the deployment of the service, which is also the
\* first that Undeploy deletes.
LEMMA IstioLists ==
  ASSUME IstioTypeOK, NEW f \in Fragments
  PROVE  /\ DOMAIN Deployments(f) = {1} /\ Deployments(f)[1] = "deployment"
         /\ 1 \in DOMAIN Undeployed(f) /\ Undeployed(f)[1] = "deployment"
         /\ \A i \in DOMAIN Undeployed(f) : Undeployed(f)[i] \in Names
<1>1. Agents(f) = 0
  BY DEF IstioTypeOK, Agents
<1>2. Deployments(f) = <<"deployment">>
  BY <1>1 DEF Deployments
<1>3. CASE listed[f]
  BY <1>2, <1>3 DEF Undeployed, Names
<1>4. CASE ~listed[f]
  BY <1>2, <1>4 DEF Undeployed, Names
<1>5. QED
  BY <1>2, <1>3, <1>4

\* Every step of a goroutine keeps it so.
LEMMA IstioStep ==
  ASSUME network = "istio", IstioTypeOK, \A g \in Fragments : StartsClean(g),
         NEW f \in Fragments, Goroutine(f)
  PROVE  IstioTypeOK' /\ \A g \in Fragments : StartsClean(g)'
<1> DEFINE Goal == IstioTypeOK' /\ \A g \in Fragments : StartsClean(g)'
           Moves(label, n, names) ==
             /\ pc' = [pc EXCEPT ![f] = label] \/ (label = pc[f] /\ pc' = pc)
             /\ next' = [next EXCEPT ![f] = n] \/ (n = next[f] /\ next' = next)
             /\ cluster' = [cluster EXCEPT ![f] = names] \/ (names = cluster[f] /\ cluster' = cluster)
             /\ builds' = builds
           Clean(label, n, names) ==
             \/ label \notin {"build", "create", "undeploy"}
             \/ label = "create" /\ n > 1
             \/ label = "undeploy" /\ n = 1
             \/ "deployment" \notin names
<1>1. ASSUME NEW label \in Labels, NEW n \in Nat \ {0}, NEW names \in SUBSET Names,
             Moves(label, n, names), Clean(label, n, names)
      PROVE  Goal
  <2>1. IstioTypeOK'
    BY <1>1 DEF IstioTypeOK
  <2>2. pc'[f] = label /\ next'[f] = n /\ cluster'[f] = names
    BY <1>1 DEF IstioTypeOK
  <2>3. StartsClean(f)'
    BY <1>1, <2>2 DEF StartsClean, NoDeployment
  <2>4. ASSUME NEW g \in Fragments, g # f PROVE StartsClean(g)'
    <3>1. pc'[g] = pc[g] /\ next'[g] = next[g] /\ cluster'[g] = cluster[g]
      BY <1>1, <2>4 DEF IstioTypeOK
    <3>2. QED
      BY <3>1 DEF StartsClean, NoDeployment
  <2>5. QED
    BY <2>1, <2>3, <2>4
<1>2. /\ StartsClean(f) /\ pc[f] \in Labels /\ cluster[f] \in SUBSET Names
      /\ next[f] \in Nat \ {0} /\ 1 \in Nat \ {0} /\ 2 \in Nat \ {0}
  BY DEF IstioTypeOK
<1>3. {"create", "service", "wait", "undeploy", "passed", "failed", "get service",
       "create service", "update service", "get route", "create route", "update route"}
        \subseteq Labels \ {"build"}
  BY DEF Labels
<1>4. {"deployment", "service"} \subseteq Names
  BY DEF Names
<1> SUFFICES Goal
  OBVIOUS
<1> HIDE DEF Goal
<1>5. CASE Build(f)
  <2>1. Moves("create", 1, cluster[f]) /\ pc[f] = "build"
    BY <1>5 DEF Build, Decorated, Start, Goto
  <2>2. Clean("create", 1, cluster[f])
    BY <1>2, <2>1 DEF StartsClean, NoDeployment
  <2> HIDE DEF Moves, Clean
  <2>3. QED
    BY <1>1, <1>2, <1>3, <2>1, <2>2
<1>6. CASE CreateDeployment(f)
  <2> DEFINE created == cluster[f] \cup {"deployment"}
  <2>1. pc[f] = "create" /\ next[f] = 1 /\ created \in SUBSET Names
    BY <1>2, <1>4, <1>6, IstioLists DEF CreateDeployment
  <2>2. \/ Moves("create", 2, created) \/ Moves("wait", 1, created) \/ Moves("wait", 1, cluster[f])
    BY <1>6, <2>1, IstioLists DEF CreateDeployment, Goto
  <2>3. Clean("create", 2, created) /\ Clean("wait", 1, created) /\ Clean("wait", 1, cluster[f])
    OBVIOUS
  <2> HIDE DEF Moves, Clean, created
  <2>4. QED
    BY <1>1, <1>2, <1>3, <2>1, <2>2, <2>3
<1>7. CASE DecorateAgain(f)
  <2>1. Moves("service", next[f], cluster[f]) /\ Clean("service", next[f], cluster[f])
    BY <1>7 DEF DecorateAgain, Decorated, Goto
  <2> HIDE DEF Moves, Clean
  <2>2. QED
    BY <1>1, <1>2, <1>3, <2>1
<1>8. CASE CreateService(f)
  <2>1. PICK label \in {"get service", "wait"}, names \in {cluster[f], cluster[f] \cup {"service"}} :
          Moves(label, next[f], names)
    BY <1>8, StepsOfKinds DEF CreateService, DecorateServices, Goto, memory
  <2>2. Clean(label, next[f], names) /\ label \in Labels /\ names \in SUBSET Names
    BY <1>2, <1>3, <1>4
  <2> HIDE DEF Moves, Clean
  <2>3. QED
    BY <1>1, <1>2, <2>1, <2>2
<1>9. CASE Wait(f)
  <2>1. Moves("passed", next[f], cluster[f]) \/ Moves("undeploy", 1, cluster[f])
    BY <1>9 DEF Wait, Start, Goto, memory
  <2>2. Clean("passed", next[f], cluster[f]) /\ Clean("undeploy", 1, cluster[f])
    OBVIOUS
  <2> HIDE DEF Moves, Clean
  <2>3. QED
    BY <1>1, <1>2, <1>3, <2>1, <2>2
<1>10. CASE Delete(f)
  <2>1. pc[f] = "undeploy" /\ next[f] \in DOMAIN Undeployed(f)
    BY <1>10 DEF Delete
  <2> DEFINE rest == cluster[f] \ {Undeployed(f)[next[f]]}
  <2>2. \/ Moves("undeploy", next[f] + 1, rest)
        \/ Moves("failed", next[f], cluster[f]) \/ Moves("failed", next[f], rest)
    BY <1>10, <2>1 DEF Delete, Goto, memory
  <2>3. "deployment" \notin rest
    <3>1. CASE next[f] = 1
      BY <3>1, IstioLists
    <3>2. CASE next[f] # 1
      BY <1>2, <2>1, <3>2 DEF StartsClean, NoDeployment
    <3>3. QED
      BY <3>1, <3>2
  <2>4. next[f] + 1 \in Nat \ {0} /\ rest \in SUBSET Names
    BY <1>2
  <2>5. /\ Clean("undeploy", next[f] + 1, rest)
        /\ Clean("failed", next[f], cluster[f]) /\ Clean("failed", next[f], rest)
    BY <2>3
  <2> HIDE DEF Moves, Clean, rest
  <2>6. QED
    BY <1>1, <1>2, <1>3, <2>2, <2>4, <2>5
<1>11. CASE Retry(f)
  <2>1. pc[f] = "undeploy" /\ next[f] # 1
    BY <1>11, IstioLists DEF Retry
  <2>2. Moves("create", 1, cluster[f]) \/ Moves("failed", next[f], cluster[f])
    BY <1>11 DEF Retry, Start, Goto, memory
  <2>3. Clean("create", 1, cluster[f]) /\ Clean("failed", next[f], cluster[f])
    BY <1>2, <2>1 DEF StartsClean, NoDeployment
  <2> HIDE DEF Moves, Clean
  <2>4. QED
    BY <1>1, <1>2, <1>3, <2>2, <2>3
<1>12. CASE \E kind \in Kinds : Get(f, kind) \/ Create(f, kind) \/ Update(f, kind)
  <2>1. PICK kind \in Kinds : Get(f, kind) \/ Create(f, kind) \/ Update(f, kind)
    BY <1>12
  <2>2. {UpdateStep[kind], CreateStep[kind], AfterObject(kind), "wait"}
          \subseteq Labels \ {"build", "create", "undeploy"}
    BY <1>3, StepsOfKinds DEF Kinds
  <2>3. PICK label \in {UpdateStep[kind], CreateStep[kind], AfterObject(kind), "wait"} :
          Moves(label, next[f], cluster[f])
    BY <2>1 DEF Get, Create, Update, Goto, memory
  <2>4. Clean(label, next[f], cluster[f]) /\ label \in Labels
    BY <2>2
  <2> HIDE DEF Moves, Clean
  <2>5. QED
    BY <1>1, <1>2, <2>3, <2>4
<1>13. QED
  BY <1>5, <1>6, <1>7, <1>8, <1>9, <1>10, <1>11, <1>12 DEF Goroutine

(***************************************************************************)
(* With Istio every attempt begins with a deployment that the API accepts, *)
(* for any number of fragments and attempts, whatever calls fail and       *)
(* whatever answers are lost.                                              *)
(***************************************************************************)
THEOREM IstioRetriesCorrect == Spec => []IstioRetriesAreAccepted
<1>1. Init => IstioInv
  BY DEF Init, IstioInv, IstioTypeOK, StartsClean, NoDeployment, Labels
<1>2. IstioInv /\ [Next]_vars => IstioInv'
  <2> SUFFICES ASSUME IstioInv, [Next]_vars, network' = "istio" PROVE IstioInv'
    BY DEF IstioInv
  <2>1. CASE UNCHANGED vars
    BY <2>1 DEF vars, memory, IstioInv, IstioTypeOK, StartsClean, NoDeployment
  <2>2. ASSUME NEW f \in Fragments, Goroutine(f) PROVE IstioInv'
    <3>1. network = "istio"
      BY <2>2 DEF Goroutine, Build, CreateDeployment, DecorateAgain, CreateService, Wait, Delete,
                  Retry, Get, Create, Update
    <3>2. QED
      BY <2>2, <3>1, IstioStep DEF IstioInv
  <2>3. QED
    BY <2>1, <2>2 DEF Next
<1>3. IstioInv => IstioRetriesAreAccepted
  <2> SUFFICES ASSUME IstioInv, network = "istio", NEW f \in Fragments, pc[f] = "create",
                      next[f] \in DOMAIN Deployments(f)
               PROVE  Accepted(f, Deployments(f)[next[f]])
    BY DEF IstioRetriesAreAccepted
  <2>1. IstioTypeOK /\ StartsClean(f) /\ next[f] = 1 /\ Deployments(f)[1] = "deployment"
    BY IstioLists DEF IstioInv
  <2>2. QED
    BY <2>1 DEF IstioTypeOK, StartsClean, NoDeployment, Accepted, Sidecars
<1>4. QED
  BY <1>1, <1>2, <1>3, PTL DEF Spec
============================================================================
