------------------------ MODULE NetworkUpdates_proofs ------------------------
(***************************************************************************)
(* The requests that change the network of a service, for any requests,    *)
(* pods and addresses, and any number of attempts.                         *)
(***************************************************************************)
EXTENDS NetworkUpdates, FiniteSetTheorems, TLAPS

\* The list of the pods: every target is one of them.
LEMMA SetToSeqElements ==
  ASSUME NEW S, IsFiniteSet(S)
  PROVE  /\ SetToSeq(S) \in Seq(S)
         /\ \A i \in 1 .. Len(SetToSeq(S)) : SetToSeq(S)[i] \in S
<1>1. Cardinality(S) \in Nat /\ ExistsBijection(1 .. Cardinality(S), S)
  BY FS_CardinalityType
<1>2. \E f \in [1 .. Cardinality(S) -> S] : IsInjective(f)
  BY <1>1 DEF ExistsBijection, Bijection, Injection, IsInjective
<1>3. SetToSeq(S) \in [1 .. Cardinality(S) -> S]
  BY <1>2 DEF SetToSeq
<1>4. QED
  BY <1>1, <1>3

----------------------------------------------------------------------------
(***************************************************************************)
(* The pods.  A pod has an address while it runs, no two have the same,    *)
(* and used remembers them all.                                            *)
(***************************************************************************)
PodState ==
  [phase : {"pending", "running", "ended"}, ip : IPs \cup {NoIP},
   joined : BOOLEAN, route : Requests \cup {NoIP}]

PodsOK ==
  /\ pods \in [Pods -> PodState]
  /\ \A p \in Pods : pods[p].phase = "running" <=> pods[p].ip # NoIP
  /\ \A p \in Pods : pods[p].ip # NoIP => pods[p].ip \in used
  /\ \A p, q \in Pods : p # q /\ pods[p].ip = pods[q].ip => pods[p].ip = NoIP

\* What a request has listed: an address that was in use belongs to the pod
\* that had it then, or to one that was given it later.
TargetType == [pod : ServicePods, ip : IPs \cup {NoIP}, proxy : BOOLEAN]

TargetOK(t) ==
  /\ t.proxy <=> t.pod \in Proxies
  /\ t.ip # NoIP =>
       /\ t.ip \in used
       /\ pods[t.pod].phase # "pending"
       /\ \A p \in Pods \ heirs : pods[p].ip = t.ip => p = t.pod

TargetsOK ==
  /\ targets \in [Requests -> Seq(TargetType)]
  /\ \A r \in Requests : \A i \in 1 .. Len(targets[r]) : TargetOK(targets[r][i])

\* Two requests that send at the same time are both recorded.
ProgressOK ==
  /\ pc \in [Requests -> {"idle", "namespace", "pods", "sending", "done", "failed"}]
  /\ next \in [Requests -> Nat \ {0}]
  /\ \A r \in Requests : next[r] <= Len(targets[r]) + 1
  /\ \A r \in Requests : pc[r] \in {"idle", "namespace", "pods"} => next[r] = 1
  /\ \A r, q \in Requests : r # q /\ Sending(r) /\ Sending(q) => r \in overlapped

NetworkInv == PodsOK /\ TargetsOK /\ ProgressOK /\ ReachedSoFar /\ MembersWereMeant

\* Every target that a request may come to is a pod of the service.
LEMMA TargetsArePods ==
  ASSUME TargetsOK, NEW r \in Requests, NEW i \in 1 .. Len(targets[r])
  PROVE  targets[r][i] \in TargetType /\ targets[r][i].pod \in Pods /\ TargetOK(targets[r][i])
<1>1. targets[r] \in Seq(TargetType) /\ TargetOK(targets[r][i])
  BY DEF TargetsOK
<1>2. targets[r][i] \in TargetType
  BY <1>1
<1>3. QED
  BY <1>1, <1>2, RequestsAssumption DEF TargetType

\* Nothing is listed yet.
LEMMA NetworkStarts == Init => NetworkInv
<1> SUFFICES ASSUME Init PROVE NetworkInv
  OBVIOUS
<1>1. PodsOK
  <2>1. pods \in [Pods -> PodState]
    BY RequestsAssumption DEF Init, PodState
  <2>2. \A p \in Pods : pods[p].ip = InitialIP[p]
                        /\ (pods[p].phase = "running" <=> InitialIP[p] # NoIP)
    BY DEF Init
  <2>3. \A p \in Pods : InitialIP[p] # NoIP => InitialIP[p] \in used
    BY DEF Init
  <2>4. QED
    BY <2>1, <2>2, <2>3, RequestsAssumption DEF PodsOK
<1>2. TargetsOK
  BY DEF Init, TargetsOK
<1>3. ProgressOK
  BY DEF Init, ProgressOK, Sending
<1>4. ReachedSoFar /\ MembersWereMeant
  BY DEF Init, ReachedSoFar, Sending, MembersWereMeant
<1>5. QED
  BY <1>1, <1>2, <1>3, <1>4 DEF NetworkInv

\* What a message does to the pods: whoever has the address does it, and
\* nobody starts, ends or gets another address.
LEMMA DeliverKeeps ==
  ASSUME PodsOK, NEW r \in Requests, Deliver(r)
  PROVE  /\ pods' \in [Pods -> PodState]
         /\ \A p \in Pods : pods'[p].phase = pods[p].phase /\ pods'[p].ip = pods[p].ip
         /\ \A p \in Pods : Reached(r, p) => Reached(r, p)'
         /\ \A p \in Receiver(r) : Reached(r, p)'
         /\ \A p \in Pods : pods'[p].joined =>
              pods[p].joined \/ (p \in Receiver(r) /\ TypeOf[r] = "join")
<1>1. TypeOf[r] \in {"join", "leave", "route"}
  BY RequestsAssumption
<1>2. ASSUME NEW pod \in PodState
      PROVE  /\ Apply(r, pod) \in PodState
             /\ Apply(r, pod).phase = pod.phase /\ Apply(r, pod).ip = pod.ip
             /\ TypeOf[r] = "join" => Apply(r, pod).joined
             /\ TypeOf[r] = "leave" => ~Apply(r, pod).joined
             /\ TypeOf[r] = "route" => Apply(r, pod).route = r /\ Apply(r, pod).joined = pod.joined
  <2>1. CASE TypeOf[r] = "join"
    BY <2>1 DEF Apply, PodState
  <2>2. CASE TypeOf[r] = "leave"
    BY <2>2 DEF Apply, PodState
  <2>3. CASE TypeOf[r] = "route"
    BY <2>3 DEF Apply, PodState
  <2>4. QED
    BY <1>1, <2>1, <2>2, <2>3
<1>3. \A p \in Pods : pods[p] \in PodState
  BY DEF PodsOK
<1>4. /\ \A p \in Receiver(r) : p \in Pods /\ pods'[p] = Apply(r, pods[p])
      /\ \A p \in Pods \ Receiver(r) : pods'[p] = pods[p]
  BY DEF Deliver, Receiver
<1>5. pods' = [p \in Pods |-> pods'[p]]
  BY DEF Deliver
<1>6. pods' \in [Pods -> PodState]
  BY <1>2, <1>3, <1>4, <1>5
<1>7. \A p \in Pods : pods'[p].phase = pods[p].phase /\ pods'[p].ip = pods[p].ip
  BY <1>2, <1>3, <1>4
<1>8. ASSUME NEW p \in Receiver(r) PROVE Reached(r, p)'
  <2>1. pods[p] \in PodState /\ pods'[p] = Apply(r, pods[p])
    BY <1>3, <1>4
  <2>2. CASE TypeOf[r] = "join"
    <3>1. pods'[p].joined
      BY <1>2, <2>1, <2>2
    <3>2. QED
      BY <2>2, <3>1 DEF Reached
  <2>3. CASE TypeOf[r] = "leave"
    <3>1. ~pods'[p].joined
      BY <1>2, <2>1, <2>3
    <3>2. QED
      BY <2>3, <3>1 DEF Reached
  <2>4. CASE TypeOf[r] = "route"
    <3>1. pods'[p].route = r
      BY <1>2, <2>1, <2>4
    <3>2. QED
      BY <2>4, <3>1 DEF Reached
  <2>5. QED
    BY <1>1, <2>2, <2>3, <2>4
<1>9. \A p \in Pods : Reached(r, p) => Reached(r, p)'
  BY <1>4, <1>8 DEF Reached
<1>10. \A p \in Pods : pods'[p].joined =>
         pods[p].joined \/ (p \in Receiver(r) /\ TypeOf[r] = "join")
  BY <1>1, <1>2, <1>3, <1>4
<1>11. QED
  BY <1>6, <1>7, <1>8, <1>9, <1>10

----------------------------------------------------------------------------
(***************************************************************************)
(* The steps of the requests.                                              *)
(***************************************************************************)

\* What a request does between the list and its end: a target is passed when
\* the message is not for it or has been delivered.
SendingStep(r) ==
  /\ Sending(r)
  /\ (Due(r) /\ Deliver(r)) \/ UNCHANGED pods
  /\ \/ UNCHANGED next
     \/ /\ next' = [next EXCEPT ![r] = @ + 1] /\ next[r] <= Len(targets[r])
        /\ Deliver(r) \/ ~JoinMustBeSent(r, Current(r))
  /\ UNCHANGED pc \/ Goto(r, "failed") \/ Goto(r, "done")
  /\ UNCHANGED <<namespace, used, heirs, targets, overlapped>>

\* Skip, Send, SendFails, NoClient and Finish, in one shape.
LEMMA ActionsAreSendingSteps ==
  ASSUME NEW r \in Requests, Skip(r) \/ Send(r) \/ SendFails(r) \/ NoClient(r) \/ Finish(r)
  PROVE  SendingStep(r)
<1>1. CASE Skip(r)
  BY <1>1 DEF Skip, Advance, SendingStep, clusterVars
<1>2. CASE Send(r)
  BY <1>2 DEF Send, Due, Advance, SendingStep
<1>3. CASE SendFails(r)
  <2>1. UNCHANGED pc \/ Goto(r, "failed")
    BY <1>3 DEF SendFails
  <2>2. QED
    BY <1>3, <2>1 DEF SendFails, Due, SendingStep
<1>4. CASE NoClient(r)
  BY <1>4 DEF NoClient, Due, SendingStep, clusterVars
<1>5. CASE Finish(r)
  BY <1>5 DEF Finish, SendingStep, clusterVars
<1>6. QED
  BY <1>1, <1>2, <1>3, <1>4, <1>5

\* The pods keep their addresses, so that the lists stay true.
LEMMA SendingKeepsPodsAndTargets ==
  ASSUME NetworkInv, NEW r \in Requests, SendingStep(r)
  PROVE  /\ \A p \in Pods : pods'[p].phase = pods[p].phase /\ pods'[p].ip = pods[p].ip
         /\ PodsOK' /\ TargetsOK'
<1>1. PodsOK /\ TargetsOK
  BY DEF NetworkInv
<1>2. UNCHANGED <<used, heirs, targets>> /\ (Deliver(r) \/ UNCHANGED pods)
  BY DEF SendingStep
<1>3. \A p \in Pods : pods'[p].phase = pods[p].phase /\ pods'[p].ip = pods[p].ip
  BY <1>1, <1>2, DeliverKeeps
<1>4. pods' \in [Pods -> PodState]
  BY <1>1, <1>2, DeliverKeeps DEF PodsOK
<1>5. PodsOK'
  BY <1>1, <1>2, <1>3, <1>4 DEF PodsOK
<1>6. TargetsOK'
  <2>1. \A t \in TargetType : TargetOK(t) => TargetOK(t)'
    BY <1>2, <1>3, RequestsAssumption DEF TargetOK, TargetType
  <2>2. ASSUME NEW q \in Requests, NEW i \in 1 .. Len(targets[q])
        PROVE  targets[q][i] \in TargetType /\ TargetOK(targets[q][i])
    BY <1>1, <2>2 DEF TargetsOK
  <2>3. QED
    BY <1>1, <1>2, <2>1, <2>2 DEF TargetsOK
<1>7. QED
  BY <1>3, <1>5, <1>6

\* A request that sends at the same time as another is recorded before.
LEMMA SendingKeepsProgress ==
  ASSUME NetworkInv, NEW r \in Requests, SendingStep(r)
  PROVE  ProgressOK' /\ \A q \in Requests \ overlapped' : Sending(q)' => q = r
<1>1. ProgressOK /\ Sending(r)
  BY DEF NetworkInv, SendingStep
<1>2. UNCHANGED overlapped
  BY DEF SendingStep
<1>3. /\ pc' \in [Requests -> {"idle", "namespace", "pods", "sending", "done", "failed"}]
      /\ \A q \in Requests : Sending(q)' => Sending(q)
      /\ \A q \in Requests : pc'[q] \in {"idle", "namespace", "pods"} => q # r /\ pc[q] = pc'[q]
  BY <1>1 DEF ProgressOK, SendingStep, Sending, Goto
<1>4. /\ next' \in [Requests -> Nat \ {0}]
      /\ \A q \in Requests : q # r => next'[q] = next[q]
  <2>1. CASE UNCHANGED next
    BY <1>1, <2>1 DEF ProgressOK
  <2>2. CASE next' = [next EXCEPT ![r] = @ + 1]
    BY <1>1, <2>2 DEF ProgressOK
  <2>3. QED
    BY <2>1, <2>2 DEF SendingStep
<1>5. \A q \in Requests : next'[q] <= Len(targets'[q]) + 1
  <2>1. targets' = targets /\ (UNCHANGED next \/ (next' = [next EXCEPT ![r] = @ + 1]
                                                 /\ next[r] <= Len(targets[r])))
    BY DEF SendingStep
  <2>2. \A q \in Requests : Len(targets[q]) \in Nat
    BY DEF NetworkInv, TargetsOK
  <2>3. QED
    BY <1>1, <2>1, <2>2 DEF ProgressOK
<1>6. ProgressOK'
  BY <1>1, <1>2, <1>3, <1>4, <1>5 DEF ProgressOK
<1>7. QED
  BY <1>1, <1>2, <1>3, <1>6 DEF ProgressOK

\* The pod of a target that still has its address is the one that a message
\* to it reaches.
LEMMA SendingKeepsReached ==
  ASSUME NetworkInv, NEW r \in Requests, SendingStep(r)
  PROVE  ReachedSoFar'
<1>1. PodsOK /\ TargetsOK /\ ProgressOK /\ ReachedSoFar /\ r \in Requests /\ Sending(r)
  BY DEF NetworkInv, SendingStep
<1>2. UNCHANGED <<overlapped, targets>> /\ (Deliver(r) \/ UNCHANGED pods)
  BY DEF SendingStep
<1>3. \A q \in Requests \ overlapped' : Sending(q)' => q = r
  BY SendingKeepsProgress
<1>4. SUFFICES ASSUME r \notin overlapped, Sending(r)', NEW i \in 1 .. next'[r] - 1,
                      JoinMustBeSent(r, targets[r][i]), NEW p, p = targets[r][i].pod,
                      pods'[p].phase = "running", pods'[p].ip = targets[r][i].ip
               PROVE  Reached(r, p)'
  <2>1. SUFFICES ASSUME NEW q \in Requests \ overlapped', Sending(q)', NEW i \in 1 .. next'[q] - 1,
                        JoinMustBeSent(q, targets'[q][i]),
                        pods'[targets'[q][i].pod].phase = "running",
                        pods'[targets'[q][i].pod].ip = targets'[q][i].ip
                 PROVE  Reached(q, targets[q][i].pod)'
    BY DEF ReachedSoFar, JoinMustBeSent
  <2>2. q = r /\ targets' = targets /\ overlapped' = overlapped
    BY <1>2, <1>3, <2>1
  <2>3. PICK x : x = targets[q][i].pod
    OBVIOUS
  <2>4. Reached(q, x)'
    BY <2>1, <2>2, <2>3
  <2>5. QED
    BY <2>2, <2>3, <2>4 DEF Reached
<1> DEFINE t == targets[r][i]
<1>5. next[r] \in Nat \ {0} /\ next \in [Requests -> Nat \ {0}] /\ Len(targets[r]) \in Nat
      /\ next[r] <= Len(targets[r]) + 1
  BY <1>1 DEF ProgressOK, TargetsOK
<1>6. CASE i \in 1 .. next[r] - 1
  <2>1. i \in 1 .. Len(targets[r])
    BY <1>5, <1>6
  <2>2. t \in TargetType /\ p \in Pods
    BY <1>1, <1>4, <2>1, TargetsArePods
  <2>3. pods[p].phase = "running" /\ pods[p].ip = t.ip
    BY <1>4, <2>2, SendingKeepsPodsAndTargets
  <2>4. Reached(r, p)
    BY <1>1, <1>4, <1>6, <2>3 DEF ReachedSoFar
  <2>5. CASE Deliver(r)
    <3>1. \A x \in Pods : Reached(r, x) => Reached(r, x)'
      BY <1>1, <2>5, DeliverKeeps
    <3>2. QED
      BY <2>2, <2>4, <3>1
  <2>6. CASE UNCHANGED pods
    BY <2>4, <2>6 DEF Reached
  <2>7. QED
    BY <1>2, <2>5, <2>6
<1>7. CASE ~(i \in 1 .. next[r] - 1)
  <2>1. /\ i = next[r] /\ next[r] <= Len(targets[r])
        /\ Deliver(r) \/ ~JoinMustBeSent(r, Current(r))
    BY <1>4, <1>5, <1>7 DEF SendingStep
  <2>2. t = Current(r) /\ Deliver(r)
    BY <1>4, <2>1 DEF Current
  <2>3. t \in TargetType /\ p \in Pods
    BY <1>1, <1>4, <1>5, <2>1, TargetsArePods
  <2>4. pods[p].phase = "running" /\ pods[p].ip = t.ip
    BY <1>4, <2>3, SendingKeepsPodsAndTargets
  <2>5. p \in Receiver(r)
    BY <1>4, <2>2, <2>3, <2>4 DEF Receiver
  <2>6. QED
    BY <1>1, <2>2, <2>5, DeliverKeeps
<1>8. QED
  BY <1>6, <1>7

\* A message of a join is for a target, and whoever else has its address now
\* was given one that had been in use.
LEMMA SendingKeepsMembers ==
  ASSUME NetworkInv, NEW r \in Requests, SendingStep(r)
  PROVE  MembersWereMeant'
<1>1. PodsOK /\ TargetsOK /\ ProgressOK /\ MembersWereMeant /\ UNCHANGED heirs
  BY DEF NetworkInv, SendingStep
<1>2. SUFFICES ASSUME NEW p \in Pods \ heirs, pods'[p].joined, ~pods[p].joined
               PROVE  p \in ServicePods /\ \E q \in Requests :
                        TypeOf[q] = "join" /\ InboundOf[q] = (p \in Proxies)
  BY <1>1 DEF MembersWereMeant
<1>3. Due(r) /\ Deliver(r)
  BY <1>2 DEF SendingStep
<1>4. p \in Receiver(r) /\ TypeOf[r] = "join"
  BY <1>1, <1>2, <1>3, DeliverKeeps
<1>5. next[r] \in 1 .. Len(targets[r]) /\ JoinMustBeSent(r, Current(r))
  BY <1>1, <1>3 DEF Due, ProgressOK
<1>6. Current(r) \in TargetType /\ TargetOK(Current(r))
  BY <1>1, <1>5, TargetsArePods DEF Current
<1>7. pods[p].ip = Current(r).ip /\ pods[p].ip # NoIP
  BY <1>1, <1>4 DEF Receiver, PodsOK
<1>8. p = Current(r).pod
  BY <1>2, <1>6, <1>7 DEF TargetOK
<1>9. p \in ServicePods /\ Current(r).proxy = (p \in Proxies)
  BY <1>6, <1>8 DEF TargetType, TargetOK
<1>10. QED
  BY <1>4, <1>5, <1>9 DEF JoinMustBeSent

\* What a message, a retry or the end of a request keeps.
LEMMA SendingKeepsInv ==
  ASSUME NetworkInv, NEW r \in Requests, SendingStep(r)
  PROVE  NetworkInv'
BY SendingKeepsPodsAndTargets, SendingKeepsProgress, SendingKeepsReached, SendingKeepsMembers
   DEF NetworkInv

\* Before it sends, a request moves on or is refused, and touches nothing.
LookupStep(r) ==
  /\ pc[r] \in {"idle", "namespace", "pods"}
  /\ \/ Goto(r, "namespace") /\ pc[r] = "idle"
     \/ Goto(r, "pods") /\ pc[r] = "namespace"
     \/ Goto(r, "failed")
  /\ UNCHANGED <<pods, used, heirs, targets, next, overlapped>>

\* A request that has listed nothing has reached nothing and harms nothing.
LEMMA LookupKeepsInv ==
  ASSUME NetworkInv, NEW r \in Requests, LookupStep(r)
  PROVE  NetworkInv'
<1>1. PodsOK /\ TargetsOK /\ ProgressOK /\ ReachedSoFar /\ MembersWereMeant
  BY DEF NetworkInv
<1>2. UNCHANGED <<pods, used, heirs, targets, next, overlapped>>
  BY DEF LookupStep
<1>3. /\ pc' \in [Requests -> {"idle", "namespace", "pods", "sending", "done", "failed"}]
      /\ \A q \in Requests : Sending(q)' => Sending(q)
      /\ \A q \in Requests : pc'[q] \in {"idle", "namespace", "pods"} =>
           pc[q] \in {"idle", "namespace", "pods"}
  BY <1>1 DEF ProgressOK, LookupStep, Goto, Sending
<1>4. PodsOK' /\ MembersWereMeant'
  BY <1>1, <1>2 DEF PodsOK, MembersWereMeant
<1>5. TargetsOK'
  BY <1>1, <1>2 DEF TargetsOK, TargetOK
<1>6. ProgressOK'
  BY <1>1, <1>2, <1>3 DEF ProgressOK
<1>7. ReachedSoFar'
  <2>1. \A q, x : Reached(q, x)' = Reached(q, x)
    BY <1>2 DEF Reached
  <2>2. \A q \in Requests \ overlapped' : Sending(q)' => q \in Requests \ overlapped /\ Sending(q)
    BY <1>2, <1>3
  <2> HIDE DEF Reached, JoinMustBeSent, Sending
  <2>3. QED
    BY <1>1, <1>2, <2>1, <2>2 DEF ReachedSoFar
<1>8. QED
  BY <1>4, <1>5, <1>6, <1>7 DEF NetworkInv

\* A fresh list names the pods by their present addresses, and records the
\* requests that it runs beside.
LEMMA ListKeepsInv ==
  ASSUME NetworkInv, NEW r \in Requests, GetPods(r)
  PROVE  NetworkInv'
<1>1. PodsOK /\ TargetsOK /\ ProgressOK /\ ReachedSoFar /\ MembersWereMeant
  BY DEF NetworkInv
<1>2. CASE Refused(r) /\ UNCHANGED <<targets, overlapped>>
  <2>1. LookupStep(r)
    BY <1>2 DEF GetPods, LookupStep, Refused, clusterVars
  <2>2. QED
    BY <2>1, LookupKeepsInv
<1>3. CASE targets' = [targets EXCEPT ![r] = SetToSeq({Target(p) : p \in Listed(r)})]
           /\ Goto(r, "sending")
           /\ overlapped' = IF \E q \in Requests : Sending(q)
                            THEN overlapped \cup {r} \cup {q \in Requests : Sending(q)}
                            ELSE overlapped
  <2> DEFINE list == {Target(p) : p \in Listed(r)}
  <2>1. UNCHANGED <<pods, used, heirs, next>> /\ pc[r] = "pods" /\ next[r] = 1
    BY <1>1 DEF GetPods, clusterVars, ProgressOK
  <2>2. /\ SetToSeq(list) \in Seq(list)
        /\ \A i \in 1 .. Len(SetToSeq(list)) : SetToSeq(list)[i] \in list
    <3>1. IsFiniteSet(Listed(r))
      BY RequestsAssumption, FS_Subset DEF Listed
    <3>2. IsFiniteSet(list)
      <4> DEFINE f == [p \in Listed(r) |-> Target(p)]
      <4>1. f \in [Listed(r) -> list] /\ \A t \in list : \E p \in Listed(r) : f[p] = t
        OBVIOUS
      <4>2. f \in Surjection(Listed(r), list)
        BY <4>1 DEF Surjection
      <4>3. QED
        BY <3>1, <4>2, FS_Surjection
    <3>3. QED
      BY <3>2, SetToSeqElements
  <2>3. \A t \in list : t \in TargetType /\ TargetOK(t)
    <3>1. SUFFICES ASSUME NEW p \in Listed(r)
                   PROVE  Target(p) \in TargetType /\ TargetOK(Target(p))
      OBVIOUS
    <3>2. p \in ServicePods /\ p \in Pods /\ pods[p] \in PodState
      BY <1>1, RequestsAssumption DEF Listed, PodsOK
    <3>3. Target(p) \in TargetType
      BY <3>2 DEF Target, TargetType, PodState
    <3>4. /\ Target(p).proxy <=> p \in Proxies
          /\ Target(p).pod = p /\ Target(p).ip = pods[p].ip
      BY DEF Target
    <3>5. pods[p].ip # NoIP => /\ pods[p].ip \in used /\ pods[p].phase = "running"
                               /\ \A q \in Pods : pods[q].ip = pods[p].ip => q = p
      BY <1>1, <3>2 DEF PodsOK
    <3>6. TargetOK(Target(p))
      BY <3>4, <3>5 DEF TargetOK
    <3>7. QED
      BY <3>3, <3>6
  <2>4. targets' \in [Requests -> Seq(TargetType)]
    <3>1. SetToSeq(list) \in Seq(TargetType)
      BY <2>2, <2>3
    <3>2. QED
      BY <1>1, <1>3, <3>1 DEF TargetsOK
  <2>5. /\ \A q \in Requests : q # r => targets'[q] = targets[q]
        /\ targets'[r] = SetToSeq(list)
    BY <1>1, <1>3 DEF TargetsOK
  <2>6. TargetsOK'
    <3>1. \A t : TargetOK(t) => TargetOK(t)'
      BY <2>1 DEF TargetOK
    <3>2. ASSUME NEW q \in Requests, NEW i \in 1 .. Len(targets'[q])
          PROVE  TargetOK(targets'[q][i])
      <4>1. CASE q = r
        BY <2>2, <2>3, <2>5, <4>1
      <4>2. CASE q # r
        BY <1>1, <2>5, <4>2, TargetsArePods
      <4>3. QED
        BY <4>1, <4>2
    <3>3. QED
      BY <2>1, <2>4, <3>2 DEF TargetsOK, TargetOK
  <2>7. /\ pc' \in [Requests -> {"idle", "namespace", "pods", "sending", "done", "failed"}]
        /\ \A q \in Requests : q # r => pc'[q] = pc[q]
        /\ pc'[r] = "sending"
    BY <1>1, <1>3 DEF ProgressOK, Goto
  <2>8. ProgressOK'
    <3>1. \A q \in Requests : next'[q] <= Len(targets'[q]) + 1
      <4>1. Len(targets'[r]) \in Nat
        BY <2>4
      <4>2. QED
        BY <1>1, <2>1, <2>5, <4>1 DEF ProgressOK
    <3>2. \A p, q \in Requests : p # q /\ Sending(p)' /\ Sending(q)' => p \in overlapped'
      BY <1>1, <1>3, <2>7 DEF ProgressOK, Sending
    <3>3. \A q \in Requests : pc'[q] \in {"idle", "namespace", "pods"} => next'[q] = 1
      BY <1>1, <2>1, <2>7 DEF ProgressOK
    <3>4. next' \in [Requests -> Nat \ {0}]
      BY <1>1, <2>1 DEF ProgressOK
    <3>5. QED
      BY <2>7, <3>1, <3>2, <3>3, <3>4 DEF ProgressOK
  <2>9. ReachedSoFar'
    <3>1. SUFFICES ASSUME NEW q \in Requests \ overlapped', Sending(q)',
                          NEW i \in 1 .. next'[q] - 1,
                          JoinMustBeSent(q, targets'[q][i]),
                          pods'[targets'[q][i].pod].phase = "running",
                          pods'[targets'[q][i].pod].ip = targets'[q][i].ip
                   PROVE  Reached(q, targets[q][i].pod)'
      BY DEF ReachedSoFar, JoinMustBeSent
    <3>2. q # r
      BY <2>1, <3>1
    <3>3. Sending(q) /\ q \notin overlapped /\ targets'[q] = targets[q]
      BY <1>3, <2>5, <2>7, <3>1, <3>2 DEF Sending
    <3>4. PICK p : p = targets[q][i].pod
      OBVIOUS
    <3>5. Reached(q, p)
      BY <1>1, <2>1, <3>1, <3>3, <3>4 DEF ReachedSoFar
    <3>6. QED
      BY <2>1, <3>3, <3>4, <3>5 DEF Reached
  <2>10. PodsOK' /\ MembersWereMeant'
    BY <1>1, <2>1 DEF PodsOK, MembersWereMeant
  <2>11. QED
    BY <2>6, <2>8, <2>9, <2>10 DEF NetworkInv
<1>4. QED
  BY <1>2, <1>3 DEF GetPods

----------------------------------------------------------------------------
(***************************************************************************)
(* The steps of the pods.                                                  *)
(***************************************************************************)

\* A pod that starts or ends loses nothing that a request has done for it.
LEMMA PodStepKeepsReached ==
  ASSUME NetworkInv, UNCHANGED requestVars, NEW p \in Pods,
         \A q \in Pods \ {p} : pods'[q] = pods[q],
         pods[p].phase = "pending" \/ pods'[p].phase = "ended",
         pods'[p].ip \in IPs \/ pods'[p].phase = "ended"
  PROVE  ReachedSoFar'
<1>1. PodsOK /\ TargetsOK /\ ProgressOK /\ ReachedSoFar
  BY DEF NetworkInv
<1>2. UNCHANGED <<pc, targets, next, overlapped>>
  BY DEF requestVars
<1>3. SUFFICES ASSUME NEW q \in Requests \ overlapped', Sending(q)',
                      NEW i \in 1 .. next'[q] - 1,
                      JoinMustBeSent(q, targets'[q][i]),
                      pods'[targets'[q][i].pod].phase = "running",
                      pods'[targets'[q][i].pod].ip = targets'[q][i].ip
               PROVE  Reached(q, targets[q][i].pod)'
  BY DEF ReachedSoFar, JoinMustBeSent
<1>4. PICK t : t = targets[q][i]
  OBVIOUS
<1>5. i \in 1 .. Len(targets[q])
  <2>1. next[q] \in Nat /\ next[q] <= Len(targets[q]) + 1 /\ Len(targets[q]) \in Nat
    BY <1>1 DEF ProgressOK, TargetsOK
  <2>2. QED
    BY <1>2, <2>1
<1>6. t.pod \in Pods /\ TargetOK(t)
  BY <1>1, <1>4, <1>5, TargetsArePods
<1>7. t.pod # p
  <2>1. SUFFICES ASSUME t.pod = p PROVE FALSE
    OBVIOUS
  <2>2. pods[p].phase = "pending" /\ t.ip \in IPs
    BY <1>2, <1>3, <1>4, <2>1
  <2>3. QED
    BY <1>6, <2>1, <2>2, RequestsAssumption DEF TargetOK
<1>8. pods'[t.pod] = pods[t.pod]
  BY <1>6, <1>7
<1>9. Reached(q, t.pod)
  BY <1>1, <1>2, <1>3, <1>4, <1>8 DEF ReachedSoFar, Sending
<1>10. PICK x : x = t.pod
  OBVIOUS
<1>11. Reached(q, x)'
  BY <1>8, <1>9, <1>10 DEF Reached
<1>12. QED
  BY <1>2, <1>4, <1>10, <1>11 DEF Reached

\* An address that is given again makes its pod an heir.
LEMMA StartKeepsInv ==
  ASSUME NetworkInv, NEW p \in Pods, NEW ip \in IPs, PodStarts(p, ip)
  PROVE  NetworkInv'
<1>1. PodsOK /\ TargetsOK /\ ProgressOK /\ MembersWereMeant
  BY DEF NetworkInv
<1>2. /\ UNCHANGED requestVars /\ pods[p].phase = "pending"
      /\ \A q \in Pods : pods[q].ip # ip
      /\ used' = used \cup {ip} /\ heirs' = IF ip \in used THEN heirs \cup {p} ELSE heirs
  BY DEF PodStarts, Change
<1>3. /\ \A q \in Pods \ {p} : pods'[q] = pods[q]
      /\ pods'[p].phase = "running" /\ pods'[p].ip = ip /\ pods'[p].joined = pods[p].joined
      /\ pods' \in [Pods -> PodState]
  BY <1>1 DEF PodStarts, PodsOK, PodState
<1>4. ip # NoIP
  BY RequestsAssumption
<1>5. PodsOK'
  BY <1>1, <1>2, <1>3, <1>4 DEF PodsOK
<1>6. TargetsOK'
  <2>1. ASSUME NEW t \in TargetType, TargetOK(t) PROVE TargetOK(t)'
    <3>1. t.pod \in Pods
      BY RequestsAssumption DEF TargetType
    <3>2. CASE t.ip = NoIP
      BY <2>1, <3>2 DEF TargetOK
    <3>3. CASE t.ip # NoIP
      <4>1. t.ip \in used /\ t.pod # p
        BY <1>2, <2>1, <3>3 DEF TargetOK
      <4>2. \A q \in Pods \ heirs' : pods'[q].ip = t.ip => q # p
        BY <1>2, <1>3, <4>1
      <4>3. QED
        BY <1>2, <1>3, <2>1, <3>1, <4>1, <4>2 DEF TargetOK
    <3>4. QED
      BY <3>2, <3>3
  <2>2. UNCHANGED targets
    BY <1>2 DEF requestVars
  <2>3. \A q \in Requests : \A i \in 1 .. Len(targets[q]) :
          targets[q][i] \in TargetType /\ TargetOK(targets[q][i])
    BY <1>1, TargetsArePods
  <2>4. QED
    BY <1>1, <2>1, <2>2, <2>3 DEF TargetsOK
<1>7. ReachedSoFar'
  BY <1>2, <1>3, PodStepKeepsReached
<1>8. ProgressOK'
  BY <1>1, <1>2 DEF ProgressOK, Sending, requestVars
<1>9. MembersWereMeant'
  BY <1>1, <1>2, <1>3 DEF MembersWereMeant
<1>10. QED
  BY <1>5, <1>6, <1>7, <1>8, <1>9 DEF NetworkInv

\* A pod that ends gives up its address and its membership, and its name in
\* a list reaches nobody until the address is given away.
LEMMA EndKeepsInv ==
  ASSUME NetworkInv, NEW p \in Pods, PodEnds(p)
  PROVE  NetworkInv'
<1>1. PodsOK /\ TargetsOK /\ ProgressOK /\ MembersWereMeant
  BY DEF NetworkInv
<1>2. UNCHANGED requestVars /\ UNCHANGED <<used, heirs>> /\ pods[p].phase = "running"
  BY DEF PodEnds, Change
<1>3. /\ \A q \in Pods \ {p} : pods'[q] = pods[q]
      /\ pods'[p].phase = "ended" /\ pods'[p].ip = NoIP /\ ~pods'[p].joined
      /\ pods' \in [Pods -> PodState]
  BY <1>1 DEF PodEnds, PodsOK, PodState
<1>4. PodsOK'
  BY <1>1, <1>2, <1>3 DEF PodsOK
<1>5. TargetsOK'
  <2>1. ASSUME NEW t \in TargetType, TargetOK(t) PROVE TargetOK(t)'
    BY <1>2, <1>3, <2>1, RequestsAssumption DEF TargetOK, TargetType
  <2>2. UNCHANGED targets
    BY <1>2 DEF requestVars
  <2>3. \A q \in Requests : \A i \in 1 .. Len(targets[q]) :
          targets[q][i] \in TargetType /\ TargetOK(targets[q][i])
    BY <1>1, TargetsArePods
  <2>4. QED
    BY <1>1, <2>1, <2>2, <2>3 DEF TargetsOK
<1>6. ReachedSoFar'
  BY <1>2, <1>3, PodStepKeepsReached
<1>7. ProgressOK'
  BY <1>1, <1>2 DEF ProgressOK, Sending, requestVars
<1>8. MembersWereMeant'
  BY <1>1, <1>2, <1>3 DEF MembersWereMeant
<1>9. QED
  BY <1>4, <1>5, <1>6, <1>7, <1>8 DEF NetworkInv

\* Nothing of the invariant is about the namespace.
LEMMA QuietKeepsInv ==
  ASSUME NetworkInv, UNCHANGED <<pods, used, heirs, requestVars>>
  PROVE  NetworkInv'
<1>1. UNCHANGED <<pods, used, heirs, pc, targets, next, overlapped>>
  BY DEF requestVars
<1>2. PodsOK' /\ MembersWereMeant'
  BY <1>1 DEF NetworkInv, PodsOK, MembersWereMeant
<1>3. TargetsOK'
  BY <1>1 DEF NetworkInv, TargetsOK, TargetOK
<1>4. ProgressOK'
  BY <1>1 DEF NetworkInv, ProgressOK, Sending
<1>5. ReachedSoFar'
  <2>1. ASSUME NEW q \in Requests, NEW p PROVE Reached(q, p)' = Reached(q, p)
    BY <1>1 DEF Reached
  <2>2. SUFFICES ASSUME NEW q \in Requests \ overlapped', Sending(q)',
                        NEW i \in 1 .. next'[q] - 1,
                        JoinMustBeSent(q, targets'[q][i]),
                        pods'[targets'[q][i].pod].phase = "running",
                        pods'[targets'[q][i].pod].ip = targets'[q][i].ip
                 PROVE  Reached(q, targets[q][i].pod)'
    BY DEF ReachedSoFar, JoinMustBeSent
  <2>3. Reached(q, targets[q][i].pod)
    BY <1>1, <2>2 DEF NetworkInv, ReachedSoFar, Sending
  <2>4. QED
    BY <1>1, <2>3 DEF Reached
<1>6. QED
  BY <1>2, <1>3, <1>4, <1>5 DEF NetworkInv

----------------------------------------------------------------------------
\* The invariant of the pods, the lists and the progress of the requests.
LEMMA NetworkInvAlways == Spec => []NetworkInv
<1>1. NetworkInv /\ [Next]_vars => NetworkInv'
  <2> SUFFICES ASSUME NetworkInv, [Next]_vars PROVE NetworkInv'
    OBVIOUS
  <2>1. CASE NamespaceChanges
    BY <2>1, QuietKeepsInv DEF NamespaceChanges, Change
  <2>2. ASSUME NEW p \in Pods, NEW ip \in IPs, PodStarts(p, ip) PROVE NetworkInv'
    BY <2>2, StartKeepsInv
  <2>3. ASSUME NEW p \in Pods, PodEnds(p) PROVE NetworkInv'
    BY <2>3, EndKeepsInv
  <2>4. ASSUME NEW r \in Requests, Receive(r) \/ GetTargetNamespace(r) PROVE NetworkInv'
    <3>1. CASE Receive(r)
      <4>1. pc[r] = "idle" /\ (Goto(r, "namespace") \/ Goto(r, "failed"))
        BY <3>1 DEF Receive, Refused
      <4>2. QED
        BY <3>1, <4>1, LookupKeepsInv DEF Receive, LookupStep, clusterVars
    <3>2. CASE GetTargetNamespace(r)
      <4>1. pc[r] = "namespace" /\ (Goto(r, "pods") \/ Goto(r, "failed"))
        BY <3>2 DEF GetTargetNamespace, Refused
      <4>2. QED
        BY <3>2, <4>1, LookupKeepsInv DEF GetTargetNamespace, LookupStep, clusterVars
    <3>3. QED
      BY <2>4, <3>1, <3>2
  <2>5. ASSUME NEW r \in Requests, GetPods(r) PROVE NetworkInv'
    BY <2>5, ListKeepsInv
  <2>6. ASSUME NEW r \in Requests,
               Skip(r) \/ Send(r) \/ SendFails(r) \/ NoClient(r) \/ Finish(r)
        PROVE  NetworkInv'
    BY <2>6, ActionsAreSendingSteps, SendingKeepsInv
  <2>7. CASE UNCHANGED vars
    BY <2>7, QuietKeepsInv DEF vars, clusterVars
  <2>8. QED
    BY <2>1, <2>2, <2>3, <2>4, <2>5, <2>6, <2>7 DEF Next, Cluster, Process
<1>2. QED
  BY <1>1, NetworkStarts, PTL DEF Spec

\* A request that runs alone leaves no pod behind it that it was for and that
\* still has its address, whatever answers are lost and whichever pods start,
\* fail and go meanwhile (the loops over targets in network/updater.go).
THEOREM RequestsLeaveNoGap == Spec => []ReachedSoFar
<1>1. NetworkInv => ReachedSoFar
  BY DEF NetworkInv
<1>2. QED
  BY <1>1, NetworkInvAlways, PTL

\* A join makes members only of the pods of its service with its role, but for
\* a pod that was given the address of another one (the addresses listed by
\* GetAllPodsForApp in network/manager.go are used long after).
THEOREM JoinsMeetTheirPods == Spec => []MembersWereMeant
<1>1. NetworkInv => MembersWereMeant
  BY DEF NetworkInv
<1>2. QED
  BY <1>1, NetworkInvAlways, PTL

============================================================================
