--------------------------- MODULE NetworkUpdates ---------------------------
(***************************************************************************)
(* The requests that change the network of the pods of a service:          *)
(* JoinZTNetwork, LeaveZTNetwork and SetServiceRoute (network/handler.go,  *)
(* network/manager.go) and the messages that they send to the sidecars of  *)
(* the pods (network/updater.go).                                          *)
(*                                                                         *)
(* A request looks up the namespace, lists the pods once and sends its     *)
(* message to their addresses one after the other, each up to JoinRetries  *)
(* or UpdateRetries times; the first pod that does not answer ends it.  A  *)
(* join is answered before its first message is sent, by a goroutine of    *)
(* its own; a leave is answered with success whatever happened; a route is *)
(* answered with what happened.                                            *)
(*                                                                         *)
(* External: the pods.  They start, fail and go while requests run, and an *)
(* address that is free is given to another pod, of any application.  A    *)
(* message or its answer may be lost.                                      *)
(***************************************************************************)
EXTENDS Integers, Sequences, SequencesExt, FiniteSets

CONSTANTS
  Requests,      \* the requests, for one service and one ZeroTier network
  TypeOf,        \* "join", "leave" or "route"
  InboundOf,     \* IsInbound of a join or a leave
  Pods,          \* the pods of the cluster with a sidecar
  ServicePods,   \* those with the labels of the service
  Proxies,       \* those whose NALEJ_ENV_IS_PROXY is true
  IPs,           \* addresses
  NoIP,          \* the address of a pod that has not started
  InitialIP,     \* the addresses of the pods at the beginning
  MaxAttempts,   \* JoinRetries and UpdateRetries (3 in the code)
  MaxChanges     \* bound: changes of namespace and pods

ASSUME RequestsAssumption ==
  /\ TypeOf \in [Requests -> {"join", "leave", "route"}]
  /\ InboundOf \in [Requests -> BOOLEAN]
  /\ ServicePods \subseteq Pods /\ Proxies \subseteq Pods /\ IsFiniteSet(ServicePods)
  /\ NoIP \notin IPs
  /\ InitialIP \in [Pods -> IPs \cup {NoIP}]
  /\ \A p, q \in Pods : p # q /\ InitialIP[p] = InitialIP[q] => InitialIP[p] = NoIP
  /\ MaxAttempts \in Nat \ {0} /\ MaxChanges \in Nat

VARIABLES
  namespace,     \* "active", "terminating" or "absent"
  pods,          \* pod -> its phase, its address, whether it is a member of
                 \* the network, and the last request that set its route
  used,          \* the addresses that have been in use
  pc,            \* how far a request has got
  targets,       \* the pods it has listed: name, address and role
  next,          \* the target it is sending to
  attempts,      \* how often it has tried
  answer,        \* what the caller was told
  changes,       \* changes of namespace and pods so far
  heirs,         \* history: pods with an address that was in use before
  overlapped     \* history: requests that sent while another one did

clusterVars == <<namespace, pods, used, changes, heirs>>
requestVars == <<pc, targets, next, attempts, answer, overlapped>>
vars == <<clusterVars, requestVars>>

----------------------------------------------------------------------------
(***************************************************************************)
(* The pods.                                                               *)
(***************************************************************************)
Change == changes < MaxChanges /\ changes' = changes + 1 /\ UNCHANGED requestVars

NamespaceChanges ==
  /\ Change
  /\ namespace' = IF namespace = "active" THEN "terminating" ELSE "absent"
  /\ namespace # "absent"
  /\ UNCHANGED <<pods, used, heirs>>

PodStarts(p, ip) ==
  /\ Change
  /\ pods[p].phase = "pending" /\ \A q \in Pods : pods[q].ip # ip
  /\ pods' = [pods EXCEPT ![p].phase = "running", ![p].ip = ip]
  /\ used' = used \cup {ip}
  /\ heirs' = IF ip \in used THEN heirs \cup {p} ELSE heirs
  /\ UNCHANGED namespace

\* It fails or is deleted: it is not listed any more and its address is free.
PodEnds(p) ==
  /\ Change
  /\ pods[p].phase = "running"
  /\ pods' = [pods EXCEPT ![p].phase = "ended", ![p].ip = NoIP, ![p].joined = FALSE]
  /\ UNCHANGED <<namespace, used, heirs>>

----------------------------------------------------------------------------
(***************************************************************************)
(* The lookups of a request.                                               *)
(***************************************************************************)
Goto(r, label) == pc' = [pc EXCEPT ![r] = label]

Answer(r, result) == answer' = [answer EXCEPT ![r] = result]

Refused(r) == Goto(r, "failed") /\ Answer(r, "error")

\* The handler: a request with an empty field is refused.
Receive(r) ==
  /\ pc[r] = "idle"
  /\ \/ Goto(r, "namespace") /\ UNCHANGED answer
     \/ Refused(r)
  /\ UNCHANGED <<clusterVars, targets, next, attempts, overlapped>>

\* GetTargetNamespace: one that is not terminating.
GetTargetNamespace(r) ==
  /\ pc[r] = "namespace"
  /\ \/ namespace = "active" /\ Goto(r, "pods") /\ UNCHANGED answer
     \/ Refused(r)
  /\ UNCHANGED <<clusterVars, targets, next, attempts, overlapped>>

\* The pods of the service that have not failed: all of them for a join and a
\* leave, those that are no proxies for a route.  A route also asks for the
\* service group of the request; ServicePods stands for the pods that the labels
\* of either select.
Listed(r) ==
  {p \in ServicePods : /\ pods[p].phase \in {"pending", "running"}
                       /\ TypeOf[r] = "route" => p \notin Proxies}

Target(p) == [pod |-> p, ip |-> pods[p].ip, proxy |-> p \in Proxies]

Sending(r) == pc[r] = "sending"

\* GetAllPodsForApp or GetPodsForApp.  A join is answered now.
GetPods(r) ==
  /\ pc[r] = "pods"
  /\ \/ /\ targets' = [targets EXCEPT ![r] = SetToSeq({Target(p) : p \in Listed(r)})]
        /\ Goto(r, "sending")
        /\ IF TypeOf[r] = "join" THEN Answer(r, "ok") ELSE UNCHANGED answer
        /\ overlapped' = IF \E q \in Requests : Sending(q)
                         THEN overlapped \cup {r} \cup {q \in Requests : Sending(q)}
                         ELSE overlapped
     \/ Refused(r) /\ UNCHANGED <<targets, overlapped>>
  /\ UNCHANGED <<clusterVars, next, attempts>>

----------------------------------------------------------------------------
(***************************************************************************)
(* SendJoinZTConnection, SendLeaveZTConnection and UpdatePodsRoute.        *)
(***************************************************************************)

\* A mutation of JoinMustBeSent: the message is for every pod.
JoinMustBeSentToAll(r, target) == TypeOf[r] \in {"join", "leave", "route"}

\* The role of the pod is that of the request; a route has listed its pods.
JoinMustBeSent(r, target) == TypeOf[r] # "route" => InboundOf[r] = target.proxy

Current(r) == targets[r][next[r]]

\* The message reaches whoever has the address now.
Receiver(r) == {p \in Pods : pods[p].phase = "running" /\ pods[p].ip = Current(r).ip}

\* What the sidecar does.
Apply(r, pod) ==
  CASE TypeOf[r] = "join"  -> [pod EXCEPT !.joined = TRUE]
    [] TypeOf[r] = "leave" -> [pod EXCEPT !.joined = FALSE]
    [] TypeOf[r] = "route" -> [pod EXCEPT !.route = r]

Advance(r) ==
  /\ next' = [next EXCEPT ![r] = @ + 1]
  /\ attempts' = [attempts EXCEPT ![r] = 0]

Skip(r) ==
  /\ Sending(r) /\ next[r] <= Len(targets[r]) /\ ~JoinMustBeSent(r, Current(r))
  /\ Advance(r)
  /\ UNCHANGED <<clusterVars, pc, targets, answer, overlapped>>

Due(r) == Sending(r) /\ next[r] <= Len(targets[r]) /\ JoinMustBeSent(r, Current(r))

Deliver(r) ==
  pods' = [p \in Pods |-> IF p \in Receiver(r) THEN Apply(r, pods[p]) ELSE pods[p]]

\* The pod has done it and has answered.
Send(r) ==
  /\ Due(r) /\ Receiver(r) # {}
  /\ Deliver(r)
  /\ Advance(r)
  /\ UNCHANGED <<namespace, used, changes, heirs, pc, targets, answer, overlapped>>

\* What the caller of a request hears at its end: a route its error, a leave
\* nothing of it, and a join has been answered.
LastAnswer(r, result) ==
  CASE TypeOf[r] = "route" -> Answer(r, result)
    [] TypeOf[r] = "leave" -> Answer(r, "ok")
    [] TypeOf[r] = "join"  -> UNCHANGED answer

\* A mutation of SendFails: the next pod is tried.
SendFailsSkipping(r) ==
  /\ Due(r)
  /\ Deliver(r) \/ UNCHANGED pods
  /\ IF attempts[r] + 1 < MaxAttempts
     THEN attempts' = [attempts EXCEPT ![r] = @ + 1] /\ UNCHANGED <<pc, next, answer>>
     ELSE Advance(r) /\ UNCHANGED <<pc, answer>>
  /\ UNCHANGED <<namespace, used, changes, heirs, targets, overlapped>>

\* A mutation of SendFails: the attempts are not counted.
SendFailsUncounted(r) ==
  /\ Due(r)
  /\ Deliver(r) \/ UNCHANGED pods
  /\ IF attempts[r] + 1 < MaxAttempts
     THEN UNCHANGED <<pc, attempts, answer>>
     ELSE Goto(r, "failed") /\ LastAnswer(r, "error") /\ UNCHANGED attempts
  /\ UNCHANGED <<namespace, used, changes, heirs, targets, next, overlapped>>

\* No answer in time, be it that the message was lost, that nobody has the
\* address or that the pod has done it and its answer was lost.  The last
\* attempt ends the request, whatever targets follow.
SendFails(r) ==
  /\ Due(r)
  /\ Deliver(r) \/ UNCHANGED pods
  /\ IF attempts[r] + 1 < MaxAttempts
     THEN attempts' = [attempts EXCEPT ![r] = @ + 1] /\ UNCHANGED <<pc, answer>>
     ELSE Goto(r, "failed") /\ LastAnswer(r, "error") /\ UNCHANGED attempts
  /\ UNCHANGED <<namespace, used, changes, heirs, targets, next, overlapped>>

\* grpc.Dial refuses the address: the request ends at once.
NoClient(r) ==
  /\ Due(r) /\ attempts[r] = 0
  /\ Goto(r, "failed") /\ LastAnswer(r, "error")
  /\ UNCHANGED <<clusterVars, targets, next, attempts, overlapped>>

Finish(r) ==
  /\ Sending(r) /\ next[r] > Len(targets[r])
  /\ Goto(r, "done") /\ LastAnswer(r, "ok")
  /\ UNCHANGED <<clusterVars, targets, next, attempts, overlapped>>

----------------------------------------------------------------------------
Init ==
  /\ namespace = "active"
  /\ pods = [p \in Pods |-> [phase |-> IF InitialIP[p] = NoIP THEN "pending" ELSE "running",
                             ip |-> InitialIP[p], joined |-> FALSE, route |-> NoIP]]
  /\ used = {InitialIP[p] : p \in Pods} \ {NoIP} /\ changes = 0 /\ heirs = {} /\ overlapped = {}
  /\ pc = [r \in Requests |-> "idle"] /\ answer = [r \in Requests |-> "none"]
  /\ targets = [r \in Requests |-> << >>]
  /\ next = [r \in Requests |-> 1] /\ attempts = [r \in Requests |-> 0]

Cluster ==
  \/ NamespaceChanges
  \/ \E p \in Pods : (\E ip \in IPs : PodStarts(p, ip)) \/ PodEnds(p)

Process(r) ==
  \/ GetTargetNamespace(r) \/ GetPods(r)
  \/ Skip(r) \/ Send(r) \/ SendFails(r) \/ NoClient(r) \/ Finish(r)

Next == Cluster \/ \E r \in Requests : Receive(r) \/ Process(r)

\* Lookups return and a message is answered or times out.
Spec == Init /\ [][Next]_vars /\ WF_vars(\E r \in Requests : Process(r))

----------------------------------------------------------------------------
(***************************************************************************)
(* Properties.                                                             *)
(***************************************************************************)

Reached(r, p) ==
  CASE TypeOf[r] = "join"  -> pods[p].joined
    [] TypeOf[r] = "leave" -> ~pods[p].joined
    [] TypeOf[r] = "route" -> pods[p].route = r

\* A request that runs alone has reached every pod before its present target
\* that it is for and that still has the address it had in the list, so that
\* one that gets to the end has reached them all: lost answers, repeated
\* messages, and pods that start, fail, go or have no address yet leave no gap.
ReachedSoFar ==
  \A r \in Requests \ overlapped : Sending(r) =>
    \A i \in 1 .. next[r] - 1 :
      LET t == targets[r][i] IN
      JoinMustBeSent(r, t) /\ pods[t.pod].phase = "running" /\ pods[t.pod].ip = t.ip
        => Reached(r, t.pod)

\* Only pods of the service with the role of a join become members, unless a
\* pod was given the address of one that had been listed before.
MembersWereMeant ==
  \A p \in Pods \ heirs : pods[p].joined =>
    p \in ServicePods /\ \E r \in Requests : TypeOf[r] = "join" /\ InboundOf[r] = (p \in Proxies)

\* Requests that have been accepted come to an end, whatever is lost.
RequestsEnd ==
  <>[](\A r \in Requests : pc[r] \in {"idle", "done", "failed"})
============================================================================
