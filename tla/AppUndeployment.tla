-------------------------- MODULE AppUndeployment --------------------------
(***************************************************************************)
(* The fragments of one application instance in the namespace they share,  *)
(* and everything that deletes it: the Undeploy and UndeployFragment       *)
(* requests (handler/handler.go, handler/manager.go), a fragment that      *)
(* fails, and the offline policy (offline-policy/manager.go).  The name of *)
(* a namespace is computed from the organization and the application       *)
(* (common/common.go), so there is one name, whatever the request.         *)
(*                                                                         *)
(* Every request has its goroutine, several requests of one fragment too,  *)
(* and the goroutines interleave at the calls of the Kubernetes API        *)
(* (kubernetes_executor.go, kubernetes_namespace.go) and of the registry.  *)
(* A stage is deployed, is waited for and is undeployed in one step each:  *)
(* StageDeployment has those steps.  The process may stop and start again: *)
(* the registry and the goroutines are in memory, the namespace is not.    *)
(*                                                                         *)
(* External: the Kubernetes API.  Any call may fail, and a creation may    *)
(* fail although it was made; a namespace that is being deleted can be     *)
(* read and accepts no objects.  The call that expires the logs is a step  *)
(* whose effect, in unified-logging, is left out.                          *)
(***************************************************************************)
EXTENDS Integers, FiniteSets, NalejStatus

CONSTANTS
  Fragments,      \* the fragments of the application instance
  Requests,       \* the deployment requests for them, repeated ones included
  Undeploys,      \* the Undeploy requests for the application
  NumStages,      \* the stages of a fragment
  MaxDeletions,   \* bound: Undeploy, UndeployFragment and offline requests
  MaxRestarts     \* bound: restarts of the process

ASSUME AppAssumption ==
  /\ NumStages \in Nat \ {0} /\ MaxDeletions \in Nat /\ MaxRestarts \in Nat

Ended == {"idle", "done", "failed", "aborted", "lost"}

VARIABLES
  namespace,      \* "absent", "active" or "terminating"
  secret,         \* nalej-public-registry exists in it
  entries,        \* the registry: fragment -> what is known of it
  target,         \* the fragment a request is for
  pc,             \* the goroutine of a request
  stage,          \* the stage it deploys
  undeploy,       \* how far an Undeploy request has got
  fragUndeploy,   \* how far the UndeployFragment request of a fragment has
  offline,        \* the offline policy was applied
  restarts,       \* restarts so far
  closed,         \* history: deleted by Undeploy with no request on its way
  terminated,     \* history: requests since whose start the fragment was found
                  \* or set TERMINATING
  failedStage     \* history: a failed fragment deleted the namespace

clusterVars == <<namespace, secret>>
goroutineVars == <<target, pc, stage>>
requestVars == <<undeploy, fragUndeploy, offline>>
historyVars == <<closed, terminated, failedStage>>
vars == <<clusterVars, entries, goroutineVars, requestVars, restarts, historyVars>>

----------------------------------------------------------------------------
(***************************************************************************)
(* The registry as far as this module sees it.  ready: every service of    *)
(* the entry is RUNNING; resources: some object is registered, so that     *)
(* events find the entry; stages: how many stages have added services.     *)
(* DEPLOYING stands for WAITING and RETRYING too: nothing tells them apart *)
(* here.                                                                   *)
(***************************************************************************)
SetEntryStatus(f, status) ==
  entries' = IF f \in DOMAIN entries
             THEN [entries EXCEPT ![f].status = status,
                                  ![f].ready = @ /\ status # FRAGMENT_TERMINATING]
             ELSE entries

\* Services that a former request has added stay as they are.
AddEntry(f, n) ==
  entries' = IF f \notin DOMAIN entries
             THEN [g \in DOMAIN entries \cup {f} |->
                     IF g = f THEN [status |-> FRAGMENT_DEPLOYING, ready |-> FALSE,
                                    resources |-> FALSE, stages |-> n]
                     ELSE entries[g]]
             ELSE IF n > entries[f].stages
                  THEN [entries EXCEPT ![f].ready = FALSE, ![f].stages = n]
                  ELSE entries

\* SetAppStatus(TERMINATING); every fragment here is of the application.
TerminatingEntries ==
  [f \in DOMAIN entries |-> [entries[f] EXCEPT !.status = FRAGMENT_TERMINATING, !.ready = FALSE]]

SetAppStatus == entries' = TerminatingEntries

\* SetResourceStatus for an event about an object of the fragment.
Event(f) ==
  /\ f \in DOMAIN entries /\ entries[f].resources
  /\ \E status \in {FRAGMENT_DEPLOYING, FRAGMENT_DONE, FRAGMENT_ERROR} :
       entries' = [entries EXCEPT ![f].status = status, ![f].ready = (status = FRAGMENT_DONE)]
  /\ UNCHANGED <<clusterVars, goroutineVars, requestVars, restarts, historyVars>>

\* The monitor helper removes what is TERMINATING.
RemoveEntry(f) ==
  /\ f \in DOMAIN entries /\ entries[f].status = FRAGMENT_TERMINATING
  /\ entries' = [g \in DOMAIN entries \ {f} |-> entries[g]]
  /\ UNCHANGED <<clusterVars, goroutineVars, requestVars, restarts, historyVars>>

----------------------------------------------------------------------------
(***************************************************************************)
(* DeployableNamespace.Undeploy: list the namespaces of the application    *)
(* and delete them.  Failing to list is an error; failing to delete is     *)
(* only logged.                                                            *)
(***************************************************************************)
Deleted == IF namespace = "active" THEN "terminating" ELSE namespace

DeleteNamespace == namespace' \in {Deleted, namespace}

NamespaceGone ==
  /\ namespace = "terminating"
  /\ namespace' = "absent" /\ secret' = FALSE
  /\ UNCHANGED <<entries, goroutineVars, requestVars, restarts, historyVars>>

----------------------------------------------------------------------------
(***************************************************************************)
(* processRequest, in the goroutine of request r.                          *)
(***************************************************************************)
Goto(r, label) == pc' = [pc EXCEPT ![r] = label]

Unasked == UNCHANGED <<target, requestVars, restarts>>

\* Run starts the goroutine, whatever other goroutines do for the fragment.
Execute(r) ==
  LET f == target[r] IN
  /\ pc[r] = "idle"
  /\ Goto(r, "queued")
  /\ closed' = FALSE
  /\ terminated' = IF f \in DOMAIN entries /\ entries[f].status = FRAGMENT_TERMINATING
                   THEN terminated \cup {r} ELSE terminated \ {r}
  /\ UNCHANGED <<clusterVars, entries, stage, failedStage>> /\ Unasked

\* GetApplicationNamespace, and exists of PrepareEnvironmentForDeployment: a
\* namespace that is being deleted has the name and exists, and any error is
\* taken for absence.
FindNamespace(r) ==
  /\ pc[r] = "queued"
  /\ \/ namespace # "absent" /\ Goto(r, "build")
     \/ Goto(r, "create")
     \/ Goto(r, "aborted")
  /\ UNCHANGED <<clusterVars, entries, stage, historyVars>> /\ Unasked

\* DeployableNamespace.Deploy; the namespace may exist by now.  The answer to
\* the creation may be lost.
CreateNamespace(r) ==
  LET made == IF namespace = "absent" THEN "active" ELSE namespace IN
  /\ pc[r] = "create"
  /\ \/ namespace' = made /\ Goto(r, "secret") /\ UNCHANGED entries
     \/ /\ namespace' \in {namespace, made}
        /\ SetEntryStatus(target[r], FRAGMENT_ERROR)
        /\ Goto(r, "aborted")
  /\ UNCHANGED <<secret, stage, historyVars>> /\ Unasked

SecretAccepted == namespace = "active" /\ ~secret

\* A mutation of CreateSecret: a failed preparation is undeployed.
CreateSecretUndeploying(r) ==
  /\ pc[r] = "secret"
  /\ \/ SecretAccepted /\ secret' = TRUE /\ Goto(r, "build") /\ UNCHANGED <<entries, namespace>>
     \/ /\ SetEntryStatus(target[r], FRAGMENT_ERROR)
        /\ namespace' = Deleted
        /\ Goto(r, "aborted")
        /\ UNCHANGED secret
  /\ UNCHANGED <<stage, historyVars>> /\ Unasked

\* The secret of a namespace that another request created meanwhile may exist
\* already: creating it fails then, and the request with it.  No deployable is
\* returned, so nothing is undeployed.
CreateSecret(r) ==
  /\ pc[r] = "secret"
  /\ \/ SecretAccepted /\ secret' = TRUE /\ Goto(r, "build") /\ UNCHANGED entries
     \/ /\ secret' \in {secret, secret \/ SecretAccepted}
        /\ SetEntryStatus(target[r], FRAGMENT_ERROR)
        /\ Goto(r, "aborted")
  /\ UNCHANGED <<namespace, stage, historyVars>> /\ Unasked

\* A mutation of BuildStage: the error of a later stage is not recorded.
BuildStageUnrecorded(r) ==
  /\ pc[r] = "build"
  /\ \/ AddEntry(target[r], stage[r]) /\ Goto(r, "deploy")
     \/ /\ Goto(r, IF stage[r] = 1 THEN "aborted" ELSE "failed")
        /\ UNCHANGED entries
  /\ UNCHANGED <<clusterVars, stage, historyVars>> /\ Unasked

\* BuildNativeDeployable and AddEntry.  The error of the first stage finds no
\* entry, unless another request of the fragment has added one.
BuildStage(r) ==
  /\ pc[r] = "build"
  /\ \/ AddEntry(target[r], stage[r]) /\ Goto(r, "deploy")
     \/ /\ SetEntryStatus(target[r], FRAGMENT_ERROR)
        /\ Goto(r, IF stage[r] = 1 THEN "aborted" ELSE "failed")
  /\ UNCHANGED <<clusterVars, stage, historyVars>> /\ Unasked

\* The entry after DeployStage: an object that was created is registered.
Deployed(f, created) ==
  entries' = IF f \in DOMAIN entries
             THEN [entries EXCEPT ![f].status = FRAGMENT_DEPLOYING, ![f].resources = @ \/ created]
             ELSE entries

\* A mutation of DeployStage: a namespace that has gone is created again.
DeployStageRecreating(r) ==
  /\ pc[r] = "deploy"
  /\ namespace' = IF namespace = "absent" THEN "active" ELSE namespace
  /\ \E created \in BOOLEAN : (created => namespace' = "active") /\ Deployed(target[r], created)
  /\ Goto(r, "wait")
  /\ UNCHANGED <<secret, stage, historyVars>> /\ Unasked

\* SetEntryStatus and DeployStage, which may fail before or after it has
\* created an object.
DeployStage(r) ==
  /\ pc[r] = "deploy"
  /\ \E created \in BOOLEAN : (created => namespace = "active") /\ Deployed(target[r], created)
  /\ Goto(r, "wait")
  /\ UNCHANGED <<clusterVars, stage, historyVars>> /\ Unasked

\* WaitPendingChecks finds every service RUNNING.
StagePasses(r) ==
  /\ pc[r] = "wait" /\ target[r] \in DOMAIN entries /\ entries[target[r]].ready
  /\ IF stage[r] < NumStages
     THEN stage' = [stage EXCEPT ![r] = @ + 1] /\ Goto(r, "build")
     ELSE Goto(r, "done") /\ UNCHANGED stage
  /\ UNCHANGED <<clusterVars, entries, historyVars>> /\ Unasked

\* It gives up, or finds no entry; the stage is undeployed, and tried again or
\* not.
StageFails(r) ==
  /\ pc[r] = "wait"
  /\ Goto(r, "deploy") \/ Goto(r, "cleanup")
  /\ UNCHANGED <<clusterVars, entries, stage, historyVars>> /\ Unasked

\* preDeployable.Undeploy, and the error is recorded.
Cleanup(r) ==
  /\ pc[r] = "cleanup"
  /\ DeleteNamespace
  /\ SetEntryStatus(target[r], FRAGMENT_ERROR)
  /\ Goto(r, "failed")
  /\ failedStage' = TRUE
  /\ UNCHANGED <<secret, stage, closed, terminated>> /\ Unasked

----------------------------------------------------------------------------
(***************************************************************************)
(* Undeploy, and the goroutine that expires the logs.                      *)
(***************************************************************************)
Untouched == UNCHANGED <<goroutineVars, restarts>>

\* One more request that may delete the namespace.
Asked ==
  MaxDeletions > Cardinality({u \in Undeploys : undeploy[u] # "idle"})
                 + Cardinality({f \in Fragments : fragUndeploy[f] # "idle"})
                 + (IF offline THEN 1 ELSE 0)

\* UndeployNamespace.
UndeployNamespace(u) ==
  /\ undeploy[u] = "idle" /\ Asked
  /\ undeploy' = [undeploy EXCEPT ![u] = "status"]
  /\ \/ /\ namespace' = Deleted
        /\ closed' = (\A r \in Requests : pc[r] \notin {"queued", "create"})
     \/ UNCHANGED <<namespace, closed>>
  /\ UNCHANGED <<secret, entries, fragUndeploy, offline, terminated, failedStage>>
  /\ Untouched

\* SetAppStatus, and the start of checkNamespaceToExpireLogs.
UndeployStatus(u) ==
  /\ undeploy[u] = "status"
  /\ undeploy' = [undeploy EXCEPT ![u] = "watching"]
  /\ SetAppStatus
  /\ terminated' = terminated \cup {r \in Requests : target[r] \in DOMAIN entries}
  /\ UNCHANGED <<clusterVars, fragUndeploy, offline, closed, failedStage>>
  /\ Untouched

\* A tick of checkNamespaceToExpireLogs: CheckIfNamespaceExists says that the
\* namespace has gone.  Its answer to an error is the same.
CheckNamespaceToExpireLogs(u) ==
  /\ undeploy[u] = "watching"
  /\ undeploy' = [undeploy EXCEPT ![u] = "expiring"]
  /\ UNCHANGED <<clusterVars, entries, fragUndeploy, offline, historyVars>>
  /\ Untouched

\* expireLogs, for the organization and the application, whose namespace may
\* have been created again since the check; an error is only logged.
CallExpire(u) ==
  /\ undeploy[u] = "expiring"
  /\ undeploy' = [undeploy EXCEPT ![u] = "ended"]
  /\ UNCHANGED <<clusterVars, entries, fragUndeploy, offline, historyVars>>
  /\ Untouched

\* The deadline of the context passes.
ExpireTimeout(u) ==
  /\ undeploy[u] = "watching"
  /\ undeploy' = [undeploy EXCEPT ![u] = "ended"]
  /\ UNCHANGED <<clusterVars, entries, fragUndeploy, offline, historyVars>>
  /\ Untouched

----------------------------------------------------------------------------
(***************************************************************************)
(* UndeployFragment, and the offline policy.                               *)
(***************************************************************************)
FragGoto(f, label) == fragUndeploy' = [fragUndeploy EXCEPT ![f] = label]

\* GetEntry, which must find the fragment, and the deletion of the objects
\* with its label, whose errors are only logged.
UndeployFragment(f) ==
  /\ fragUndeploy[f] = "idle" /\ Asked
  /\ IF f \in DOMAIN entries
     THEN FragGoto(f, "status")
     ELSE FragGoto(f, "ended")
  /\ UNCHANGED <<clusterVars, entries, undeploy, offline, historyVars>>
  /\ Untouched

FragmentStatusTerminating(f) ==
  /\ fragUndeploy[f] = "status"
  /\ SetEntryStatus(f, FRAGMENT_TERMINATING)
  /\ FragGoto(f, "namespace")
  /\ terminated' = terminated \cup {r \in Requests : target[r] = f}
  /\ UNCHANGED <<clusterVars, undeploy, offline, closed, failedStage>>
  /\ Untouched

\* GetAppStatus: nil, or the status of the first entry the map yields.
AppStatuses ==
  IF entries = << >> THEN {FRAGMENT_TERMINATING} ELSE {entries[g].status : g \in DOMAIN entries}

FragmentNamespace(f) ==
  /\ fragUndeploy[f] = "namespace"
  /\ \E status \in AppStatuses :
       IF status = FRAGMENT_TERMINATING THEN DeleteNamespace ELSE UNCHANGED namespace
  /\ FragGoto(f, "ended")
  /\ UNCHANGED <<secret, entries, undeploy, offline, historyVars>>
  /\ Untouched

\* RemoveAll: every active namespace with the label of an application; the
\* registry is not told.
RemoveAll ==
  /\ ~offline /\ Asked /\ offline' = TRUE
  /\ DeleteNamespace
  /\ UNCHANGED <<secret, entries, undeploy, fragUndeploy, historyVars>>
  /\ Untouched

\* The process starts again: nothing that was in memory is left.
Restart ==
  /\ restarts < MaxRestarts /\ restarts' = restarts + 1
  /\ entries' = << >>
  /\ pc' = [r \in Requests |-> IF pc[r] \in Ended THEN pc[r] ELSE "lost"]
  /\ undeploy' = [u \in Undeploys |-> IF undeploy[u] = "idle" THEN "idle" ELSE "ended"]
  /\ fragUndeploy' = [f \in Fragments |-> IF fragUndeploy[f] = "idle" THEN "idle" ELSE "ended"]
  /\ UNCHANGED <<clusterVars, target, stage, offline, historyVars>>

----------------------------------------------------------------------------
Init ==
  /\ namespace = "absent" /\ secret = FALSE
  /\ entries = << >>
  /\ target \in [Requests -> Fragments]
  /\ pc = [r \in Requests |-> "idle"] /\ stage = [r \in Requests |-> 1]
  /\ undeploy = [u \in Undeploys |-> "idle"]
  /\ fragUndeploy = [f \in Fragments |-> "idle"]
  /\ offline = FALSE /\ restarts = 0
  /\ closed = FALSE /\ terminated = {} /\ failedStage = FALSE

Goroutine(r) ==
  \/ FindNamespace(r) \/ CreateNamespace(r) \/ CreateSecret(r) \/ BuildStage(r)
  \/ DeployStage(r) \/ StagePasses(r) \/ StageFails(r) \/ Cleanup(r)

FragmentRequest(f) ==
  UndeployFragment(f) \/ FragmentStatusTerminating(f) \/ FragmentNamespace(f)

ExpireLogs(u) == CheckNamespaceToExpireLogs(u) \/ CallExpire(u) \/ ExpireTimeout(u)

Next ==
  \/ \E r \in Requests : Execute(r) \/ Goroutine(r)
  \/ \E f \in Fragments : FragmentRequest(f) \/ Event(f) \/ RemoveEntry(f)
  \/ \E u \in Undeploys : UndeployNamespace(u) \/ UndeployStatus(u) \/ ExpireLogs(u)
  \/ NamespaceGone \/ RemoveAll \/ Restart

\* The goroutines of the requests run.
Spec ==
  /\ Init /\ [][Next]_vars
  /\ WF_vars((\E r \in Requests : Goroutine(r)) \/ (\E f \in Fragments : FragmentNamespace(f)))
  /\ WF_vars(\E u \in Undeploys : UndeployStatus(u) \/ ExpireLogs(u))

----------------------------------------------------------------------------
(***************************************************************************)
(* Properties.                                                             *)
(***************************************************************************)

\* While nobody has asked to undeploy anything, the offline policy was not
\* applied and no stage failed, what a request has deployed keeps its
\* namespace: no interleaving of two preparations of the shared namespace,
\* aborted ones and those of a repeated request included, deletes it.
DeployedKeepsNamespace ==
  /\ \A u \in Undeploys : undeploy[u] = "idle"
  /\ \A f \in Fragments : fragUndeploy[f] = "idle"
  /\ ~offline /\ ~failedStage
  => \A r \in Requests : pc[r] = "done" => namespace = "active"

\* A request that fails after its first stage was built finds the entry of its
\* fragment and leaves it in ERROR, unless the fragment was set TERMINATING
\* since the request started or was found so: no other goroutine, repeated
\* request, event or report has taken the entry away.  An event may give the
\* entry another status right after that, before conductor hears of it.
FailureHeard ==
  [][\A r \in Requests :
       /\ pc[r] \in {"build", "cleanup"} /\ pc'[r] = "failed"
       /\ r \notin terminated
       => /\ target[r] \in DOMAIN entries'
          /\ entries'[target[r]].status = FRAGMENT_ERROR]_vars

\* Once the namespace was deleted with no request on its way to create it, it
\* is not active again before the next request: goroutines that are still
\* deploying stages do not bring it back.
NothingAfterUndeploy == closed => namespace # "active"

\* "if the application moves into terminating status remove the namespace"
\* (manager.go:313): UndeployFragment does not delete the namespace while a
\* fragment of the application is in another status.
NamespaceOutlivesFragments ==
  [][\A f \in Fragments :
       /\ fragUndeploy[f] = "namespace" /\ fragUndeploy'[f] = "ended"
       /\ namespace = "active" /\ namespace' = "terminating"
       => \A g \in DOMAIN entries : entries[g].status = FRAGMENT_TERMINATING]_vars
============================================================================
