----------------------- MODULE AppUndeployment_proofs -----------------------
(***************************************************************************)
(* The fragments of an application in their namespace, for any number of   *)
(* fragments, stages, undeploy requests, repeated requests and restarts.   *)
(*                                                                         *)
(* Each property rests on an invariant of its own, over the types of the   *)
(* control state; what the methods of the registry do to the statuses is   *)
(* stated once.                                                            *)
(***************************************************************************)
EXTENDS AppUndeployment, TLAPS

Labels ==
  {"idle", "queued", "create", "secret", "build", "deploy", "wait", "cleanup",
   "done", "failed", "aborted", "lost"}

Entry == [status : FragmentStatus, ready : BOOLEAN, resources : BOOLEAN, stages : Nat]

EntriesOK ==
  /\ entries = [f \in DOMAIN entries |-> entries[f]]
  /\ DOMAIN entries \subseteq Fragments
  /\ \A f \in DOMAIN entries : entries[f] \in Entry

ControlOK ==
  /\ namespace \in {"absent", "active", "terminating"}
  /\ target \in [Requests -> Fragments]
  /\ pc \in [Requests -> Labels] /\ stage \in [Requests -> Nat \ {0}]
  /\ undeploy \in [Undeploys -> {"idle", "status", "watching", "expiring", "ended"}]
  /\ fragUndeploy \in [Fragments -> {"idle", "status", "namespace", "ended"}]

AppTypeOK == EntriesOK /\ ControlOK

\* What a step may do to the registry, seen from a fragment: Kept says that
\* the others keep their entries and their statuses.
Kept(f) ==
  /\ DOMAIN entries \subseteq DOMAIN entries' /\ DOMAIN entries' \subseteq DOMAIN entries \cup {f}
  /\ \A g \in DOMAIN entries \ {f} : entries'[g].status = entries[g].status

----------------------------------------------------------------------------
(***************************************************************************)
(* The methods of the registry.                                            *)
(***************************************************************************)
\* The statuses this module writes, and that no event means TERMINATING.
LEMMA StatusValues ==
  /\ {FRAGMENT_DEPLOYING, FRAGMENT_DONE, FRAGMENT_ERROR, FRAGMENT_TERMINATING}
       \subseteq FragmentStatus
  /\ FRAGMENT_TERMINATING \notin {FRAGMENT_DEPLOYING, FRAGMENT_DONE, FRAGMENT_ERROR}
BY DEF FragmentStatus, FRAGMENT_WAITING, FRAGMENT_DEPLOYING, FRAGMENT_DONE,
       FRAGMENT_ERROR, FRAGMENT_TERMINATING

\* An entry takes the place of that of its fragment.
LEMMA EntryReplaced ==
  ASSUME EntriesOK, NEW f \in DOMAIN entries, NEW new \in Entry,
         entries' = [entries EXCEPT ![f] = new]
  PROVE  /\ EntriesOK' /\ Kept(f) /\ DOMAIN entries' = DOMAIN entries
         /\ entries'[f] = new
BY DEF EntriesOK, Kept

\* Setting a status touches the entry of the fragment and no other.
LEMMA SetEntryStatusFacts ==
  ASSUME EntriesOK, NEW f \in Fragments, NEW status \in FragmentStatus,
         SetEntryStatus(f, status)
  PROVE  /\ EntriesOK' /\ Kept(f) /\ DOMAIN entries' = DOMAIN entries
         /\ f \in DOMAIN entries => entries'[f].status = status
BY DEF EntriesOK, SetEntryStatus, Entry, Kept

\* An entry is new and DEPLOYING, or keeps its status.
LEMMA AddEntryFacts ==
  ASSUME EntriesOK, NEW f \in Fragments, NEW n \in Nat, AddEntry(f, n)
  PROVE  /\ EntriesOK' /\ Kept(f) /\ f \in DOMAIN entries'
         /\ f \in DOMAIN entries => entries'[f].status = entries[f].status
         /\ f \notin DOMAIN entries => entries'[f].status = FRAGMENT_DEPLOYING
<1>1. CASE f \notin DOMAIN entries
  <2> DEFINE new == [status |-> FRAGMENT_DEPLOYING, ready |-> FALSE,
                     resources |-> FALSE, stages |-> n]
  <2>1. new \in Entry /\ new.status = FRAGMENT_DEPLOYING
    BY StatusValues DEF Entry
  <2>2. entries' = [g \in DOMAIN entries \cup {f} |-> IF g = f THEN new ELSE entries[g]]
    BY <1>1 DEF AddEntry
  <2> HIDE DEF new
  <2>3. QED
    BY <1>1, <2>1, <2>2 DEF EntriesOK, Kept
<1>2. CASE f \in DOMAIN entries /\ n > entries[f].stages
  <2>2. entries' = [entries EXCEPT ![f].ready = FALSE, ![f].stages = n]
    BY <1>2 DEF AddEntry
  <2> DEFINE new == [entries[f] EXCEPT !.ready = FALSE, !.stages = n]
  <2>3. entries' = [entries EXCEPT ![f] = new]
    BY <1>2, <2>2 DEF EntriesOK
  <2>4. new \in Entry /\ new.status = entries[f].status
    BY <1>2 DEF EntriesOK, Entry
  <2> HIDE DEF new
  <2>5. QED
    BY <1>2, <2>3, <2>4, EntryReplaced
<1>3. CASE f \in DOMAIN entries /\ ~(n > entries[f].stages)
  <2>1. entries' = entries
    BY <1>3 DEF AddEntry
  <2>2. QED
    BY <1>3, <2>1 DEF EntriesOK, Kept
<1>4. QED
  BY <1>1, <1>2, <1>3

\* SetAppStatus leaves no other status.
LEMMA SetAppStatusFacts ==
  ASSUME EntriesOK, SetAppStatus
  PROVE  /\ EntriesOK' /\ DOMAIN entries' = DOMAIN entries
         /\ \A f \in DOMAIN entries : entries'[f].status = FRAGMENT_TERMINATING
<1>1. FRAGMENT_TERMINATING \in FragmentStatus
  BY StatusValues
<1>2. entries' = [f \in DOMAIN entries |->
                    [entries[f] EXCEPT !.status = FRAGMENT_TERMINATING, !.ready = FALSE]]
  BY DEF SetAppStatus, TerminatingEntries
<1>3. ASSUME NEW f \in DOMAIN entries
      PROVE  entries'[f] \in Entry /\ entries'[f].status = FRAGMENT_TERMINATING
  <2>1. entries[f] \in Entry
    BY DEF EntriesOK
  <2>2. QED
    BY <1>1, <1>2, <2>1 DEF Entry
<1>4. DOMAIN entries' = DOMAIN entries /\ entries' = [f \in DOMAIN entries' |-> entries'[f]]
  BY <1>2
<1>5. QED
  BY <1>3, <1>4 DEF EntriesOK

\* DeployStage touches the entry of its fragment, if there is one.
LEMMA DeployedFacts ==
  ASSUME EntriesOK, NEW f \in Fragments, NEW created \in BOOLEAN, Deployed(f, created)
  PROVE  /\ EntriesOK' /\ Kept(f) /\ DOMAIN entries' = DOMAIN entries
         /\ f \in DOMAIN entries => entries'[f].status = FRAGMENT_DEPLOYING
BY StatusValues DEF EntriesOK, Deployed, Entry, Kept

\* An event needs an entry and gives it a status other than TERMINATING.
LEMMA EventFacts ==
  ASSUME EntriesOK, NEW f \in Fragments, Event(f)
  PROVE  /\ EntriesOK' /\ Kept(f) /\ DOMAIN entries' = DOMAIN entries
         /\ f \in DOMAIN entries /\ entries'[f].status # FRAGMENT_TERMINATING
<1>1. PICK status \in {FRAGMENT_DEPLOYING, FRAGMENT_DONE, FRAGMENT_ERROR} :
        entries' = [entries EXCEPT ![f].status = status, ![f].ready = (status = FRAGMENT_DONE)]
  BY DEF Event
<1>2. PICK ready \in BOOLEAN :
        entries' = [entries EXCEPT ![f].status = status, ![f].ready = ready]
  BY <1>1
<1>3. f \in DOMAIN entries
  BY DEF Event
<1>4. status \in FragmentStatus /\ status # FRAGMENT_TERMINATING
  BY StatusValues
<1> DEFINE new == [entries[f] EXCEPT !.status = status, !.ready = ready]
<1>5. entries' = [entries EXCEPT ![f] = new]
  BY <1>2, <1>3 DEF EntriesOK
<1>6. new \in Entry /\ new.status = status
  BY <1>3, <1>4 DEF EntriesOK, Entry
<1> HIDE DEF new
<1>7. QED
  BY <1>3, <1>4, <1>5, <1>6, EntryReplaced

\* Only a TERMINATING entry is removed.
LEMMA RemoveEntryFacts ==
  ASSUME EntriesOK, NEW f \in Fragments, RemoveEntry(f)
  PROVE  /\ EntriesOK' /\ DOMAIN entries' = DOMAIN entries \ {f}
         /\ entries[f].status = FRAGMENT_TERMINATING
         /\ \A g \in DOMAIN entries' : entries'[g] = entries[g]
BY DEF EntriesOK, RemoveEntry

----------------------------------------------------------------------------
(***************************************************************************)
(* The types.                                                              *)
(***************************************************************************)
\* The process starts with an empty registry.
LEMMA AppTypeInit == Init => AppTypeOK
BY DEF Init, AppTypeOK, EntriesOK, ControlOK, Labels

\* Every step keeps the types.
LEMMA AppTypeStep == AppTypeOK /\ [Next]_vars => AppTypeOK'
<1> SUFFICES ASSUME EntriesOK, ControlOK, [Next]_vars
             PROVE  EntriesOK' /\ ControlOK'
  BY DEF AppTypeOK
<1> USE DEF ControlOK, Labels
<1>0. \A r \in Requests : target[r] \in Fragments /\ stage[r] \in Nat
  OBVIOUS
<1>1. ASSUME NEW r \in Requests, Execute(r) PROVE EntriesOK' /\ ControlOK'
  BY <1>1 DEF Execute, Goto, Unasked, clusterVars, requestVars, EntriesOK
<1>2. ASSUME NEW r \in Requests, FindNamespace(r) PROVE EntriesOK' /\ ControlOK'
  BY <1>2 DEF FindNamespace, Goto, Unasked, clusterVars, requestVars, EntriesOK
<1>3. ASSUME NEW r \in Requests, CreateNamespace(r) PROVE EntriesOK' /\ ControlOK'
  <2>1. ControlOK'
    BY <1>3 DEF CreateNamespace, Goto, Unasked, requestVars
  <2>2. UNCHANGED entries \/ SetEntryStatus(target[r], FRAGMENT_ERROR)
    BY <1>3 DEF CreateNamespace
  <2>3. UNCHANGED entries => EntriesOK'
    BY DEF EntriesOK
  <2>4. QED
    BY <1>0, <2>1, <2>2, <2>3, SetEntryStatusFacts, StatusValues
<1>4. ASSUME NEW r \in Requests, CreateSecret(r) PROVE EntriesOK' /\ ControlOK'
  <2>1. ControlOK'
    BY <1>4 DEF CreateSecret, Goto, Unasked, requestVars
  <2>2. UNCHANGED entries \/ SetEntryStatus(target[r], FRAGMENT_ERROR)
    BY <1>4 DEF CreateSecret
  <2>3. UNCHANGED entries => EntriesOK'
    BY DEF EntriesOK
  <2>4. QED
    BY <1>0, <2>1, <2>2, <2>3, SetEntryStatusFacts, StatusValues
<1>5. ASSUME NEW r \in Requests, BuildStage(r) PROVE EntriesOK' /\ ControlOK'
  <2>1. ControlOK'
    BY <1>5 DEF BuildStage, Goto, Unasked, clusterVars, requestVars
  <2>2. AddEntry(target[r], stage[r]) \/ SetEntryStatus(target[r], FRAGMENT_ERROR)
    BY <1>5 DEF BuildStage
  <2>3. QED
    BY <1>0, <2>1, <2>2, AddEntryFacts, SetEntryStatusFacts, StatusValues
<1>6. ASSUME NEW r \in Requests, DeployStage(r) PROVE EntriesOK' /\ ControlOK'
  <2>1. ControlOK'
    BY <1>6 DEF DeployStage, Goto, Unasked, clusterVars, requestVars
  <2>2. PICK created \in BOOLEAN : Deployed(target[r], created)
    BY <1>6 DEF DeployStage
  <2>3. QED
    BY <1>0, <2>1, <2>2, DeployedFacts
<1>7. ASSUME NEW r \in Requests, StagePasses(r) PROVE EntriesOK' /\ ControlOK'
  BY <1>7 DEF StagePasses, Goto, Unasked, clusterVars, requestVars, EntriesOK
<1>8. ASSUME NEW r \in Requests, StageFails(r) PROVE EntriesOK' /\ ControlOK'
  BY <1>8 DEF StageFails, Goto, Unasked, clusterVars, requestVars, EntriesOK
<1>9. ASSUME NEW r \in Requests, Cleanup(r) PROVE EntriesOK' /\ ControlOK'
  <2>1. ControlOK'
    BY <1>9 DEF Cleanup, DeleteNamespace, Deleted, Goto, Unasked, requestVars
  <2>2. SetEntryStatus(target[r], FRAGMENT_ERROR)
    BY <1>9 DEF Cleanup
  <2>3. QED
    BY <1>0, <2>1, <2>2, SetEntryStatusFacts, StatusValues
<1>10. ASSUME NEW f \in Fragments, UndeployFragment(f) PROVE EntriesOK' /\ ControlOK'
  BY <1>10 DEF UndeployFragment, FragGoto, Untouched, clusterVars, goroutineVars, EntriesOK
<1>11. ASSUME NEW f \in Fragments, FragmentStatusTerminating(f)
       PROVE  EntriesOK' /\ ControlOK'
  <2>1. ControlOK'
    BY <1>11 DEF FragmentStatusTerminating, FragGoto, Untouched, clusterVars, goroutineVars
  <2>2. SetEntryStatus(f, FRAGMENT_TERMINATING)
    BY <1>11 DEF FragmentStatusTerminating
  <2>3. QED
    BY <2>1, <2>2, SetEntryStatusFacts, StatusValues
<1>12. ASSUME NEW f \in Fragments, FragmentNamespace(f) PROVE EntriesOK' /\ ControlOK'
  BY <1>12 DEF FragmentNamespace, DeleteNamespace, Deleted, FragGoto, Untouched,
               goroutineVars, EntriesOK
<1>13. ASSUME NEW f \in Fragments, Event(f) PROVE EntriesOK' /\ ControlOK'
  <2>1. ControlOK'
    BY <1>13 DEF Event, clusterVars, goroutineVars, requestVars
  <2>2. QED
    BY <1>13, <2>1, EventFacts
<1>14. ASSUME NEW f \in Fragments, RemoveEntry(f) PROVE EntriesOK' /\ ControlOK'
  <2>1. ControlOK'
    BY <1>14 DEF RemoveEntry, clusterVars, goroutineVars, requestVars
  <2>2. QED
    BY <1>14, <2>1, RemoveEntryFacts
<1>15. ASSUME NEW u \in Undeploys, UndeployNamespace(u) PROVE EntriesOK' /\ ControlOK'
  BY <1>15 DEF UndeployNamespace, Deleted, Untouched, goroutineVars, EntriesOK
<1>16. ASSUME NEW u \in Undeploys, UndeployStatus(u) PROVE EntriesOK' /\ ControlOK'
  <2>1. ControlOK'
    BY <1>16 DEF UndeployStatus, Untouched, clusterVars, goroutineVars
  <2>2. SetAppStatus
    BY <1>16 DEF UndeployStatus
  <2>3. QED
    BY <2>1, <2>2, SetAppStatusFacts
<1>17. ASSUME NEW u \in Undeploys, ExpireLogs(u) PROVE EntriesOK' /\ ControlOK'
  BY <1>17 DEF ExpireLogs, CheckNamespaceToExpireLogs, CallExpire, ExpireTimeout, Untouched,
               clusterVars, goroutineVars, EntriesOK
<1>18. CASE NamespaceGone
  BY <1>18 DEF NamespaceGone, goroutineVars, requestVars, EntriesOK
<1>19. CASE RemoveAll
  BY <1>19 DEF RemoveAll, DeleteNamespace, Deleted, Untouched, goroutineVars, EntriesOK
<1>20. CASE Restart
  BY <1>20 DEF Restart, Ended, clusterVars, EntriesOK
<1>21. CASE UNCHANGED vars
  BY <1>21 DEF vars, clusterVars, goroutineVars, requestVars, EntriesOK
<1>22. QED
  BY <1>1, <1>2, <1>3, <1>4, <1>5, <1>6, <1>7, <1>8, <1>9, <1>10, <1>11, <1>12, <1>13,
     <1>14, <1>15, <1>16, <1>17, <1>18, <1>19, <1>20, <1>21
     DEF Next, Goroutine, FragmentRequest

\* The registry holds entries of the application's fragments only, and every
\* goroutine and request is where processRequest or its handler can be.
THEOREM AppTypes == Spec => []AppTypeOK
BY AppTypeInit, AppTypeStep, PTL DEF Spec

----------------------------------------------------------------------------
(***************************************************************************)
(* Undeploy is not undone.  What keeps a deleted namespace from becoming   *)
(* active again is that nobody is on the way to CreateNamespace, the only  *)
(* call that makes one: a goroutine gets there from "queued", and a new    *)
(* request makes closed FALSE.                                             *)
(***************************************************************************)
ClosedOK ==
  /\ closed \in BOOLEAN
  /\ closed => /\ namespace # "active"
               /\ \A r \in Requests : pc[r] \notin {"queued", "create"}

\* No step brings the namespace back.
LEMMA ClosedStep == AppTypeOK /\ ClosedOK /\ [Next]_vars => ClosedOK'
<1> SUFFICES ASSUME ControlOK, ClosedOK, [Next]_vars PROVE ClosedOK'
  BY DEF AppTypeOK
<1> USE DEF ControlOK, Labels, ClosedOK
<1>1. ASSUME NEW r \in Requests, Execute(r) PROVE ClosedOK'
  BY <1>1 DEF Execute
<1>2. ASSUME NEW r \in Requests, FindNamespace(r) PROVE ClosedOK'
  BY <1>2 DEF FindNamespace, Goto, clusterVars, historyVars
<1>3. ASSUME NEW r \in Requests, CreateNamespace(r) PROVE ClosedOK'
  BY <1>3 DEF CreateNamespace, Goto, historyVars
<1>4. ASSUME NEW r \in Requests,
             CreateSecret(r) \/ BuildStage(r) \/ DeployStage(r) \/ StagePasses(r) \/ StageFails(r)
      PROVE  ClosedOK'
  <2>1. UNCHANGED <<namespace, closed>>
    BY <1>4 DEF CreateSecret, BuildStage, DeployStage, StagePasses, StageFails, clusterVars,
                historyVars
  <2>2. PICK label \in {"build", "aborted", "deploy", "failed", "wait", "done", "cleanup"} :
          pc' = [pc EXCEPT ![r] = label]
    BY <1>4 DEF CreateSecret, BuildStage, DeployStage, StagePasses, StageFails, Goto
  <2>3. QED
    BY <2>1, <2>2
<1>5. ASSUME NEW r \in Requests, Cleanup(r) PROVE ClosedOK'
  BY <1>5 DEF Cleanup, DeleteNamespace, Deleted, Goto
<1>6. ASSUME NEW u \in Undeploys, UndeployNamespace(u) PROVE ClosedOK'
  <2>1. UNCHANGED pc
    BY <1>6 DEF UndeployNamespace, Untouched, goroutineVars
  <2>2. CASE UNCHANGED <<namespace, closed>>
    BY <2>1, <2>2
  <2>3. CASE /\ namespace' = Deleted
             /\ closed' = (\A r \in Requests : pc[r] \notin {"queued", "create"})
    <3>1. namespace' # "active"
      BY <2>3 DEF Deleted
    <3>2. QED
      BY <2>1, <2>3, <3>1
  <2>4. QED
    BY <1>6, <2>2, <2>3 DEF UndeployNamespace
<1>7. ASSUME NEW f \in Fragments, FragmentRequest(f) \/ Event(f) \/ RemoveEntry(f) PROVE ClosedOK'
  <2>1. UNCHANGED <<pc, closed>>
    BY <1>7 DEF FragmentRequest, UndeployFragment, FragmentStatusTerminating, FragmentNamespace,
                Event, RemoveEntry, Untouched, goroutineVars, historyVars
  <2>2. namespace' \in {Deleted, namespace}
    BY <1>7 DEF FragmentRequest, UndeployFragment, FragmentStatusTerminating, FragmentNamespace,
                DeleteNamespace, Event, RemoveEntry, clusterVars
  <2>3. QED
    BY <2>1, <2>2 DEF Deleted
<1>8. ASSUME NEW u \in Undeploys, UndeployStatus(u) \/ ExpireLogs(u) PROVE ClosedOK'
  BY <1>8 DEF UndeployStatus, ExpireLogs, CheckNamespaceToExpireLogs, CallExpire, ExpireTimeout,
              Untouched,             clusterVars, goroutineVars, historyVars
<1>9. CASE NamespaceGone \/ RemoveAll
  BY <1>9 DEF NamespaceGone, RemoveAll, DeleteNamespace, Deleted, Untouched, goroutineVars,
              historyVars
<1>10. CASE Restart
  BY <1>10 DEF Restart, clusterVars, historyVars
<1>11. CASE UNCHANGED vars
  BY <1>11 DEF vars, clusterVars, goroutineVars, historyVars
<1>12. QED
  BY <1>1, <1>2, <1>3, <1>4, <1>5, <1>6, <1>7, <1>8, <1>9, <1>10, <1>11 DEF Next, Goroutine

\* Once Undeploy has deleted the namespace with no request on its way to
\* CreateNamespace, goroutines that still deploy stages, failed and repeated
\* deletions, other fragments and restarts do not make it active again.
THEOREM UndeployedStaysUndeployed == Spec => []NothingAfterUndeploy
<1>1. Init => ClosedOK
  BY DEF Init, ClosedOK
<1>2. ClosedOK => NothingAfterUndeploy
  BY DEF ClosedOK, NothingAfterUndeploy
<1>3. QED
  BY <1>1, <1>2, ClosedStep, AppTypes, PTL DEF Spec

----------------------------------------------------------------------------
(***************************************************************************)
(* While nothing was asked to be undeployed, a namespace that was found or *)
(* created stays active: every goroutine past CreateNamespace relies on    *)
(* it, not only the ones that are done, and what FindNamespace found       *)
(* cannot be a namespace on its way out.                                   *)
(***************************************************************************)
Quiet ==
  /\ \A u \in Undeploys : undeploy[u] = "idle"
  /\ \A f \in Fragments : fragUndeploy[f] = "idle"
  /\ ~offline /\ ~failedStage

Settled == {"secret", "build", "deploy", "wait", "cleanup", "done"}

QuietOK ==
  Quiet => /\ namespace # "terminating"
           /\ \A r \in Requests : pc[r] \in Settled => namespace = "active"

\* No step of a quiet system takes the namespace away.
LEMMA QuietStep == AppTypeOK /\ QuietOK /\ [Next]_vars => QuietOK'
<1> SUFFICES ASSUME ControlOK, QuietOK, [Next]_vars, Quiet'
             PROVE  /\ namespace' # "terminating"
                    /\ \A r \in Requests : pc'[r] \in Settled => namespace' = "active"
  BY DEF AppTypeOK, QuietOK
<1> DEFINE Goal == /\ namespace' # "terminating"
                   /\ \A r \in Requests : pc'[r] \in Settled => namespace' = "active"
<1> USE DEF ControlOK, Labels
<1>1. ASSUME NEW r \in Requests,
             Execute(r) \/ FindNamespace(r) \/ CreateNamespace(r) \/ CreateSecret(r) \/ BuildStage(r)
             \/ DeployStage(r) \/ StagePasses(r) \/ StageFails(r)
      PROVE  Goal
  <2>1. UNCHANGED <<undeploy, fragUndeploy, offline, failedStage>>
    BY <1>1 DEF Execute, FindNamespace, CreateNamespace, CreateSecret, BuildStage, DeployStage,
                StagePasses, StageFails, Unasked, requestVars, historyVars
  <2>2. /\ namespace # "terminating"
        /\ \A q \in Requests : pc[q] \in Settled => namespace = "active"
    BY <2>1 DEF Quiet, QuietOK
  <2>3. CASE FindNamespace(r) \/ CreateNamespace(r)
    BY <2>2, <2>3 DEF FindNamespace, CreateNamespace, Goto, clusterVars, Settled
  <2>4. CASE ~(FindNamespace(r) \/ CreateNamespace(r))
    <3>1. UNCHANGED namespace
      BY <1>1, <2>4 DEF Execute, CreateSecret, BuildStage, DeployStage, StagePasses, StageFails,
                        clusterVars
    <3>2. PICK label \in Labels : pc' = [pc EXCEPT ![r] = label]
                                  /\ (label \in Settled => pc[r] \in Settled)
      BY <1>1, <2>4 DEF Execute, CreateSecret, BuildStage, DeployStage, StagePasses, StageFails,
                        Goto, Settled
    <3>3. QED
      BY <2>2, <3>1, <3>2
  <2>5. QED
    BY <2>3, <2>4
<1>2. ASSUME NEW r \in Requests, Cleanup(r) PROVE Goal
  BY <1>2 DEF Cleanup, Quiet
<1>3. ASSUME NEW f \in Fragments, FragmentRequest(f) PROVE Goal
  <2>1. fragUndeploy'[f] # "idle"
    BY <1>3 DEF FragmentRequest, UndeployFragment, FragmentStatusTerminating, FragmentNamespace,
                FragGoto
  <2>2. QED
    BY <2>1 DEF Quiet
<1>4. ASSUME NEW u \in Undeploys, UndeployNamespace(u) \/ UndeployStatus(u) \/ ExpireLogs(u)
      PROVE  Goal
  <2>1. undeploy'[u] # "idle"
    BY <1>4 DEF UndeployNamespace, UndeployStatus, ExpireLogs, CheckNamespaceToExpireLogs,
                CallExpire, ExpireTimeout
  <2>2. QED
    BY <2>1 DEF Quiet
<1>5. ASSUME NEW f \in Fragments, Event(f) \/ RemoveEntry(f) PROVE Goal
  BY <1>5 DEF Event, RemoveEntry, clusterVars, goroutineVars, requestVars, historyVars, Quiet, QuietOK
<1>6. CASE NamespaceGone
  BY <1>6 DEF NamespaceGone, goroutineVars, requestVars, historyVars, Quiet, QuietOK
<1>7. CASE RemoveAll
  BY <1>7 DEF RemoveAll, Quiet
<1>8. CASE Restart
  <2>1. Quiet
    BY <1>8 DEF Restart, historyVars, Quiet
  <2>2. QED
    BY <1>8, <2>1 DEF Restart, clusterVars, QuietOK, Settled, Ended
<1>9. CASE UNCHANGED vars
  BY <1>9 DEF vars, clusterVars, goroutineVars, requestVars, historyVars, Quiet, QuietOK
<1>10. QED
  BY <1>1, <1>2, <1>3, <1>4, <1>5, <1>6, <1>7, <1>8, <1>9 DEF Next, Goroutine

\* Requests that prepare the shared namespace in any order, two of one fragment
\* included, and requests aborted on the way, do not delete the namespace of
\* one that has deployed its fragment.
THEOREM PreparationsKeepNamespace == Spec => []DeployedKeepsNamespace
<1>1. Init => QuietOK
  BY DEF Init, QuietOK, Settled
<1>2. QuietOK => DeployedKeepsNamespace
  BY DEF QuietOK, Quiet, Settled, DeployedKeepsNamespace
<1>3. QED
  BY <1>1, <1>2, QuietStep, AppTypes, PTL DEF Spec

----------------------------------------------------------------------------
(***************************************************************************)
(* A failure is heard.  A goroutine past its first AddEntry has an entry,  *)
(* unless its fragment was terminated: entries are removed only by         *)
(* RemoveEntry, which needs a TERMINATING one, and by a restart, which     *)
(* leaves no goroutine behind.  While an entry is TERMINATING, every       *)
(* request of the fragment that has started is marked terminated; a        *)
(* request that finds it so is marked when it starts.                      *)
(***************************************************************************)
Preparing(r) == pc[r] \in {"idle", "queued", "create", "secret"}

Registered(r) == pc[r] \in {"deploy", "wait", "cleanup"} \/ (pc[r] = "build" /\ stage[r] > 1)

HeardOK ==
  /\ \A r \in Requests :
       pc[r] # "idle" /\ target[r] \in DOMAIN entries
         /\ entries[target[r]].status = FRAGMENT_TERMINATING => r \in terminated
  /\ \A r \in Requests : Registered(r) /\ r \notin terminated => target[r] \in DOMAIN entries
  /\ \A r \in Requests : Preparing(r) => stage[r] = 1

\* A goroutine that writes a status other than TERMINATING to the entry of its
\* fragment, or leaves it as it is.
LEMMA HeardKept ==
  ASSUME HeardOK, ControlOK, NEW r \in Requests, NEW label, pc[r] # "idle",
         pc' = [pc EXCEPT ![r] = label], UNCHANGED <<terminated, target>>,
         \A q \in Requests \ {r} : stage'[q] = stage[q],
         Kept(target[r]) \/ UNCHANGED entries,
         target[r] \in DOMAIN entries' =>
           entries'[target[r]].status # FRAGMENT_TERMINATING
           \/ (target[r] \in DOMAIN entries
               /\ entries'[target[r]].status = entries[target[r]].status),
         Registered(r)' /\ r \notin terminated => target[r] \in DOMAIN entries',
         Preparing(r)' => stage'[r] = 1
  PROVE  HeardOK'
<1>1. \A q \in Requests \ {r} : (Registered(q)' <=> Registered(q))
                               /\ (Preparing(q)' <=> Preparing(q)) /\ pc'[q] = pc[q]
  BY DEF Registered, Preparing, ControlOK
<1>2. DOMAIN entries \subseteq DOMAIN entries'
  BY DEF Kept
<1>3. ASSUME NEW q \in Requests, pc'[q] # "idle", target[q] \in DOMAIN entries',
             entries'[target[q]].status = FRAGMENT_TERMINATING
      PROVE  q \in terminated
  <2>1. pc[q] # "idle"
    BY <1>1, <1>3
  <2>2. target[q] \in DOMAIN entries /\ entries[target[q]].status = FRAGMENT_TERMINATING
    BY <1>3 DEF Kept
  <2>3. QED
    BY <2>1, <2>2 DEF HeardOK
<1>4. ASSUME NEW q \in Requests, Registered(q)', q \notin terminated'
      PROVE  target[q] \in DOMAIN entries'
  <2>1. CASE q = r
    BY <1>4, <2>1
  <2>2. CASE q # r
    BY <1>1, <1>2, <1>4, <2>2 DEF HeardOK
  <2>3. QED
    BY <2>1, <2>2
<1>5. ASSUME NEW q \in Requests, Preparing(q)' PROVE stage'[q] = 1
  BY <1>1, <1>5 DEF HeardOK
<1>6. target' = target /\ terminated' = terminated
  OBVIOUS
<1>7. QED
  BY <1>3, <1>4, <1>5, <1>6 DEF HeardOK

\* No step loses the entry of a goroutine that is deploying.
LEMMA HeardStep == AppTypeOK /\ HeardOK /\ [Next]_vars => HeardOK'
<1> SUFFICES ASSUME EntriesOK, ControlOK, HeardOK, [Next]_vars PROVE HeardOK'
  BY DEF AppTypeOK
<1> USE StatusValues
<1>0. \A r \in Requests : target[r] \in Fragments /\ stage[r] \in Nat
  BY DEF ControlOK
<1>1. ASSUME NEW r \in Requests, Execute(r) PROVE HeardOK'
  <2>1. /\ pc[r] = "idle" /\ pc' = [pc EXCEPT ![r] = "queued"]
        /\ UNCHANGED <<entries, target, stage>>
        /\ terminated' = IF target[r] \in DOMAIN entries
                            /\ entries[target[r]].status = FRAGMENT_TERMINATING
                         THEN terminated \cup {r} ELSE terminated \ {r}
    BY <1>1 DEF Execute, Goto, Unasked
  <2>2. QED
    BY <2>1 DEF HeardOK, Registered, Preparing, ControlOK
<1>2. ASSUME NEW r \in Requests, FindNamespace(r) PROVE HeardOK'
  <2>1. /\ pc[r] = "queued" /\ UNCHANGED <<entries, target, stage, terminated>>
        /\ \E label \in {"create", "build", "aborted"} : pc' = [pc EXCEPT ![r] = label]
    BY <1>2 DEF FindNamespace, Goto, Unasked, historyVars
  <2>2. QED
    BY <2>1 DEF HeardOK, Registered, Preparing, ControlOK
<1>3. ASSUME NEW r \in Requests, CreateNamespace(r) \/ CreateSecret(r) PROVE HeardOK'
  <2>1. /\ UNCHANGED <<target, stage, terminated>>
        /\ \E label \in {"secret", "build", "aborted"} : pc' = [pc EXCEPT ![r] = label]
        /\ UNCHANGED entries \/ SetEntryStatus(target[r], FRAGMENT_ERROR)
    BY <1>3 DEF CreateNamespace, CreateSecret, Goto, Unasked, historyVars
  <2>2. Preparing(r) /\ stage[r] = 1 /\ pc[r] # "idle"
    BY <1>3 DEF CreateNamespace, CreateSecret, HeardOK, Preparing
  <2>3. ~Registered(r)'
    BY <2>1, <2>2 DEF Registered, ControlOK
  <2>4. CASE UNCHANGED entries
    BY <2>1, <2>2, <2>3, <2>4, HeardKept DEF HeardOK
  <2>5. CASE SetEntryStatus(target[r], FRAGMENT_ERROR)
    BY <1>0, <2>1, <2>2, <2>3, <2>5, HeardKept, SetEntryStatusFacts
  <2>6. QED
    BY <2>1, <2>4, <2>5
<1>4. ASSUME NEW r \in Requests, BuildStage(r) PROVE HeardOK'
  <2>1. UNCHANGED <<target, stage, terminated>> /\ pc[r] # "idle"
    BY <1>4 DEF BuildStage, Unasked, historyVars
  <2>2. CASE AddEntry(target[r], stage[r]) /\ Goto(r, "deploy")
    BY <1>0, <2>1, <2>2, AddEntryFacts, HeardKept DEF Goto, Preparing, ControlOK
  <2>3. CASE SetEntryStatus(target[r], FRAGMENT_ERROR)
             /\ \E label \in {"aborted", "failed"} : Goto(r, label)
    BY <1>0, <2>1, <2>3, SetEntryStatusFacts, HeardKept DEF Goto, Registered, Preparing, ControlOK
  <2>4. QED
    BY <1>4, <2>2, <2>3 DEF BuildStage
<1>5. ASSUME NEW r \in Requests, DeployStage(r) PROVE HeardOK'
  <2>1. /\ UNCHANGED <<target, stage, terminated>> /\ pc[r] = "deploy"
        /\ pc' = [pc EXCEPT ![r] = "wait"]
    BY <1>5 DEF DeployStage, Goto, Unasked, historyVars
  <2>2. PICK created \in BOOLEAN : Deployed(target[r], created)
    BY <1>5 DEF DeployStage
  <2>3. Kept(target[r]) /\ DOMAIN entries' = DOMAIN entries
        /\ (target[r] \in DOMAIN entries => entries'[target[r]].status = FRAGMENT_DEPLOYING)
    BY <1>0, <2>2, DeployedFacts
  <2>4. r \notin terminated => target[r] \in DOMAIN entries
    BY <2>1 DEF HeardOK, Registered, Preparing
  <2>5. QED
    BY <2>1, <2>3, <2>4, HeardKept DEF Preparing, ControlOK
<1>6. ASSUME NEW r \in Requests, StagePasses(r) PROVE HeardOK'
  <2>1. /\ UNCHANGED <<entries, target, terminated>> /\ target[r] \in DOMAIN entries
        /\ pc[r] = "wait" /\ \A q \in Requests \ {r} : stage'[q] = stage[q]
        /\ \E label \in {"build", "done"} : pc' = [pc EXCEPT ![r] = label]
    BY <1>6 DEF StagePasses, Goto, Unasked, historyVars, ControlOK
  <2>2. QED
    BY <2>1, HeardKept DEF HeardOK, Preparing, ControlOK
<1>7. ASSUME NEW r \in Requests, StageFails(r) PROVE HeardOK'
  <2>1. /\ UNCHANGED <<entries, target, stage, terminated>> /\ pc[r] = "wait"
        /\ \E label \in {"deploy", "cleanup"} : pc' = [pc EXCEPT ![r] = label]
    BY <1>7 DEF StageFails, Goto, Unasked, historyVars
  <2>2. r \notin terminated => target[r] \in DOMAIN entries
    BY <2>1 DEF HeardOK, Registered, Preparing
  <2>3. QED
    BY <2>1, <2>2, HeardKept DEF Preparing, ControlOK
<1>8. ASSUME NEW r \in Requests, Cleanup(r) PROVE HeardOK'
  <2>1. /\ UNCHANGED <<target, stage, terminated>> /\ pc[r] # "idle"
        /\ pc' = [pc EXCEPT ![r] = "failed"] /\ SetEntryStatus(target[r], FRAGMENT_ERROR)
    BY <1>8 DEF Cleanup, Goto, Unasked
  <2>2. QED
    BY <1>0, <2>1, SetEntryStatusFacts, HeardKept DEF Registered, Preparing, ControlOK
<1>9. ASSUME NEW f \in Fragments, FragmentStatusTerminating(f) PROVE HeardOK'
  <2>1. /\ UNCHANGED <<pc, stage, target>>
        /\ terminated' = terminated \cup {r \in Requests : target[r] = f}
        /\ SetEntryStatus(f, FRAGMENT_TERMINATING)
    BY <1>9 DEF FragmentStatusTerminating, Untouched, goroutineVars
  <2>2. Kept(f) /\ DOMAIN entries' = DOMAIN entries
    BY <2>1, SetEntryStatusFacts
  <2>3. QED
    BY <2>1, <2>2 DEF HeardOK, Registered, Preparing, Kept
<1>10. ASSUME NEW f \in Fragments, UndeployFragment(f) \/ FragmentNamespace(f) PROVE HeardOK'
  BY <1>10 DEF UndeployFragment, FragmentNamespace, Untouched, goroutineVars, historyVars, HeardOK,
               Registered, Preparing
<1>11. ASSUME NEW f \in Fragments, Event(f) PROVE HeardOK'
  <2>1. UNCHANGED <<pc, stage, target, terminated>>
    BY <1>11 DEF Event, goroutineVars, historyVars
  <2>2. /\ Kept(f) /\ DOMAIN entries' = DOMAIN entries
        /\ entries'[f].status # FRAGMENT_TERMINATING
    BY <1>11, EventFacts
  <2>3. QED
    BY <2>1, <2>2 DEF HeardOK, Registered, Preparing, Kept
<1>12. ASSUME NEW f \in Fragments, RemoveEntry(f) PROVE HeardOK'
  <2>1. UNCHANGED <<pc, stage, target, terminated>>
    BY <1>12 DEF RemoveEntry, goroutineVars, historyVars
  <2>2. \A r \in Requests : pc[r] # "idle" /\ target[r] = f => r \in terminated
    BY <1>12, RemoveEntryFacts DEF HeardOK, RemoveEntry
  <2>3. \A r \in Requests : Registered(r) => pc[r] # "idle"
    BY DEF Registered
  <2>4. QED
    BY <1>12, <2>1, <2>2, <2>3, RemoveEntryFacts DEF HeardOK, Registered, Preparing
<1>13. ASSUME NEW u \in Undeploys, UndeployStatus(u) PROVE HeardOK'
  <2>1. /\ UNCHANGED <<pc, stage, target>> /\ SetAppStatus
        /\ terminated' = terminated \cup {r \in Requests : target[r] \in DOMAIN entries}
    BY <1>13 DEF UndeployStatus, Untouched, goroutineVars
  <2>2. QED
    BY <2>1, SetAppStatusFacts DEF HeardOK, Registered, Preparing
<1>14. ASSUME NEW u \in Undeploys, UndeployNamespace(u) \/ ExpireLogs(u) PROVE HeardOK'
  BY <1>14 DEF UndeployNamespace, ExpireLogs, CheckNamespaceToExpireLogs, CallExpire, ExpireTimeout,
               Untouched, goroutineVars, historyVars, HeardOK, Registered, Preparing
<1>15. CASE NamespaceGone \/ RemoveAll
  BY <1>15 DEF NamespaceGone, RemoveAll, Untouched, goroutineVars, historyVars, HeardOK,
                Registered, Preparing
<1>16. CASE Restart
  <2>1. DOMAIN entries' = {} /\ UNCHANGED <<target, stage>>
    BY <1>16 DEF Restart
  <2>2. \A r \in Requests : pc'[r] \in Ended /\ (pc'[r] = "idle" => pc[r] = "idle")
    BY <1>16 DEF Restart, Ended
  <2>3. QED
    BY <2>1, <2>2 DEF HeardOK, Registered, Preparing, Ended
<1>17. CASE UNCHANGED vars
  BY <1>17 DEF vars, goroutineVars, historyVars, HeardOK, Registered, Preparing
<1>18. QED
  BY <1>1, <1>2, <1>3, <1>4, <1>5, <1>6, <1>7, <1>8, <1>9, <1>10, <1>11, <1>12, <1>13,
     <1>14, <1>15, <1>16, <1>17 DEF Next, Goroutine, FragmentRequest

\* The step in which a goroutine fails finds the entry and sets the error.
LEMMA FailureIsRecorded ==
  ASSUME EntriesOK, ControlOK, HeardOK, [Next]_vars, NEW r \in Requests,
         pc[r] \in {"build", "cleanup"}, pc'[r] = "failed", r \notin terminated
  PROVE  target[r] \in DOMAIN entries' /\ entries'[target[r]].status = FRAGMENT_ERROR
<1>0. target[r] \in Fragments
  BY DEF ControlOK
<1>1. CASE BuildStage(r)
  <2>1. SetEntryStatus(target[r], FRAGMENT_ERROR) /\ stage[r] # 1 /\ pc[r] = "build"
    BY <1>1 DEF BuildStage, Goto, ControlOK
  <2>2. target[r] \in DOMAIN entries
    BY <2>1 DEF ControlOK, HeardOK, Registered
  <2>3. QED
    BY <1>0, <2>1, <2>2, SetEntryStatusFacts, StatusValues
<1>2. CASE Cleanup(r)
  <2>1. SetEntryStatus(target[r], FRAGMENT_ERROR) /\ pc[r] = "cleanup"
    BY <1>2 DEF Cleanup
  <2>2. target[r] \in DOMAIN entries
    BY <2>1 DEF HeardOK, Registered, Preparing
  <2>3. QED
    BY <1>0, <2>1, <2>2, SetEntryStatusFacts, StatusValues
<1>3. ASSUME NEW q \in Requests, q # r, Execute(q) \/ Goroutine(q) PROVE FALSE
  BY <1>3 DEF Execute, Goroutine, FindNamespace, CreateNamespace, CreateSecret, BuildStage,
              DeployStage, StagePasses, StageFails, Cleanup, Goto, ControlOK
<1>4. ASSUME Execute(r) \/ FindNamespace(r) \/ CreateNamespace(r) \/ CreateSecret(r)
             \/ DeployStage(r) \/ StagePasses(r) \/ StageFails(r)
      PROVE  FALSE
  BY <1>4 DEF Execute, FindNamespace, CreateNamespace, CreateSecret, DeployStage, StagePasses,
              StageFails
<1>5. ASSUME UNCHANGED pc PROVE FALSE
  BY <1>5
<1>6. ASSUME NEW g \in Fragments, FragmentRequest(g) \/ Event(g) \/ RemoveEntry(g) PROVE FALSE
  BY <1>5, <1>6 DEF FragmentRequest, UndeployFragment, FragmentStatusTerminating,
              FragmentNamespace, Event, RemoveEntry, Untouched, goroutineVars
<1>7. ASSUME NEW u \in Undeploys, UndeployNamespace(u) \/ UndeployStatus(u) \/ ExpireLogs(u)
      PROVE  FALSE
  BY <1>5, <1>7 DEF UndeployNamespace, UndeployStatus, ExpireLogs, CheckNamespaceToExpireLogs,
              CallExpire, ExpireTimeout, Untouched, goroutineVars
<1>8. ~Restart
  BY DEF Restart, Ended
<1>9. ~(NamespaceGone \/ RemoveAll \/ UNCHANGED vars)
  BY <1>5 DEF NamespaceGone, RemoveAll, Untouched, vars, goroutineVars
<1>10. QED
  BY <1>1, <1>2, <1>3, <1>4, <1>6, <1>7, <1>8, <1>9 DEF Next, Goroutine

\* The step in which a request fails after its first stage was built finds the
\* entry of its fragment, however many requests of the fragment run, and
\* leaves it in ERROR, unless the fragment was terminated.
THEOREM FailuresAreHeard == Spec => FailureHeard
<1>1. Init => HeardOK
  BY DEF Init, HeardOK, Registered, Preparing
<1>2. AppTypeOK /\ HeardOK /\ [Next]_vars =>
        \A r \in Requests :
          /\ pc[r] \in {"build", "cleanup"} /\ pc'[r] = "failed"
          /\ r \notin terminated
          => /\ target[r] \in DOMAIN entries'
             /\ entries'[target[r]].status = FRAGMENT_ERROR
  BY FailureIsRecorded DEF AppTypeOK
<1>3. QED
  BY <1>1, <1>2, HeardStep, AppTypes, PTL DEF Spec, FailureHeard

============================================================================
