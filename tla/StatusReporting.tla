-------------------------- MODULE StatusReporting --------------------------
(***************************************************************************)
(* The MonitorHelper (pkg/monitor/monitor_helper.go) that tells conductor  *)
(* about the registry, running beside the registry's other callers.        *)
(*                                                                         *)
(* A round of UpdateStatus is not atomic.  GetPendingNotifications takes a *)
(* snapshot under a read lock; the removal of the terminating entries      *)
(* takes the write lock once per entry after that lock is released; the    *)
(* services are read through live pointers when their message is built,    *)
(* the fragment status comes from the snapshot; and the flags are cleared  *)
(* at the end for every entry of the registry.  Between any two of these   *)
(* steps the manager, the event dispatcher and the undeploy requests may   *)
(* change the registry.                                                    *)
(*                                                                         *)
(* A message is delivered or not: every error is swallowed, and an         *)
(* Unauthenticated one is retried once after a new login.                  *)
(***************************************************************************)
EXTENDS MonitoredInstances

CONSTANTS Lossy,   \* whether messages to conductor may be lost
          Nobody   \* no fragment

ASSUME NobodyAssumption == Lossy \in BOOLEAN /\ Nobody \notin Fragments

VARIABLES
  phase,          \* where the helper is in UpdateStatus
  toRemove,       \* terminating entries still to be removed
  pending,        \* the snapshot: fragment -> its status and its services
  current,        \* the fragment whose services were sent, not its status
  detached,       \* statuses of snapshot entries that were removed
  knownServices,  \* what conductor knows: fragment and service -> status
  knownFragments, \* what conductor knows: fragment -> status
  racedServices,  \* history: services changed during a round, or not delivered
  racedFragments  \* history: fragments whose status is in no message for the
                  \* same reasons, because an event changed it unflagged or
                  \* because they had no services to send it with

helperVars == <<phase, toRemove, pending, current, detached>>
conductorVars == <<knownServices, knownFragments>>
historyVars == <<racedServices, racedFragments>>
vars == <<monitoredEntries, helperVars, conductorVars, historyVars>>

----------------------------------------------------------------------------
\* The services of an entry that GetPendingNotifications collects.
Unnotified(entry) ==
  {s \in DOMAIN entry.services : entry.newStatus \/ entry.services[s].newStatus}

Flagged(entry) ==
  entry.newStatus \/ \E s \in DOMAIN entry.services : entry.services[s].newStatus

\* The status a pointer of the snapshot leads to.
PointedStatus(f, s) ==
  IF f \in DOMAIN detached THEN detached[f][s]
  ELSE monitoredEntries[f].services[s].status

\* The helper after the last removal, with a snapshot to send or without.
AfterRemovals(notifications) ==
  IF DOMAIN notifications = {} THEN "idle" ELSE "send"

\* Services and fragments a step of a caller gives a status they had not.
Changed(f, s) ==
  MonitoredService(f, s) =>
    monitoredEntries'[f].services[s].status # monitoredEntries[f].services[s].status

ChangedServices ==
  UNION {{<<f, s>> : s \in {t \in DOMAIN monitoredEntries'[f].services : Changed(f, t)}} :
           f \in DOMAIN monitoredEntries'}

ChangedFragments ==
  {f \in DOMAIN monitoredEntries' :
     Monitored(f) => monitoredEntries'[f].status # monitoredEntries[f].status}

----------------------------------------------------------------------------
ReportInit ==
  /\ Init
  /\ phase = "idle" /\ toRemove = {} /\ pending = EmptyMap
  /\ current = Nobody /\ detached = EmptyMap
  /\ knownServices = EmptyMap /\ knownFragments = EmptyMap
  /\ racedServices = {} /\ racedFragments = {}

\* Fragments that a step gives another status with no flag to tell.
UnflaggedFragments ==
  {f \in ChangedFragments : ~Flagged(monitoredEntries'[f])}

\* A call of the manager, of the dispatcher or of an undeploy request.
Call ==
  /\ \/ /\ (\E f \in Fragments : Deploy(f)) \/ (\E app \in Apps : Undeploy(app))
        /\ racedFragments' = racedFragments \cup (IF phase = "idle" THEN {} ELSE ChangedFragments)
     \/ /\ \E uid \in Uids : Event(uid)
        /\ racedFragments' = racedFragments \cup
             (IF phase = "idle" THEN UnflaggedFragments ELSE ChangedFragments)
  /\ racedServices' = racedServices \cup (IF phase = "idle" THEN {} ELSE ChangedServices)
  /\ UNCHANGED <<helperVars, conductorVars>>

\* Flagged fragments without services, which no snapshot holds: their flag is
\* cleared after the messages about others, or they leave the registry.
LeftOut(collected) ==
  {f \in DOMAIN monitoredEntries :
     /\ DOMAIN monitoredEntries[f].services = {} /\ monitoredEntries[f].newStatus
     /\ collected # {} \/ monitoredEntries[f].status = FRAGMENT_TERMINATING}

\* A mutation of GetPendingNotifications: only what is flagged is removed.
GetPendingNotificationsOfFlagged ==
  LET collected == {f \in DOMAIN monitoredEntries :
                      Unnotified(monitoredEntries[f]) # {}}
      terminating == {f \in collected :
                        monitoredEntries[f].status = FRAGMENT_TERMINATING}
  IN /\ phase = "idle"
     /\ toRemove' = terminating
     /\ pending' = [f \in collected |->
                      [status |-> monitoredEntries[f].status,
                       services |-> Unnotified(monitoredEntries[f])]]
     /\ phase' = IF terminating # {} THEN "remove" ELSE AfterRemovals(pending')
     /\ racedFragments' = (racedFragments \ collected) \cup LeftOut(collected)
     /\ UNCHANGED <<monitoredEntries, current, detached, conductorVars, racedServices>>

\* A mutation of GetPendingNotifications: what is removed is not reported.
GetPendingNotificationsOfRemaining ==
  LET terminating == {f \in DOMAIN monitoredEntries :
                        monitoredEntries[f].status = FRAGMENT_TERMINATING}
      collected == {f \in DOMAIN monitoredEntries \ terminating :
                      Unnotified(monitoredEntries[f]) # {}}
  IN /\ phase = "idle"
     /\ toRemove' = terminating
     /\ pending' = [f \in collected |->
                      [status |-> monitoredEntries[f].status,
                       services |-> Unnotified(monitoredEntries[f])]]
     /\ phase' = IF terminating # {} THEN "remove" ELSE AfterRemovals(pending')
     /\ racedFragments' = (racedFragments \ collected) \cup LeftOut(collected)
     /\ UNCHANGED <<monitoredEntries, current, detached, conductorVars, racedServices>>

\* The tick of Run: GetPendingNotifications up to the release of its lock.
GetPendingNotifications ==
  LET terminating == {f \in DOMAIN monitoredEntries :
                        monitoredEntries[f].status = FRAGMENT_TERMINATING}
      collected == {f \in DOMAIN monitoredEntries :
                      Unnotified(monitoredEntries[f]) # {}}
  IN /\ phase = "idle"
     /\ toRemove' = terminating
     /\ pending' = [f \in collected |->
                      [status |-> monitoredEntries[f].status,
                       services |-> Unnotified(monitoredEntries[f])]]
     /\ phase' = IF terminating # {} THEN "remove" ELSE AfterRemovals(pending')
     /\ racedFragments' = (racedFragments \ collected) \cup LeftOut(collected)
     /\ UNCHANGED <<monitoredEntries, current, detached, conductorVars, racedServices>>

\* One of the deferred calls of RemoveEntry.  The pointers of the snapshot
\* keep the entry alive, but nobody else can reach it any more.
RemoveTerminating(f) ==
  /\ phase = "remove" /\ f \in toRemove
  /\ RemoveEntry(f)
  /\ toRemove' = toRemove \ {f}
  /\ detached' = IF f \in DOMAIN pending
                 THEN Put(detached, f, [s \in pending[f].services |->
                                          monitoredEntries[f].services[s].status])
                 ELSE detached
  /\ phase' = IF toRemove' = {} THEN AfterRemovals(pending) ELSE phase
  /\ racedServices' = {x \in racedServices : x[1] # f}
  /\ racedFragments' = racedFragments \ ({f} \cap DOMAIN pending)
  /\ UNCHANGED <<pending, current, conductorVars>>

\* sendUpdateService for one fragment of the snapshot.
SendServices(f, delivered) ==
  LET subjects == {<<f, s>> : s \in pending[f].services} IN
  /\ phase = "send" /\ current = Nobody /\ f \in DOMAIN pending
  /\ current' = f
  /\ IF delivered
     THEN /\ knownServices' = [x \in DOMAIN knownServices \cup subjects |->
                                 IF x \in subjects THEN PointedStatus(f, x[2])
                                 ELSE knownServices[x]]
          /\ racedServices' = IF f \in DOMAIN detached THEN racedServices
                              ELSE racedServices \ subjects
     ELSE /\ racedServices' = racedServices \cup subjects
          /\ UNCHANGED knownServices
  /\ UNCHANGED <<monitoredEntries, phase, toRemove, pending, detached,
                 knownFragments, racedFragments>>

\* sendFragmentStatus for the same fragment.
SendFragment(delivered) ==
  /\ phase = "send" /\ current # Nobody
  /\ IF delivered
     THEN /\ knownFragments' = Put(knownFragments, current, pending[current].status)
          /\ UNCHANGED racedFragments
     ELSE /\ racedFragments' = racedFragments \cup {current}
          /\ UNCHANGED knownFragments
  /\ pending' = Delete(pending, current)
  /\ current' = Nobody
  /\ phase' = IF DOMAIN pending' = {} THEN "reset" ELSE phase
  /\ UNCHANGED <<monitoredEntries, toRemove, detached, knownServices, racedServices>>

\* ResetServicesUnnotifiedStatus, and the round is over.
Reset ==
  /\ phase = "reset"
  /\ ResetServicesUnnotifiedStatus
  /\ phase' = "idle"
  /\ detached' = EmptyMap
  /\ UNCHANGED <<toRemove, pending, current, conductorVars, historyVars>>

Deliveries == IF Lossy THEN BOOLEAN ELSE {TRUE}

UpdateStatus ==
  \/ GetPendingNotifications
  \/ \E f \in Fragments : RemoveTerminating(f)
  \/ \E f \in Fragments, delivered \in Deliveries : SendServices(f, delivered)
  \/ \E delivered \in Deliveries : SendFragment(delivered)
  \/ Reset

ReportNext == Call \/ UpdateStatus

\* The ticks keep coming and every message is answered or times out.
ReportFairness == WF_vars(UpdateStatus)

ReportSpec == ReportInit /\ [][ReportNext]_vars /\ ReportFairness

----------------------------------------------------------------------------
(***************************************************************************)
(* Properties.                                                             *)
(***************************************************************************)

ServiceFlagged(f, s) ==
  monitoredEntries[f].newStatus \/ monitoredEntries[f].services[s].newStatus

ServiceKnown(f, s) ==
  /\ <<f, s>> \in DOMAIN knownServices
  /\ knownServices[<<f, s>>] = monitoredEntries[f].services[s].status

\* Between two rounds, a service whose status is not flagged for notification
\* is known to conductor with the status it has, unless the status changed
\* while a round was under way or the message about it was lost: these are
\* the only two ways UpdateStatus loses an update of a service.
OnlyRacesLoseUpdates ==
  phase = "idle" =>
    \A f \in DOMAIN monitoredEntries : \A s \in DOMAIN monitoredEntries[f].services :
      \/ ServiceFlagged(f, s)
      \/ ServiceKnown(f, s)
      \/ <<f, s>> \in racedServices

\* Between two rounds, a fragment with nothing flagged is known to conductor
\* with the status it has, unless the status changed during a round, its
\* message was lost, SetResourceStatus set it for an event that changed no
\* service, or the fragment had no services when others were reported: what
\* else the manager and the undeploy requests set is never hidden.
OnlyEventsHideFragments ==
  phase = "idle" =>
    \A f \in DOMAIN monitoredEntries \ racedFragments :
      \/ Flagged(monitoredEntries[f])
      \/ /\ f \in DOMAIN knownFragments
         /\ knownFragments[f] = monitoredEntries[f].status

\* Between two rounds, what conductor last heard of a fragment that the
\* registry no longer holds is that it terminates, unless that message was
\* lost, or the fragment was TERMINATING with nothing flagged for the reasons
\* above.  The entry leaves before any message about it is built, and whatever
\* a call made of it since the snapshot leaves with it.
GoneWasTold ==
  phase = "idle" =>
    \A f \in DOMAIN knownFragments \ (DOMAIN monitoredEntries \cup racedFragments) :
      knownFragments[f] = FRAGMENT_TERMINATING

\* A terminating fragment is not kept: UpdateStatus removes its entry, unless
\* a call gives it another status first.
TerminatingLeaves ==
  \A f \in Fragments :
    (Monitored(f) /\ monitoredEntries[f].status = FRAGMENT_TERMINATING)
      ~> (Monitored(f) => monitoredEntries[f].status # FRAGMENT_TERMINATING)

============================================================================
