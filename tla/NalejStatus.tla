---------------------------- MODULE NalejStatus ----------------------------
(***************************************************************************)
(* The status values of internal/entities/entities.go and the three ways   *)
(* the deployment manager computes one status from another: the tables     *)
(* between service and fragment statuses, the worst status of a collection *)
(* and the translation of the conditions of a Kubernetes deployment.       *)
(*                                                                         *)
(* The statuses are the iota values of the code: their order matters,      *)
(* because the worst status of a collection is computed with <.            *)
(***************************************************************************)
EXTENDS Naturals, FiniteSets, Sequences

NALEJ_SERVICE_SCHEDULED   == 0
NALEJ_SERVICE_WAITING     == 1
NALEJ_SERVICE_DEPLOYING   == 2
NALEJ_SERVICE_RUNNING     == 3
NALEJ_SERVICE_ERROR       == 4
NALEJ_SERVICE_TERMINATING == 5

NalejServiceStatus == NALEJ_SERVICE_SCHEDULED .. NALEJ_SERVICE_TERMINATING

FRAGMENT_WAITING     == 0
FRAGMENT_DEPLOYING   == 1
FRAGMENT_DONE        == 2
FRAGMENT_ERROR       == 3
FRAGMENT_RETRYING    == 4
FRAGMENT_TERMINATING == 5

FragmentStatus == FRAGMENT_WAITING .. FRAGMENT_TERMINATING

ServicesToFragmentStatus ==
  [s \in NalejServiceStatus |->
     CASE s = NALEJ_SERVICE_SCHEDULED   -> FRAGMENT_WAITING
       [] s = NALEJ_SERVICE_WAITING     -> FRAGMENT_WAITING
       [] s = NALEJ_SERVICE_DEPLOYING   -> FRAGMENT_DEPLOYING
       [] s = NALEJ_SERVICE_RUNNING     -> FRAGMENT_DONE
       [] s = NALEJ_SERVICE_ERROR       -> FRAGMENT_ERROR
       [] s = NALEJ_SERVICE_TERMINATING -> FRAGMENT_TERMINATING]

FragmentStatusToNalejServiceStatus ==
  [f \in FragmentStatus |->
     CASE f = FRAGMENT_WAITING     -> NALEJ_SERVICE_WAITING
       [] f = FRAGMENT_TERMINATING -> NALEJ_SERVICE_TERMINATING
       [] f = FRAGMENT_RETRYING    -> NALEJ_SERVICE_DEPLOYING
       [] f = FRAGMENT_DEPLOYING   -> NALEJ_SERVICE_DEPLOYING
       [] f = FRAGMENT_ERROR       -> NALEJ_SERVICE_ERROR
       [] f = FRAGMENT_DONE        -> NALEJ_SERVICE_RUNNING]

----------------------------------------------------------------------------
(***************************************************************************)
(* The worst status of a set of statuses: ERROR wins, otherwise the least  *)
(* one, with RUNNING as the starting value.  SetResourceStatus computes it *)
(* twice, over the resources of a service and over the services of a       *)
(* fragment.  TERMINATING is above RUNNING, so it never wins.              *)
(***************************************************************************)
WorstStatus(S) ==
  LET worse == {s \in S : s < NALEJ_SERVICE_RUNNING} IN
  CASE NALEJ_SERVICE_ERROR \in S -> NALEJ_SERVICE_ERROR
    [] NALEJ_SERVICE_ERROR \notin S /\ worse = {} -> NALEJ_SERVICE_RUNNING
    [] OTHER -> CHOOSE s \in worse : \A t \in worse : s <= t

\* A mutation of WorstStatusLoop: an ERROR is compared like the others.
WorstStatusLoopWithoutError(seq) ==
  LET from[i \in 1 .. Len(seq) + 1, final \in NalejServiceStatus] ==
        IF i > Len(seq) THEN final
        ELSE from[i + 1, IF seq[i] < final THEN seq[i] ELSE final]
  IN from[1, NALEJ_SERVICE_RUNNING]

(***************************************************************************)
(* The loop itself, over the statuses in the order in which the Go map     *)
(* yields them: it stops at the first ERROR.                               *)
(***************************************************************************)
WorstStatusLoop(seq) ==
  LET from[i \in 1 .. Len(seq) + 1, final \in NalejServiceStatus] ==
        IF i > Len(seq) THEN final
        ELSE IF seq[i] = NALEJ_SERVICE_ERROR THEN NALEJ_SERVICE_ERROR
        ELSE from[i + 1, IF seq[i] < final THEN seq[i] ELSE final]
  IN from[1, NALEJ_SERVICE_RUNNING]

----------------------------------------------------------------------------
(***************************************************************************)
(* A deployment, as OnDeployment looks at it: its replica counters and the *)
(* types of its conditions.  The code counts the conditions of each type   *)
(* and never reads condition.Status.                                       *)
(***************************************************************************)
ConditionTypes == {"Available", "Progressing", "ReplicaFailure"}

CountOf(conditions, type) ==
  Cardinality({i \in DOMAIN conditions : conditions[i] = type})

KubernetesDeploymentStatusTranslation(conditions) ==
  LET running     == CountOf(conditions, "Available")
      progressing == CountOf(conditions, "Progressing")
      error       == Len(conditions) - (running + progressing)
  IN CASE error > 0 -> NALEJ_SERVICE_ERROR
       [] error = 0 /\ Len(conditions) = 0 -> NALEJ_SERVICE_DEPLOYING
       [] error = 0 /\ Len(conditions) > 0 /\ running = Len(conditions)
            -> NALEJ_SERVICE_RUNNING
       [] error = 0 /\ running < Len(conditions) /\ progressing > 0
            -> NALEJ_SERVICE_DEPLOYING
       [] OTHER -> NALEJ_SERVICE_WAITING

\* What OnDeployment tells the registry about a deployment.
DeploymentStatus(conditions, unavailable, available) ==
  IF unavailable = 0 /\ available > 0
  THEN NALEJ_SERVICE_RUNNING
  ELSE KubernetesDeploymentStatusTranslation(conditions)

\* What OnDeployment can report at all, whatever the deployment looks like:
\* the WAITING branch of the translation is never taken.
DeploymentStatuses ==
  {NALEJ_SERVICE_DEPLOYING, NALEJ_SERVICE_RUNNING, NALEJ_SERVICE_ERROR}
============================================================================
