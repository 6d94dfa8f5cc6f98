--------------------------- MODULE MCEventMetrics ---------------------------
(***************************************************************************)
(* A deployment and a service with the same name, as every service of an   *)
(* application has them, and a Kubernetes Event about the deployment.      *)
(***************************************************************************)
EXTENDS EventMetrics

CONSTANTS dep, svc, ev   \* the objects
CONSTANTS key, evKey     \* their keys

MCKindOf == [o \in Objects |-> CASE o = dep -> "Deployment"
                                 [] o = svc -> "Service"
                                 [] o = ev -> "Event"]

MCKeyOf == [o \in Objects |-> IF o = ev THEN evKey ELSE key]

MCRefOf == [o \in Objects |-> dep]
============================================================================
