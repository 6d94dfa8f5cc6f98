------------------------- MODULE MCStageDeployment -------------------------
(***************************************************************************)
(* Two stages of one service each: a load balancer and a volume claim, and *)
(* then a plain Kubernetes service.                                        *)
(***************************************************************************)
EXTENDS StageDeployment

CONSTANTS s1, s2,     \* the services of stages 1 and 2
          lb1, pvc1,  \* objects of the first
          svc2        \* object of the second

MCStageOf == [s \in ServiceInstances |-> IF s = s2 THEN 2 ELSE 1]

MCServiceOf == [o \in Objects |-> IF o = svc2 THEN s2 ELSE s1]

MCKindOf ==
  [o \in Objects |-> CASE o = lb1 -> "LoadBalancer"
                       [] o = pvc1 -> "Storage"
                       [] o = svc2 -> "Service"]
============================================================================
