----------------------- MODULE MCMonitoredInstances -----------------------
(***************************************************************************)
(* One fragment with two services: the first owns two deployments and an   *)
(* ingress that announces an endpoint, the second owns a deployment.       *)
(***************************************************************************)
EXTENDS MonitoredInstances, SequencesExt

CONSTANTS f1, s1, s2, app, dep1, ing1, dep2, dep3

MCAppOf == [f \in {f1} |-> app]

MCFragmentLabel == [uid \in {dep1, ing1, dep2, dep3} |-> f1]

MCServiceLabel == [uid \in {dep1, ing1, dep2, dep3} |-> IF uid = dep2 THEN s2 ELSE s1]

----------------------------------------------------------------------------
\* The statuses of a map's values, in each order in which Go may range over it.
StatusOrders(m) ==
  {[i \in 1 .. Len(keys) |-> m[keys[i]]] : keys \in SetToSeqs(DOMAIN m)}

(***************************************************************************)
(* The loops of SetResourceStatus stop early at an ERROR and run in the    *)
(* random order of a Go map, and yet, over the resources of each service   *)
(* and over the services of each fragment, every order gives the one worst *)
(* status that the registry's actions use.                                 *)
(***************************************************************************)
WorstStatusIgnoresOrder ==
  \A f \in DOMAIN monitoredEntries :
    LET services == monitoredEntries[f].services
        statuses == [s \in DOMAIN services |-> services[s].status]
        maps     == {statuses} \cup {services[s].resources : s \in DOMAIN services}
    IN \A m \in maps : \A order \in StatusOrders(m) :
         WorstStatusLoop(order) = WorstStatus(ValuesOf(m))
============================================================================
