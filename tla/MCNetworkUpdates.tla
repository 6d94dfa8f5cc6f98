-------------------------- MODULE MCNetworkUpdates --------------------------
(***************************************************************************)
(* A service with two pods and a proxy, a pod of another application that  *)
(* has not started, and one request of each type.                          *)
(***************************************************************************)
EXTENDS NetworkUpdates

CONSTANTS join, leave, route   \* the requests
CONSTANTS p1, p2, proxy, other \* the pods
CONSTANTS x, y, z              \* the addresses

MCTypeOf ==
  [r \in Requests |-> CASE r = join -> "join" [] r = leave -> "leave" [] r = route -> "route"]

MCInboundOf == [r \in Requests |-> FALSE]

MCInitialIP ==
  [p \in Pods |-> CASE p = p1 -> x [] p = p2 -> y [] p = proxy -> z [] p = other -> NoIP]
============================================================================
