------------------------ MODULE MCNetworkDecorators ------------------------
(***************************************************************************)
(* Two fragments whose rules open different ports; the service of the      *)
(* first exposes ports, that of the second does not.                       *)
(***************************************************************************)
EXTENDS NetworkDecorators

CONSTANTS f1, f2

MCPortOf == [f \in Fragments |-> IF f = f1 THEN 80 ELSE 81]
============================================================================
