------------------------- MODULE MCStatusReporting -------------------------
(***************************************************************************)
(* One application instance whose fragments, services and objects are      *)
(* chosen by the configurations; every object belongs to the first service *)
(* of the first fragment.                                                  *)
(***************************************************************************)
EXTENDS StatusReporting

CONSTANTS f1, s1, app, dep1

MCAppOf == [f \in Fragments |-> app]

MCFragmentLabel == [uid \in Uids |-> f1]

MCServiceLabel == [uid \in Uids |-> s1]
============================================================================
