------------------------- MODULE MCAppUndeployment -------------------------
(***************************************************************************)
(* Two fragments of one application, which are interchangeable, and two    *)
(* requests, for one fragment or for both.                                 *)
(***************************************************************************)
EXTENDS AppUndeployment, TLC

CONSTANTS f1, f2   \* the fragments
CONSTANTS r1, r2   \* the deployment requests
CONSTANTS u1, u2   \* the Undeploy requests

Symmetry == Permutations(Fragments) \cup Permutations(Requests) \cup Permutations(Undeploys)
============================================================================
