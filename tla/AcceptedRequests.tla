-------------------------- MODULE AcceptedRequests --------------------------
(***************************************************************************)
(* What Handler.Execute promises to conductor when it answers DEPLOYING:   *)
(* the fragment will be processed.  Requests are processed in the order in *)
(* which they were accepted, each of them once.                            *)
(***************************************************************************)
EXTENDS Naturals, Sequences

CONSTANT Requests    \* the deployment fragment requests conductor may send

VARIABLES accepted,  \* every request accepted so far, in order
          started    \* every request given to processRequest so far, in order

requestVars == <<accepted, started>>

AcceptedInit == accepted = << >> /\ started = << >>

Accept(r) == accepted' = Append(accepted, r) /\ UNCHANGED started

Start ==
  /\ Len(started) < Len(accepted)
  /\ started' = Append(started, accepted[Len(started) + 1])
  /\ UNCHANGED accepted

AcceptedNext == (\E r \in Requests : Accept(r)) \/ Start

AcceptedSafety == AcceptedInit /\ [][AcceptedNext]_requestVars

AcceptedSpec == AcceptedSafety /\ WF_requestVars(Start)
============================================================================
