-------------------------- MODULE MCRequestsQueue --------------------------
(***************************************************************************)
(* Two valid requests, each of which conductor may send again, and one     *)
(* that is not valid.                                                      *)
(***************************************************************************)
EXTENDS RequestsQueue

CONSTANTS valid1, valid2, broken
============================================================================
