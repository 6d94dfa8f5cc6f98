------------------------ MODULE MCAuthenticatedCalls ------------------------
(***************************************************************************)
(* A call of RegisterNetworkEntry and one of AuthorizeZTConnection.        *)
(***************************************************************************)
EXTENDS AuthenticatedCalls

CONSTANTS register, authorize   \* the calls
============================================================================
