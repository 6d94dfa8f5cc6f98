------------------------- MODULE AuthenticatedCalls -------------------------
(***************************************************************************)
(* The calls to the cluster API of the management cluster, and the login   *)
(* helper they share (login-helper/login.go, credentials.go): every call   *)
(* of the network manager (network/manager.go), of the application network *)
(* proxy (proxy/manager.go) and of the monitor helper                      *)
(* (monitor/monitor_helper.go) reads the token, makes the call and, when   *)
(* the answer is Unauthenticated, logs in again and repeats the call once. *)
(*                                                                         *)
(* Login holds a mutex; GetContext does not, and reads the credentials     *)
(* while another goroutine may be replacing them: it gets the old ones or  *)
(* the new ones.                                                           *)
(*                                                                         *)
(* External: the management cluster.  Tokens are numbered in the order in  *)
(* which they are issued and expire in that order.  A call that is not     *)
(* refused may fail before or after it has been processed.                 *)
(***************************************************************************)
EXTENDS Integers, FiniteSets

CONSTANTS
  Calls,           \* calls, each made by a goroutine of its own
  Hiding,          \* calls of AuthorizeZTConnection
  MaxAuthRetries,  \* logins of one RerunAuthentication (10 in the code)
  MaxExpirations,  \* bound: times that tokens expire
  Nobody           \* holds the mutex

ASSUME CallsAssumption ==
  /\ Hiding \subseteq Calls
  /\ MaxAuthRetries \in Nat \ {0} /\ MaxExpirations \in Nat
  /\ Nobody \notin Calls

VARIABLES
  issued,          \* the token issued last
  expired,         \* tokens up to this one have expired
  expirations,     \* how often tokens have expired
  credentials,     \* the token of the login helper
  mu,              \* who holds its mutex
  pc,              \* where a call is
  ctx,             \* the token of its context
  retries,         \* its logins in RerunAuthentication
  refused,         \* the token it was refused with
  renewed,         \* its RerunAuthentication was successful
  result,          \* "ok", "error" or "unauthenticated", as the caller hears
  processed        \* history: how often the cluster has processed it

serverVars == <<issued, expired, expirations>>
callVars == <<pc, ctx, retries, refused, renewed, result>>
vars == <<serverVars, credentials, mu, callVars, processed>>

----------------------------------------------------------------------------
\* Time passes: a token is not accepted any more.
Expire ==
  /\ expirations < MaxExpirations /\ expirations' = expirations + 1
  /\ expired' \in (expired + 1) .. issued
  /\ UNCHANGED <<issued, credentials, mu, callVars, processed>>

Valid(token) == token > expired

Goto(c, label) == pc' = [pc EXCEPT ![c] = label]

\* A mutation of GetContext: the context of the first call is used again.
GetContextAgain(c) ==
  /\ pc[c] \in {"context", "context2"}
  /\ ctx' = IF pc[c] = "context" THEN [ctx EXCEPT ![c] = credentials] ELSE ctx
  /\ Goto(c, IF pc[c] = "context" THEN "call" ELSE "call2")
  /\ UNCHANGED <<serverVars, credentials, mu, retries, refused, renewed, result, processed>>

\* GetContext, before the first call and before the second.
GetContext(c) ==
  /\ pc[c] \in {"context", "context2"}
  /\ ctx' = [ctx EXCEPT ![c] = credentials]
  /\ Goto(c, IF pc[c] = "context" THEN "call" ELSE "call2")
  /\ UNCHANGED <<serverVars, credentials, mu, retries, refused, renewed, result, processed>>

Process(c) == processed' = [processed EXCEPT ![c] = @ + 1]

End(c, r) == Goto(c, "done") /\ result' = [result EXCEPT ![c] = r]

\* The call is processed and its answer arrives.
CallSucceeds(c) ==
  /\ pc[c] \in {"call", "call2"} /\ Valid(ctx[c])
  /\ Process(c)
  /\ End(c, "ok")
  /\ UNCHANGED <<serverVars, credentials, mu, ctx, retries, refused, renewed>>

\* A mutation of CallFails: the call is repeated after any error.
CallFailsRepeating(c) ==
  /\ pc[c] \in {"call", "call2"}
  /\ (Valid(ctx[c]) /\ Process(c)) \/ UNCHANGED processed
  /\ IF pc[c] = "call" THEN Goto(c, "context2") /\ UNCHANGED result ELSE End(c, "error")
  /\ UNCHANGED <<serverVars, credentials, mu, ctx, retries, refused, renewed>>

\* An error other than Unauthenticated, whether or not the cluster has
\* processed the call.  The call is not repeated.  The caller returns the error
\* (the monitor helper logs it), except that AuthorizeZTConnection only logs
\* what is not Unauthenticated and returns success.
CallFails(c) ==
  /\ pc[c] \in {"call", "call2"}
  /\ (Valid(ctx[c]) /\ Process(c)) \/ UNCHANGED processed
  /\ End(c, IF c \in Hiding /\ pc[c] = "call" THEN "ok" ELSE "error")
  /\ UNCHANGED <<serverVars, credentials, mu, ctx, retries, refused, renewed>>

\* Unauthenticated: the first time RerunAuthentication is called.
CallRefused(c) ==
  /\ pc[c] \in {"call", "call2"} /\ ~Valid(ctx[c])
  /\ IF pc[c] = "call"
     THEN /\ Goto(c, "rerun")
          /\ retries' = [retries EXCEPT ![c] = 0]
          /\ refused' = [refused EXCEPT ![c] = ctx[c]]
          /\ UNCHANGED result
     ELSE End(c, "unauthenticated") /\ UNCHANGED <<retries, refused>>
  /\ UNCHANGED <<serverVars, credentials, mu, ctx, renewed, processed>>

----------------------------------------------------------------------------
(***************************************************************************)
(* RerunAuthentication: Login until it succeeds, at most MaxAuthRetries    *)
(* times.  Its error is logged, and the call is repeated in any case.      *)
(***************************************************************************)
\* A mutation of LoginStarts: one login too many.
LoginStartsOnceMore(c) ==
  /\ pc[c] = "rerun" /\ retries[c] <= MaxAuthRetries /\ mu = Nobody
  /\ mu' = c
  /\ Goto(c, "login")
  /\ UNCHANGED <<serverVars, credentials, ctx, retries, refused, renewed, result, processed>>

LoginStarts(c) ==
  /\ pc[c] = "rerun" /\ retries[c] < MaxAuthRetries /\ mu = Nobody
  /\ mu' = c
  /\ Goto(c, "login")
  /\ UNCHANGED <<serverVars, credentials, ctx, retries, refused, renewed, result, processed>>

LoginEnds(c, success) ==
  /\ retries' = [retries EXCEPT ![c] = @ + 1]
  /\ renewed' = [renewed EXCEPT ![c] = success]
  /\ Goto(c, IF success THEN "context2" ELSE "rerun")

\* LoginWithBasicCredentials answers with a token, and the credentials are
\* replaced; then they are stored on disk, which may fail, and Login with it.
LoginSucceeds(c) ==
  /\ pc[c] = "login"
  /\ issued' = issued + 1
  /\ credentials' = issued + 1
  /\ \E stored \in BOOLEAN : LoginEnds(c, stored)
  /\ mu' = Nobody
  /\ UNCHANGED <<expired, expirations, ctx, refused, result, processed>>

\* A mutation of LoginFails: the mutex is not released.
LoginFailsLocked(c) ==
  /\ pc[c] = "login"
  /\ LoginEnds(c, FALSE)
  /\ UNCHANGED <<serverVars, credentials, mu, ctx, refused, result, processed>>

\* No connection, or the login is refused or lost.
LoginFails(c) ==
  /\ pc[c] = "login"
  /\ LoginEnds(c, FALSE)
  /\ mu' = Nobody
  /\ UNCHANGED <<serverVars, credentials, ctx, refused, result, processed>>

RerunGivesUp(c) ==
  /\ pc[c] = "rerun" /\ retries[c] = MaxAuthRetries
  /\ Goto(c, "context2")
  /\ UNCHANGED <<serverVars, credentials, mu, ctx, retries, refused, renewed, result, processed>>

----------------------------------------------------------------------------
\* The service has logged in once before it accepts calls.
Init ==
  /\ issued = 1 /\ expired = 0 /\ expirations = 0
  /\ credentials = 1 /\ mu = Nobody
  /\ pc = [c \in Calls |-> "context"] /\ ctx = [c \in Calls |-> 0]
  /\ retries = [c \in Calls |-> 0] /\ refused = [c \in Calls |-> 0]
  /\ renewed = [c \in Calls |-> FALSE]
  /\ result = [c \in Calls |-> "none"] /\ processed = [c \in Calls |-> 0]

Caller(c) ==
  \/ GetContext(c) \/ CallSucceeds(c) \/ CallFails(c) \/ CallRefused(c)
  \/ LoginStarts(c) \/ LoginSucceeds(c) \/ LoginFails(c) \/ RerunGivesUp(c)

Next == Expire \/ \E c \in Calls : Caller(c)

\* Calls have deadlines, and a mutex that is free is given to somebody.
Spec == Init /\ [][Next]_vars /\ WF_vars(\E c \in Calls : Caller(c))

----------------------------------------------------------------------------
(***************************************************************************)
(* Properties.                                                             *)
(***************************************************************************)

\* The helper's token is the last one issued, a token that expired had been
\* issued, the mutex is held by the one that logs in, and logins are bounded.
TypeOK ==
  /\ issued \in Nat \ {0} /\ expired \in 0 .. issued /\ credentials = issued
  /\ expirations \in 0 .. MaxExpirations
  /\ mu \in Calls \cup {Nobody}
  /\ \A c \in Calls :
       /\ pc[c] \in {"context", "call", "rerun", "login", "context2", "call2", "done"}
       /\ ctx[c] \in 0 .. issued /\ refused[c] \in 0 .. issued
       /\ retries[c] \in 0 .. MaxAuthRetries
       /\ renewed[c] \in BOOLEAN
       /\ result[c] \in {"none", "ok", "error", "unauthenticated"}
       /\ processed[c] \in Nat
       /\ pc[c] = "login" <=> mu = c

\* A call is never processed twice: it is repeated only after it was refused,
\* so a lost answer, a slow login and other callers that log in at the same
\* time never register an entry, a member or a status twice.  And a caller that
\* hears of success has been served; only AuthorizeZTConnection hides an error.
ServedOnce ==
  \A c \in Calls :
    /\ processed[c] <= 1
    /\ result[c] = "ok" => processed[c] = 1 \/ c \in Hiding

\* A call that is refused twice had failed to log in again, or its new token
\* expired before it was used: when logins of several callers interleave, a
\* successful one is never followed by a context with the refused token.
RefusedTwiceOnlyIfExpired ==
  \A c \in Calls : result[c] = "unauthenticated" /\ renewed[c] => ctx[c] > refused[c]

\* Every call ends, however many of them log in and fail at the same time.
CallsEnd == <>[](\A c \in Calls : pc[c] = "done")
============================================================================
