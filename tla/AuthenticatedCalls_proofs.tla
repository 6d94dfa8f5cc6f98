---------------------- MODULE AuthenticatedCalls_proofs ----------------------
(***************************************************************************)
(* The calls to the cluster API, for any number of concurrent calls, any   *)
(* number of logins and any expiration of tokens.                          *)
(***************************************************************************)
EXTENDS AuthenticatedCalls, TLAPS

Places == {"context", "call", "rerun", "login", "context2", "call2", "done"}

Results == {"none", "ok", "error", "unauthenticated"}

\* The variables are functions, which TypeOK does not say.
FunctionsOK ==
  /\ pc \in [Calls -> Places] /\ result \in [Calls -> Results]
  /\ ctx \in [Calls -> Nat] /\ refused \in [Calls -> Nat]
  /\ retries \in [Calls -> Nat] /\ renewed \in [Calls -> BOOLEAN]
  /\ processed \in [Calls -> Nat]

TokensOK ==
  /\ issued \in Nat \ {0} /\ expired \in 0 .. issued /\ credentials = issued
  /\ expirations \in 0 .. MaxExpirations
  /\ \A c \in Calls : ctx[c] <= issued /\ refused[c] <= issued

\* The one that logs in holds the mutex, and has a login left.
LoginsOK ==
  /\ mu \in Calls \cup {Nobody}
  /\ \A c \in Calls :
       /\ pc[c] = "login" <=> mu = c
       /\ retries[c] <= MaxAuthRetries
       /\ pc[c] = "login" => retries[c] < MaxAuthRetries

\* Before its end a call has not been processed and nobody has heard of it.
ProcessedOK ==
  \A c \in Calls :
    /\ pc[c] # "done" => processed[c] = 0 /\ result[c] = "none"
    /\ processed[c] <= 1
    /\ result[c] = "ok" => processed[c] = 1 \/ c \in Hiding

\* A successful login has replaced the refused token, and the second context
\* is read after it.
RenewedOK ==
  \A c \in Calls :
    renewed[c] =>
      /\ pc[c] \in {"context2", "call2", "done"}
      /\ refused[c] < credentials
      /\ pc[c] \in {"call2", "done"} => refused[c] < ctx[c]

CallsInv == FunctionsOK /\ TokensOK /\ LoginsOK /\ ProcessedOK /\ RenewedOK

----------------------------------------------------------------------------
\* The type invariant and the two properties of the calls are consequences.
LEMMA CallsInvSuffices ==
  CallsInv => TypeOK /\ ServedOnce /\ RefusedTwiceOnlyIfExpired
<1> SUFFICES ASSUME CallsInv
             PROVE  TypeOK /\ ServedOnce /\ RefusedTwiceOnlyIfExpired
  OBVIOUS
<1> USE CallsAssumption DEF CallsInv
<1>1. TypeOK
  BY DEF TypeOK, FunctionsOK, TokensOK, LoginsOK, Places, Results
<1>2. ServedOnce
  BY DEF ServedOnce, ProcessedOK
<1>3. RefusedTwiceOnlyIfExpired
  <2> SUFFICES ASSUME NEW c \in Calls, result[c] = "unauthenticated", renewed[c]
               PROVE  ctx[c] > refused[c]
    BY DEF RefusedTwiceOnlyIfExpired
  <2>1. pc[c] = "done"
    BY DEF ProcessedOK
  <2>2. refused[c] < ctx[c]
    BY <2>1 DEF RenewedOK
  <2>3. QED
    BY <2>2 DEF FunctionsOK
<1>4. QED
  BY <1>1, <1>2, <1>3

\* The service has logged in once, and no call has read the credentials.
LEMMA CallsInvInit == Init => CallsInv
<1> SUFFICES ASSUME Init PROVE CallsInv
  OBVIOUS
<1> USE CallsAssumption DEF Init
<1>1. FunctionsOK
  BY DEF FunctionsOK, Places, Results
<1>2. TokensOK
  BY DEF TokensOK
<1>3. LoginsOK
  BY DEF LoginsOK
<1>4. ProcessedOK
  BY DEF ProcessedOK
<1>5. RenewedOK
  BY DEF RenewedOK
<1>6. QED
  BY <1>1, <1>2, <1>3, <1>4, <1>5 DEF CallsInv

----------------------------------------------------------------------------
(***************************************************************************)
(* One lemma per action.                                                   *)
(***************************************************************************)
LEMMA ExpireKeepsInv == CallsInv /\ Expire => CallsInv'
<1> SUFFICES ASSUME CallsInv, Expire PROVE CallsInv'
  OBVIOUS
<1> USE CallsAssumption DEF CallsInv, Expire, callVars
<1>1. FunctionsOK'
  BY DEF FunctionsOK
<1>2. TokensOK'
  BY DEF TokensOK, FunctionsOK
<1>3. LoginsOK' /\ ProcessedOK' /\ RenewedOK'
  BY DEF LoginsOK, ProcessedOK, RenewedOK
<1>4. QED
  BY <1>1, <1>2, <1>3

\* A call reads the credentials of this moment, without the mutex.
LEMMA GetContextKeepsInv ==
  ASSUME NEW c \in Calls, CallsInv, GetContext(c)
  PROVE  CallsInv'
<1> USE CallsAssumption DEF CallsInv, GetContext, Goto, serverVars
<1>1. FunctionsOK'
  BY DEF FunctionsOK, TokensOK, Places
<1>2. TokensOK'
  BY DEF TokensOK, FunctionsOK
<1>3. LoginsOK'
  BY DEF LoginsOK, FunctionsOK
<1>4. ProcessedOK'
  BY DEF ProcessedOK, FunctionsOK
<1>5. RenewedOK'
  BY DEF RenewedOK, FunctionsOK
<1>6. QED
  BY <1>1, <1>2, <1>3, <1>4, <1>5

\* A call that is served ends, so it is not processed again.
LEMMA CallSucceedsKeepsInv ==
  ASSUME NEW c \in Calls, CallsInv, CallSucceeds(c)
  PROVE  CallsInv'
<1> USE CallsAssumption DEF CallsInv, CallSucceeds, End, Process, Goto, serverVars
<1>1. FunctionsOK'
  BY DEF FunctionsOK, Places, Results
<1>2. TokensOK'
  BY DEF TokensOK, FunctionsOK
<1>3. LoginsOK'
  BY DEF LoginsOK, FunctionsOK
<1>4. ProcessedOK'
  BY DEF ProcessedOK, FunctionsOK
<1>5. RenewedOK'
  BY DEF RenewedOK, FunctionsOK
<1>6. QED
  BY <1>1, <1>2, <1>3, <1>4, <1>5

\* A failure ends the call, be it before or after it was processed.
LEMMA CallFailsKeepsInv ==
  ASSUME NEW c \in Calls, CallsInv, CallFails(c)
  PROVE  CallsInv'
<1> USE CallsAssumption DEF CallsInv, CallFails, End, Goto, serverVars
<1>1. processed' = processed \/ processed' = [processed EXCEPT ![c] = @ + 1]
  BY DEF Process
<1>2. result'[c] = "error" \/ (result'[c] = "ok" /\ c \in Hiding)
  BY DEF FunctionsOK
<1>3. FunctionsOK'
  BY <1>1 DEF FunctionsOK, Places, Results
<1>4. TokensOK'
  BY DEF TokensOK, FunctionsOK
<1>5. LoginsOK'
  BY DEF LoginsOK, FunctionsOK
<1>6. ProcessedOK'
  BY <1>1, <1>2 DEF ProcessedOK, FunctionsOK
<1>7. RenewedOK'
  BY DEF RenewedOK, FunctionsOK
<1>8. QED
  BY <1>3, <1>4, <1>5, <1>6, <1>7

\* A refused call was not processed; it logs in or ends.
LEMMA CallRefusedKeepsInv ==
  ASSUME NEW c \in Calls, CallsInv, CallRefused(c)
  PROVE  CallsInv'
<1> USE CallsAssumption DEF CallsInv, CallRefused, End, Goto, serverVars
<1>1. FunctionsOK'
  BY DEF FunctionsOK, Places, Results
<1>2. TokensOK'
  BY DEF TokensOK, FunctionsOK
<1>3. LoginsOK'
  BY DEF LoginsOK, FunctionsOK
<1>4. ProcessedOK'
  BY DEF ProcessedOK, FunctionsOK
<1>5. RenewedOK'
  BY DEF RenewedOK, FunctionsOK
<1>6. QED
  BY <1>1, <1>2, <1>3, <1>4, <1>5

\* The caller that takes the mutex has all its logins left.
LEMMA LoginStartsKeepsInv ==
  ASSUME NEW c \in Calls, CallsInv, LoginStarts(c)
  PROVE  CallsInv'
<1> USE CallsAssumption DEF CallsInv, LoginStarts, Goto, serverVars
<1>1. FunctionsOK'
  BY DEF FunctionsOK, Places
<1>2. TokensOK'
  BY DEF TokensOK, FunctionsOK
<1>3. LoginsOK'
  BY DEF LoginsOK, FunctionsOK
<1>4. ProcessedOK'
  BY DEF ProcessedOK, FunctionsOK
<1>5. RenewedOK'
  BY DEF RenewedOK, FunctionsOK
<1>6. QED
  BY <1>1, <1>2, <1>3, <1>4, <1>5

\* A login ends in either way.
LEMMA LoginEndsKeepsInv ==
  ASSUME NEW c \in Calls, NEW success \in BOOLEAN, CallsInv,
         pc[c] = "login", LoginEnds(c, success), mu' = Nobody,
         UNCHANGED <<expired, expirations, ctx, refused, result, processed>>,
         \/ issued' = issued + 1 /\ credentials' = issued + 1
         \/ ~success /\ UNCHANGED <<issued, credentials>>
  PROVE  CallsInv'
<1> USE CallsAssumption DEF CallsInv, LoginEnds, Goto
<1>1. FunctionsOK'
  BY DEF FunctionsOK, Places
<1>2. TokensOK'
  BY DEF TokensOK, FunctionsOK
<1>3. LoginsOK'
  BY DEF LoginsOK, FunctionsOK
<1>4. ProcessedOK'
  BY DEF ProcessedOK, FunctionsOK
<1>5. RenewedOK'
  BY DEF RenewedOK, FunctionsOK, TokensOK
<1>6. QED
  BY <1>1, <1>2, <1>3, <1>4, <1>5

\* After the last login that is allowed the call is repeated in any case.
LEMMA RerunGivesUpKeepsInv ==
  ASSUME NEW c \in Calls, CallsInv, RerunGivesUp(c)
  PROVE  CallsInv'
<1> USE CallsAssumption DEF CallsInv, RerunGivesUp, Goto, serverVars
<1>1. FunctionsOK'
  BY DEF FunctionsOK, Places
<1>2. TokensOK'
  BY DEF TokensOK, FunctionsOK
<1>3. LoginsOK'
  BY DEF LoginsOK, FunctionsOK
<1>4. ProcessedOK'
  BY DEF ProcessedOK, FunctionsOK
<1>5. RenewedOK'
  BY DEF RenewedOK, FunctionsOK
<1>6. QED
  BY <1>1, <1>2, <1>3, <1>4, <1>5

\* Every step of a call, of the helper or of time keeps the invariant.
LEMMA CallsInvStep == CallsInv /\ [Next]_vars => CallsInv'
<1> SUFFICES ASSUME CallsInv, [Next]_vars PROVE CallsInv'
  OBVIOUS
<1>1. CASE Expire
  BY <1>1, ExpireKeepsInv
<1>2. ASSUME NEW c \in Calls, Caller(c)
      PROVE  CallsInv'
  <2>1. CASE GetContext(c)
    BY <2>1, GetContextKeepsInv
  <2>2. CASE CallSucceeds(c)
    BY <2>2, CallSucceedsKeepsInv
  <2>3. CASE CallFails(c)
    BY <2>3, CallFailsKeepsInv
  <2>4. CASE CallRefused(c)
    BY <2>4, CallRefusedKeepsInv
  <2>5. CASE LoginStarts(c)
    BY <2>5, LoginStartsKeepsInv
  <2>6. CASE LoginSucceeds(c)
    <3>1. PICK stored \in BOOLEAN : LoginEnds(c, stored)
      BY <2>6 DEF LoginSucceeds
    <3>2. QED
      BY <2>6, <3>1, LoginEndsKeepsInv DEF LoginSucceeds
  <2>7. CASE LoginFails(c)
    <3>1. LoginEnds(c, FALSE)
      BY <2>7 DEF LoginFails
    <3>2. QED
      BY <2>7, <3>1, LoginEndsKeepsInv DEF LoginFails, serverVars
  <2>8. CASE RerunGivesUp(c)
    BY <2>8, RerunGivesUpKeepsInv
  <2>9. QED
    BY <1>2, <2>1, <2>2, <2>3, <2>4, <2>5, <2>6, <2>7, <2>8 DEF Caller
<1>3. CASE UNCHANGED vars
  BY <1>3 DEF CallsInv, FunctionsOK, TokensOK, LoginsOK, ProcessedOK, RenewedOK,
              vars, serverVars, callVars
<1>4. QED
  BY <1>1, <1>2, <1>3 DEF Next

\* The invariant that the theorems about the calls read off.
LEMMA CallsInvAlways == Spec => []CallsInv
BY CallsInvInit, CallsInvStep, PTL DEF Spec

----------------------------------------------------------------------------
\* The token of the login helper is the last one issued, its mutex is held by
\* the call that logs in, and no call logs in more than MaxAuthRetries times.
THEOREM LoginTypeCorrect == Spec => []TypeOK
BY CallsInvAlways, CallsInvSuffices, PTL

\* No call is processed twice, whatever answers are lost and however many
\* calls log in again at the same time, and whoever hears of success has been
\* served, AuthorizeZTConnection excepted.
THEOREM CallsServedOnce == Spec => []ServedOnce
BY CallsInvAlways, CallsInvSuffices, PTL

\* After a successful login no call is made with the token that was refused.
THEOREM RefusedTokenNotReused == Spec => []RefusedTwiceOnlyIfExpired
BY CallsInvAlways, CallsInvSuffices, PTL
============================================================================
