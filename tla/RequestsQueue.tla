--------------------------- MODULE RequestsQueue ---------------------------
(***************************************************************************)
(* The path of a deployment request from the gRPC server to its goroutine: *)
(* Handler.Execute and Manager.Execute, run by one goroutine per call; the *)
(* MemoryRequestQueue (internal/structures/requests_queue.go); and the     *)
(* loop of Manager.Run, the queue's only consumer.                         *)
(*                                                                         *)
(* Each method of the queue holds its mutex, so each is one action.  Run   *)
(* asks AvailableRequests and then calls NextRequest, with the mutex       *)
(* released in between, while calls keep pushing.  NextRequest asserts the *)
(* type of what PopFront returns, so popping an empty queue would stop the *)
(* process: the guard of NextRequest says that it does not go on then.     *)
(*                                                                         *)
(* Left out: the request's contents, of which only ValidDeployFragment-    *)
(* Request's verdict matters here; the tick's period and the second's      *)
(* sleep; Clear, which nobody calls, and Len, which is only logged.        *)
(***************************************************************************)
EXTENDS Naturals, Sequences

CONSTANTS
  Requests,     \* deployment fragment requests
  Valid,        \* the requests ValidDeployFragmentRequest accepts
  MaxAccepted   \* bound on the number of accepted requests

ASSUME ValidAssumption == Valid \subseteq Requests /\ MaxAccepted \in Nat

VARIABLES
  queue,     \* the MemoryRequestQueue
  loop,      \* where Run is: "tick", "check", "next"
  accepted,  \* history: the requests pushed, in order
  started    \* history: the requests given to processRequest, in order

vars == <<queue, loop, accepted, started>>

Init == queue = << >> /\ loop = "tick" /\ accepted = << >> /\ started = << >>

----------------------------------------------------------------------------
\* A mutation of Execute: the request is not checked.
ExecuteAnything(r) ==
  /\ Len(accepted) < MaxAccepted
  /\ queue' = Append(queue, r)
  /\ accepted' = Append(accepted, r)
  /\ UNCHANGED <<loop, started>>

\* A gRPC call.  Handler.Execute answers a request that is not valid with an
\* error; Manager.Execute pushes the others and DEPLOYING is answered.
Execute(r) ==
  /\ r \in Valid /\ Len(accepted) < MaxAccepted
  /\ queue' = Append(queue, r)
  /\ accepted' = Append(accepted, r)
  /\ UNCHANGED <<loop, started>>

----------------------------------------------------------------------------
Tick ==
  /\ loop = "tick"
  /\ loop' = "check"
  /\ UNCHANGED <<queue, accepted, started>>

\* A mutation of AvailableRequests: the length is not looked at.
AvailableRequestsAlways ==
  /\ loop = "check"
  /\ loop' = "next"
  /\ UNCHANGED <<queue, accepted, started>>

AvailableRequests ==
  /\ loop = "check"
  /\ loop' = IF queue # << >> THEN "next" ELSE "tick"
  /\ UNCHANGED <<queue, accepted, started>>

\* A mutation of NextRequest: the queue is popped at its back.
NextRequestFromBack ==
  /\ loop = "next" /\ queue # << >>
  /\ started' = Append(started, queue[Len(queue)])
  /\ queue' = SubSeq(queue, 1, Len(queue) - 1)
  /\ loop' = "check"
  /\ UNCHANGED accepted

\* The goroutine of processRequest starts with the request popped; Run then
\* sleeps a second and asks again.
NextRequest ==
  /\ loop = "next" /\ queue # << >>
  /\ started' = Append(started, Head(queue))
  /\ queue' = Tail(queue)
  /\ loop' = "check"
  /\ UNCHANGED accepted

----------------------------------------------------------------------------
Run == Tick \/ AvailableRequests \/ NextRequest

Next == Run \/ \E r \in Requests : Execute(r)

\* The ticker goes on and the goroutine of Run is scheduled.
Spec == Init /\ [][Next]_vars /\ WF_vars(Run)

----------------------------------------------------------------------------
(***************************************************************************)
(* Properties.                                                             *)
(***************************************************************************)

\* The queue holds valid requests and the history agrees with it: what was
\* accepted is what was started followed by what still waits, in order.
QueueOK ==
  /\ queue \in Seq(Valid) /\ started \in Seq(Valid) /\ accepted \in Seq(Valid)
  /\ loop \in {"tick", "check", "next"}
  /\ accepted = started \o queue

\* The answer of AvailableRequests is still true when NextRequest pops, though
\* the queue was unlocked in between: nobody else takes requests.
NextRequestFindsOne == loop = "next" => queue # << >>

Promise == INSTANCE AcceptedRequests WITH Requests <- Valid

\* What Handler.Execute promises: every accepted request is processed, once,
\* in the order of acceptance, whatever calls arrive meanwhile.
PromiseKept == Promise!AcceptedSpec
============================================================================
