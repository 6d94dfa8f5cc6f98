------------------------ MODULE RequestsQueue_proofs ------------------------
(***************************************************************************)
(* For any set of requests: Run never pops an empty queue, and the queue   *)
(* with its consumer implements the safety part of AcceptedRequests.  That *)
(* every accepted request is processed in the end is left to TLC.          *)
(*                                                                         *)
(* The inductive invariant is QueueOK with NextRequestFindsOne: what was   *)
(* accepted is what was started followed by what is still queued.          *)
(***************************************************************************)
EXTENDS RequestsQueue, SequenceTheorems, TLAPS

QueueInv == QueueOK /\ NextRequestFindsOne

\* Moving the head of one sequence to the end of another leaves their
\* concatenation alone.
LEMMA HeadMoves ==
  ASSUME NEW S, NEW s \in Seq(S), NEW t \in Seq(S), t # << >>
  PROVE  /\ Append(s, Head(t)) \in Seq(S) /\ Tail(t) \in Seq(S)
         /\ Append(s, Head(t)) \o Tail(t) = s \o t
         /\ (s \o t)[Len(s) + 1] = Head(t)
         /\ Len(s) < Len(s \o t)
<1>1. /\ Head(t) \in S /\ Tail(t) \in Seq(S) /\ Len(Tail(t)) = Len(t) - 1
      /\ \A i \in 1 .. Len(Tail(t)) : Tail(t)[i] = t[i + 1]
  BY HeadTailProperties
<1>2. Len(t) \in Nat \ {0} /\ Len(s) \in Nat /\ Head(t) = t[1]
  BY EmptySeq, LenProperties
<1>3. /\ Append(s, Head(t)) \in Seq(S)
      /\ Len(Append(s, Head(t))) = Len(s) + 1
      /\ \A i \in 1 .. Len(s) : Append(s, Head(t))[i] = s[i]
      /\ Append(s, Head(t))[Len(s) + 1] = Head(t)
  BY <1>1, AppendProperties
<1>4. /\ s \o t \in Seq(S) /\ Len(s \o t) = Len(s) + Len(t)
      /\ \A i \in 1 .. Len(s) + Len(t) :
           (s \o t)[i] = IF i <= Len(s) THEN s[i] ELSE t[i - Len(s)]
  BY ConcatProperties
<1> DEFINE u == Append(s, Head(t))
           v == Tail(t)
<1>5. /\ u \o v \in Seq(S) /\ Len(u \o v) = Len(u) + Len(v)
      /\ \A i \in 1 .. Len(u) + Len(v) :
           (u \o v)[i] = IF i <= Len(u) THEN u[i] ELSE v[i - Len(u)]
  BY <1>1, <1>3, ConcatProperties
<1>6. Len(u \o v) = Len(s \o t)
  BY <1>1, <1>2, <1>3, <1>4, <1>5
<1>7. \A i \in 1 .. Len(u \o v) : (u \o v)[i] = (s \o t)[i]
  BY <1>1, <1>2, <1>3, <1>4, <1>5, <1>6
<1>8. u \o v = s \o t
  BY <1>4, <1>5, <1>6, <1>7, SeqEqual
<1>9. (s \o t)[Len(s) + 1] = Head(t) /\ Len(s) < Len(s \o t)
  BY <1>2, <1>4
<1> QED BY <1>1, <1>3, <1>8, <1>9

\* Pushing at the back of the queue appends to the concatenation.
LEMMA BackGrows ==
  ASSUME NEW S, NEW s \in Seq(S), NEW t \in Seq(S), NEW e \in S
  PROVE  /\ Append(t, e) \in Seq(S) /\ Append(t, e) # << >>
         /\ s \o Append(t, e) = Append(s \o t, e)
<1>1. <<e>> \in Seq(S)
  OBVIOUS
<1>2. s \o t \in Seq(S) /\ (s \o t) \o <<e>> = s \o (t \o <<e>>)
  BY <1>1, ConcatProperties, ConcatAssociative
<1>3. Append(t, e) = t \o <<e>> /\ Append(s \o t, e) = (s \o t) \o <<e>>
  BY <1>2, AppendIsConcat
<1> QED BY <1>2, <1>3, AppendProperties

\* The queue starts empty, with nothing accepted (NewMemoryRequestQueue).
LEMMA QueueInit == Init => QueueInv
<1> SUFFICES ASSUME Init PROVE QueueInv
  OBVIOUS
<1>1. << >> \in Seq(Valid)
  OBVIOUS
<1>2. << >> \o << >> = << >>
  BY <1>1, ConcatEmptySeq
<1> QED BY <1>1, <1>2 DEF Init, QueueInv, QueueOK, NextRequestFindsOne

\* Execute, Tick and the steps of Run keep the invariant of the queue.
LEMMA QueueStep == QueueInv /\ [Next]_vars => QueueInv'
<1> SUFFICES ASSUME QueueInv, [Next]_vars PROVE QueueInv'
  OBVIOUS
<1> USE DEF QueueInv, QueueOK, NextRequestFindsOne
<1>1. ASSUME NEW r \in Requests, Execute(r) PROVE QueueInv'
  <2>1. r \in Valid /\ queue' = Append(queue, r) /\ accepted' = Append(accepted, r)
        /\ loop' = loop /\ started' = started
    BY <1>1 DEF Execute
  <2>2. queue' \in Seq(Valid) /\ queue' # << >> /\ started \o queue' = accepted'
    BY <2>1, BackGrows
  <2>3. accepted' \in Seq(Valid)
    BY <2>1, AppendProperties
  <2> QED BY <2>1, <2>2, <2>3
<1>2. CASE Tick
  BY <1>2 DEF Tick
<1>3. CASE AvailableRequests
  BY <1>3 DEF AvailableRequests
<1>4. CASE NextRequest
  <2>1. queue # << >> /\ started' = Append(started, Head(queue)) /\ queue' = Tail(queue)
        /\ loop' = "check" /\ accepted' = accepted
    BY <1>4 DEF NextRequest
  <2>2. started \in Seq(Valid) /\ queue \in Seq(Valid) /\ accepted = started \o queue
    OBVIOUS
  <2>3. /\ Append(started, Head(queue)) \in Seq(Valid) /\ Tail(queue) \in Seq(Valid)
        /\ Append(started, Head(queue)) \o Tail(queue) = accepted
    BY <2>1, <2>2, HeadMoves
  <2> QED BY <2>1, <2>2, <2>3
<1>5. CASE UNCHANGED vars
  BY <1>5 DEF vars
<1> QED BY <1>1, <1>2, <1>3, <1>4, <1>5 DEF Next, Run

\* Requests are neither lost nor doubled nor reordered between Execute and
\* processRequest, and only valid ones get there.
THEOREM QueueCorrect == Spec => []QueueOK
<1>1. QueueInv => QueueOK
  BY DEF QueueInv
<1> QED BY <1>1, QueueInit, QueueStep, PTL DEF Spec

\* Run never pops an empty queue, however the calls interleave with it.
THEOREM QueueNeverEmptyWhenPopped == Spec => []NextRequestFindsOne
<1>1. QueueInv => NextRequestFindsOne
  BY DEF QueueInv
<1> QED BY <1>1, QueueInit, QueueStep, PTL DEF Spec

\* The queue and its consumer implement the safety part of what
\* Handler.Execute promises: every step is an acceptance, the start of the
\* next accepted request, or invisible.
THEOREM QueueImplementsPromise == Spec => Promise!AcceptedSafety
<1>1. Init => Promise!AcceptedInit
  BY DEF Init, Promise!AcceptedInit
<1>2. QueueInv /\ [Next]_vars => [Promise!AcceptedNext]_(Promise!requestVars)
  <2> SUFFICES ASSUME QueueInv, [Next]_vars
               PROVE  [Promise!AcceptedNext]_(Promise!requestVars)
    OBVIOUS
  <2> USE DEF Promise!requestVars
  <2>1. ASSUME NEW r \in Requests, Execute(r) PROVE Promise!AcceptedNext
    BY <2>1 DEF Execute, Promise!AcceptedNext, Promise!Accept
  <2>2. CASE Tick
    BY <2>2 DEF Tick
  <2>3. CASE AvailableRequests
    BY <2>3 DEF AvailableRequests
  <2>4. CASE NextRequest
    <3>1. queue # << >> /\ started' = Append(started, Head(queue)) /\ accepted' = accepted
      BY <2>4 DEF NextRequest
    <3>2. accepted = started \o queue /\ queue \in Seq(Valid) /\ started \in Seq(Valid)
      BY DEF QueueInv, QueueOK
    <3>3. accepted[Len(started) + 1] = Head(queue) /\ Len(started) < Len(accepted)
      BY <3>1, <3>2, HeadMoves
    <3> QED BY <3>1, <3>3 DEF Promise!AcceptedNext, Promise!Start
  <2>5. CASE UNCHANGED vars
    BY <2>5 DEF vars
  <2> QED BY <2>1, <2>2, <2>3, <2>4, <2>5 DEF Next, Run
<1> QED BY <1>1, <1>2, QueueInit, QueueStep, PTL DEF Spec, Promise!AcceptedSafety
============================================================================
