---------------------------- MODULE EventMetrics ----------------------------
(***************************************************************************)
(* From the cluster's events to the counters of the metrics endpoint: the  *)
(* start of the watchers and of the dispatcher (events/provider.go and     *)
(* watcher.go), the dispatcher with its queue, its store of deleted        *)
(* objects and its one worker (events/dispatcher.go), the                  *)
(* MetricsTranslator (metrics_translator.go) and the collector             *)
(* (metrics/prometheus/prometheus.go).                                     *)
(*                                                                         *)
(* External: the informers of client-go, one per kind.  An informer        *)
(* changes its store first and notifies the dispatcher later, in order; an *)
(* object found missing after a broken watch is reported as a              *)
(* DeletedFinalStateUnknown, a tombstone.  The work queue keeps one copy   *)
(* of equal events.  The worker reads the stores with no lock between.     *)
(*                                                                         *)
(* A failed type assertion panics and ends the process; Kubernetes starts  *)
(* it again and it counts from the objects it finds.                       *)
(* Left out: normal Events, which are discarded like filtered objects.     *)
(***************************************************************************)
EXTENDS Integers, Sequences, FiniteSets, SequencesExt

CONSTANTS
  Objects,       \* the objects whose kind the translator supports
  KindOf,        \* the kind of an object
  KeyOf,         \* its key, namespace/name, which does not tell kinds apart
  RefOf,         \* the object a Kubernetes Event is about
  Filtered,      \* zt-agents, services that are no load balancers
  Existing,      \* the objects that exist when the process starts
  MaxRetries,    \* maxRetries of the dispatcher (5 in the code)
  MaxChanges,    \* bound: changes of the cluster
  NoEvent        \* the worker has no event

Kinds == {KindOf[o] : o \in Objects}

Types == {"add", "update", "delete"}

\* The collector's metric for a kind; a Kubernetes Event counts as an error
\* of the object it is about.
MetricOfKind ==
  [Deployment |-> "services", Namespace |-> "fragments",
   PersistentVolumeClaim |-> "volumes", Ingress |-> "endpoints",
   Service |-> "endpoints", Pod |-> "services"]

Counted(o) == KindOf[o] \notin {"Event", "Pod"} /\ o \notin Filtered

MetricOf(o) == MetricOfKind[KindOf[o]]

Metrics == {MetricOf(o) : o \in {x \in Objects : KindOf[x] # "Event"}}

ASSUME ObjectsAssumption ==
  /\ \A o \in Objects : KindOf[o] # "Event" => KindOf[o] \in DOMAIN MetricOfKind
  /\ \A o \in Objects : KindOf[o] = "Event" => RefOf[o] \in Objects
  /\ \A o, p \in Objects : KindOf[o] = KindOf[p] /\ KeyOf[o] = KeyOf[p] => o = p
  /\ Existing \subseteq Objects /\ IsFiniteSet(Existing) /\ Filtered \subseteq Objects
  /\ MaxRetries \in Nat /\ MaxChanges \in Nat
  /\ NoEvent \notin Objects \X Types

VARIABLES
  objects,       \* the informers' stores: object -> its state
  synced,        \* the kinds whose watcher has synced
  notifications, \* kind -> what its informer has still to tell the dispatcher
  deleted,       \* the dispatcher's deletedIndexer: key -> object state
  queue,         \* events to be dispatched, in order and without copies
  again,         \* the event being dispatched was queued again meanwhile
  delayed,       \* events that failed and wait to be queued again
  requeues,      \* how often an event has been requeued
  pc,            \* the worker: "idle", "fetch", "handle" or "panicked"
  current,       \* the event it dispatches
  fetched,       \* the object it fetched
  counters,      \* metric -> created, deleted, errors, running
  changes,       \* changes of the cluster so far
  expired,       \* Kubernetes Events that are gone: their names are not used again
  lost,          \* history: objects with an event that was not counted
  warnings       \* history: warnings since the start

informerVars == <<objects, synced, notifications>>
queueVars == <<queue, again, delayed, requeues>>
workerVars == <<pc, current, fetched>>
vars == <<informerVars, deleted, queueVars, workerVars, counters, changes,
          expired, lost, warnings>>

----------------------------------------------------------------------------
(***************************************************************************)
(* The informers.  new and recent compare the timestamps of an object with *)
(* startupTime; count is that of a Kubernetes Event.                       *)
(***************************************************************************)
StateOf(o, new) == [kind |-> KindOf[o], new |-> new, recent |-> new, count |-> 1]

Notify(o, type) ==
  notifications' = [notifications EXCEPT ![KindOf[o]] =
                      IF KindOf[o] \in synced THEN Append(@, <<o, type>>) ELSE @]

Change ==
  /\ pc # "panicked" /\ changes < MaxChanges
  /\ changes' = changes + 1
  /\ UNCHANGED <<synced, deleted, queueVars, workerVars, counters, lost>>

Warn(o) == warnings' = IF KindOf[o] = "Event" THEN warnings + 1 ELSE warnings

Appears(o) ==
  /\ Change /\ o \notin DOMAIN objects \cup expired
  /\ objects' = [x \in DOMAIN objects \cup {o} |->
                   IF x = o THEN StateOf(o, TRUE) ELSE objects[x]]
  /\ Notify(o, "add")
  /\ Warn(o)
  /\ UNCHANGED expired

Updates(o) ==
  /\ Change /\ o \in DOMAIN objects
  /\ objects' = [objects EXCEPT ![o].recent = TRUE, ![o].count = @ + 1]
  /\ Notify(o, "update")
  /\ Warn(o)
  /\ UNCHANGED expired

\* The object goes; the notification has its last state, or is a tombstone.
Disappears(o, tombstone) ==
  /\ Change /\ o \in DOMAIN objects
  /\ objects' = [x \in DOMAIN objects \ {o} |-> objects[x]]
  /\ notifications' = [notifications EXCEPT ![KindOf[o]] =
       IF KindOf[o] \notin synced THEN @
       ELSE Append(@, IF tombstone THEN <<o, "tombstone">> ELSE <<o, "delete", objects[o]>>)]
  /\ expired' = IF KindOf[o] = "Event" THEN expired \cup {o} ELSE expired
  /\ UNCHANGED warnings

----------------------------------------------------------------------------
(***************************************************************************)
(* EventsProvider.Start: the watchers one after the other, each until its  *)
(* cache has synced, and then the dispatchers.                             *)
(***************************************************************************)
WatcherStart(kind) ==
  /\ pc = "starting" /\ kind \notin synced
  /\ synced' = synced \cup {kind}
  /\ notifications' = [notifications EXCEPT ![kind] =
       SetToSeq({<<o, "add">> : o \in {x \in DOMAIN objects : KindOf[x] = kind}})]
  /\ UNCHANGED <<objects, deleted, queueVars, workerVars, counters, changes,
                 expired, lost, warnings>>

DispatcherStart ==
  /\ pc = "starting" /\ synced = Kinds
  /\ pc' = "idle"
  /\ UNCHANGED <<informerVars, deleted, queueVars, current, fetched, counters,
                 changes, expired, lost, warnings>>

----------------------------------------------------------------------------
(***************************************************************************)
(* The handlers of the dispatcher, called by the goroutine of an informer. *)
(***************************************************************************)
Queued(e) == e \in Range(queue) \/ (e = current /\ again)

\* queue.Add: one copy of an event waits, and none while it is dispatched.
Add(e) ==
  /\ queue' = IF Queued(e) \/ e = current THEN queue ELSE Append(queue, e)
  /\ again' = (again \/ (e = current /\ pc \in {"fetch", "handle"}))
  /\ UNCHANGED <<delayed, requeues>>

\* An add or a delete that finds its copy in the queue is not counted.
AddAndCount(o, type) ==
  /\ Add(<<o, type>>)
  /\ lost' = IF Queued(<<o, type>>) THEN lost \cup {o} ELSE lost

Handler(kind, type) ==
  /\ pc # "panicked" /\ notifications[kind] # << >>
  /\ Head(notifications[kind])[2] = type
  /\ notifications' = [notifications EXCEPT ![kind] = Tail(@)]
  /\ UNCHANGED <<objects, synced, workerVars, counters, changes, expired, warnings>>

OnAdd(kind) ==
  /\ Handler(kind, "add")
  /\ AddAndCount(Head(notifications[kind])[1], "add")
  /\ UNCHANGED deleted

OnUpdate(kind) ==
  /\ Handler(kind, "update")
  /\ Add(<<Head(notifications[kind])[1], "update">>)
  /\ UNCHANGED <<deleted, lost>>

\* The last state is kept under the key, whatever the kind, and queued.
OnDelete(kind) ==
  LET o == Head(notifications[kind])[1] IN
  /\ Handler(kind, "delete")
  /\ deleted' = [k \in DOMAIN deleted \cup {KeyOf[o]} |->
                   IF k = KeyOf[o] THEN Head(notifications[kind])[3] ELSE deleted[k]]
  /\ AddAndCount(o, "delete")

\* OnDelete of a tombstone: createEvent finds its key and getKind no kind, so
\* nothing is kept and nothing is queued.
OnDeleteUnknown(kind) ==
  /\ Handler(kind, "tombstone")
  /\ lost' = lost \cup {Head(notifications[kind])[1]}
  /\ UNCHANGED <<deleted, queueVars>>

----------------------------------------------------------------------------
(***************************************************************************)
(* The worker.                                                             *)
(***************************************************************************)
Get ==
  /\ pc = "idle" /\ queue # << >>
  /\ current' = Head(queue) /\ queue' = Tail(queue)
  /\ pc' = "fetch"
  /\ UNCHANGED <<informerVars, deleted, again, delayed, requeues, fetched,
                 counters, changes, expired, lost, warnings>>

\* A mutation of Done: the event is forgotten before it is added again.
DoneForgetting(retry) ==
  /\ queue' = IF again THEN Append(queue, current) ELSE queue
  /\ again' = FALSE
  /\ delayed' = IF retry THEN delayed \cup {current} ELSE delayed
  /\ requeues' = [requeues EXCEPT ![current] = 0]
  /\ current' = NoEvent /\ fetched' = NoEvent
  /\ pc' = "idle"

\* queue.Done, after Forget or AddRateLimited.
Done(retry) ==
  /\ queue' = IF again THEN Append(queue, current) ELSE queue
  /\ again' = FALSE
  /\ delayed' = IF retry THEN delayed \cup {current} ELSE delayed
  /\ requeues' = [requeues EXCEPT ![current] = IF retry THEN @ + 1 ELSE 0]
  /\ current' = NoEvent /\ fetched' = NoEvent
  /\ pc' = "idle"

RetryAllowed(e) == requeues[e] < MaxRetries

\* A mutation of FetchObj: the object is removed from the deleted ones.
FetchObjOnce ==
  LET o == current[1] IN
  /\ pc = "fetch"
  /\ IF o \in DOMAIN objects \/ KeyOf[o] \in DOMAIN deleted
     THEN /\ fetched' = IF o \in DOMAIN objects THEN objects[o] ELSE deleted[KeyOf[o]]
          /\ deleted' = IF o \in DOMAIN objects THEN deleted
                        ELSE [k \in DOMAIN deleted \ {KeyOf[o]} |-> deleted[k]]
          /\ pc' = "handle"
          /\ UNCHANGED <<queueVars, current, lost>>
     ELSE /\ Done(RetryAllowed(current))
          /\ lost' = IF RetryAllowed(current) THEN lost ELSE lost \cup {o}
          /\ UNCHANGED deleted
  /\ UNCHANGED <<informerVars, counters, changes, expired, warnings>>

\* fetchObj, the first read: the informer's store, then the deleted objects.
\* deletedIndexer.Delete is given the key where it expects the object, fails
\* and removes nothing.
FetchObj ==
  LET o == current[1] IN
  /\ pc = "fetch"
  /\ IF o \in DOMAIN objects \/ KeyOf[o] \in DOMAIN deleted
     THEN /\ fetched' = IF o \in DOMAIN objects THEN objects[o] ELSE deleted[KeyOf[o]]
          /\ pc' = "handle"
          /\ UNCHANGED <<queueVars, current, lost>>
     ELSE /\ Done(RetryAllowed(current))
          /\ lost' = IF RetryAllowed(current) THEN lost ELSE lost \cup {o}
  /\ UNCHANGED <<informerVars, deleted, counters, changes, expired, warnings>>

\* AddRateLimited puts the event back after a while.
Requeue(e) ==
  /\ pc # "panicked" /\ e \in delayed
  /\ queue' = IF Queued(e) \/ e = current THEN queue ELSE Append(queue, e)
  /\ again' = (again \/ (e = current /\ pc \in {"fetch", "handle"}))
  /\ delayed' = delayed \ {e}
  /\ lost' = IF Queued(e) /\ e[2] # "update" THEN lost \cup {e[1]} ELSE lost
  /\ UNCHANGED <<informerVars, deleted, requeues, workerVars, counters, changes,
                 expired, warnings>>

----------------------------------------------------------------------------
(***************************************************************************)
(* The MetricsTranslator and the collector.                                *)
(***************************************************************************)
Create(c) == [c EXCEPT !.created = @ + 1, !.running = @ + 1]

CountExisting(c) == [c EXCEPT !.running = @ + 1]

\* A mutation of Delete: the gauge is left alone.
DeleteUncounted(c) == [c EXCEPT !.deleted = @ + 1]

Delete(c) == [c EXCEPT !.deleted = @ + 1, !.running = @ - 1]

Error(c) == [c EXCEPT !.errors = @ + 1]

translate(type, c, object) ==
  CASE type = "add" -> IF object.new THEN Create(c) ELSE CountExisting(c)
    [] type = "delete" -> Delete(c)
    [] type = "update" -> c

\* A mutation of IsNews: warnings from before the start count as well.
IsNewsEver(o, type, object) ==
  /\ type # "delete" /\ o \notin Filtered
  /\ type = "update" => objects[o].count # object.count
  /\ RefOf[o] \in DOMAIN objects /\ RefOf[o] \notin Filtered

\* OnEvent counts a warning: not a deletion, not older than the process, for
\* an update only if the count differs from that of the old object, which is
\* the one in the store now, and about an object of an application.
IsNews(o, type, object) ==
  /\ type # "delete" /\ object.recent /\ o \notin Filtered
  /\ type = "update" => objects[o].count # object.count
  /\ RefOf[o] \in DOMAIN objects /\ RefOf[o] \notin Filtered

Counting(o, type, object) ==
  IF KindOf[o] = "Event"
  THEN IF IsNews(o, type, object)
       THEN [counters EXCEPT ![MetricOf(RefOf[o])] = Error(@)]
       ELSE counters
  ELSE IF Counted(o)
       THEN [counters EXCEPT ![MetricOf(o)] = translate(type, @, object)]
       ELSE counters

\* The On... method asserts the type of the object, OnPod excepted, and
\* OnEvent that of the old object of an update, which the second read of
\* fetchObj takes from the store.
WrongKind == KindOf[current[1]] # "Pod" /\ fetched.kind # KindOf[current[1]]

NoOldObject ==
  /\ KindOf[current[1]] = "Event" /\ current[2] = "update"
  /\ fetched.recent /\ current[1] \notin Filtered
  /\ current[1] \notin DOMAIN objects

Dispatch ==
  /\ pc = "handle" /\ ~WrongKind /\ ~NoOldObject
  /\ counters' = Counting(current[1], current[2], fetched)
  /\ Done(FALSE)
  /\ UNCHANGED <<informerVars, deleted, changes, expired, lost, warnings>>

Panic ==
  /\ pc = "handle" /\ (WrongKind \/ NoOldObject)
  /\ pc' = "panicked"
  /\ UNCHANGED <<informerVars, deleted, queueVars, current, fetched, counters,
                 changes, expired, lost, warnings>>

\* Nothing of the process survives; what exists is older than the new one.
Restart ==
  /\ pc = "panicked"
  /\ objects' = [o \in DOMAIN objects |-> StateOf(o, FALSE)]
  /\ synced' = {} /\ notifications' = [k \in Kinds |-> << >>]
  /\ deleted' = << >> /\ queue' = << >> /\ again' = FALSE /\ delayed' = {}
  /\ requeues' = [e \in Objects \X Types |-> 0]
  /\ pc' = "starting" /\ current' = NoEvent /\ fetched' = NoEvent
  /\ counters' = [m \in Metrics |-> [created |-> 0, deleted |-> 0, errors |-> 0, running |-> 0]]
  /\ lost' = {} /\ warnings' = 0
  /\ UNCHANGED <<changes, expired>>

----------------------------------------------------------------------------
Init ==
  /\ objects = [o \in Existing |-> StateOf(o, FALSE)]
  /\ synced = {} /\ notifications = [k \in Kinds |-> << >>]
  /\ deleted = << >> /\ queue = << >> /\ again = FALSE /\ delayed = {}
  /\ requeues = [e \in Objects \X Types |-> 0]
  /\ pc = "starting" /\ current = NoEvent /\ fetched = NoEvent
  /\ counters = [m \in Metrics |-> [created |-> 0, deleted |-> 0, errors |-> 0, running |-> 0]]
  /\ changes = 0 /\ expired = {} /\ lost = {} /\ warnings = 0

Cluster ==
  \E o \in Objects : Appears(o) \/ Updates(o) \/ \E t \in BOOLEAN : Disappears(o, t)

Deliver ==
  \E k \in Kinds : OnAdd(k) \/ OnUpdate(k) \/ OnDelete(k) \/ OnDeleteUnknown(k)

Start == (\E k \in Kinds : WatcherStart(k)) \/ DispatcherStart

Worker == Get \/ FetchObj \/ Dispatch \/ Panic

Requeued == \E e \in Objects \X Types : Requeue(e)

Next == Cluster \/ Deliver \/ Start \/ Worker \/ Requeued \/ Restart

\* The goroutines run and the delays end; the cluster owes nothing.
Fairness ==
  WF_vars(Deliver) /\ WF_vars(Start) /\ WF_vars(Worker) /\ WF_vars(Requeued) /\ WF_vars(Restart)

Spec == Init /\ [][Next]_vars /\ Fairness

----------------------------------------------------------------------------
(***************************************************************************)
(* Properties.                                                             *)
(***************************************************************************)

Quiet ==
  /\ pc = "idle" /\ queue = << >> /\ delayed = {}
  /\ \A k \in Kinds : notifications[k] = << >>

\* Whatever the order in which notifications, retries and deletions meet, and
\* through crashes and restarts: once everything has been dispatched, the
\* gauge of a metric is the number of its objects in the cluster, unless an
\* add or a delete was merged with its copy, came as a tombstone or was given
\* up.
GaugeFollowsCluster ==
  Quiet => \A m \in Metrics :
    (\A o \in lost : Counted(o) => MetricOf(o) # m) =>
      counters[m].running = Cardinality({o \in DOMAIN objects : Counted(o) /\ MetricOf(o) = m})

\* "key does not exist in deleted object store while it should"
\* (dispatcher.go:271) is only met while the deletion has not been delivered
\* yet, or because it came as a tombstone: several events of one deleted
\* object may be dispatched after its deletion, and each finds it.
MissingOnlyWhileUndelivered ==
  [][pc = "fetch" /\ pc' = "idle" =>
       \/ current[1] \in lost
       \/ \E i \in DOMAIN notifications[KindOf[current[1]]] :
            /\ notifications[KindOf[current[1]]][i][1] = current[1]
            /\ notifications[KindOf[current[1]]][i][2] \in {"delete", "tombstone"}]_vars

\* Warnings are not counted twice: the errors of a metric never exceed the
\* warnings raised since the process started, although every update of an
\* Event and every restart delivers the old ones again.
WarningsNotOvercounted ==
  \A m \in Metrics : counters[m].errors <= warnings

\* When the cluster stops changing, every notification is delivered and every
\* event dispatched or given up, through retries and restarts: no event is
\* retried for ever and no panic repeats itself after the restart.
EventsHandled == <>[]Quiet

\* "Ok if old object does not exist and is nil" (dispatcher.go:281): a missing
\* old object does not stop the worker.
MissingOldObjectIsOk == pc = "panicked" => WrongKind
============================================================================
