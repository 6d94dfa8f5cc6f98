------------------------ MODULE EventMetrics_proofs ------------------------
(***************************************************************************)
(* The counters of the metrics endpoint, for any objects, any number of    *)
(* changes, retries and restarts.                                          *)
(*                                                                         *)
(* The gauge is right when nothing is under way because of a balance that  *)
(* holds at any time: what has been counted and the adds under way are the *)
(* objects of the stores and the deletions under way.  An add or a         *)
(* deletion is under way in a list of notifications, in the work queue,    *)
(* with the worker, or among the delayed events.                           *)
(***************************************************************************)
EXTENDS EventMetrics, FiniteSetTheorems, TLAPS

State == [kind : Kinds, new : BOOLEAN, recent : BOOLEAN, count : Nat]

Dispatchable == Objects \X Types

Notification ==
  (Objects \X {"add", "update", "tombstone"}) \cup (Objects \X {"delete"} \X State)

Counter == [created : Int, deleted : Int, errors : Nat, running : Int]

\* The notifications of a kind are about its objects.
ListOK(s, k) ==
  \A i \in DOMAIN s : KindOf[s[i][1]] = k /\ (s[i][2] = "delete" => s[i][3].kind = k)

InformersOK ==
  /\ objects = [o \in DOMAIN objects |-> objects[o]]
  /\ DOMAIN objects \subseteq Objects /\ IsFiniteSet(DOMAIN objects)
  /\ \A o \in DOMAIN objects : objects[o] \in State /\ objects[o].kind = KindOf[o]
  /\ synced \subseteq Kinds
  /\ notifications \in [Kinds -> Seq(Notification)]
  /\ \A k \in Kinds \ synced : notifications[k] = << >>
  /\ \A k \in Kinds : ListOK(notifications[k], k)

DispatcherOK ==
  /\ deleted = [k \in DOMAIN deleted |-> deleted[k]]
  /\ \A k \in DOMAIN deleted : deleted[k] \in State
  /\ queue \in Seq(Dispatchable) /\ again \in BOOLEAN /\ delayed \subseteq Dispatchable
  /\ IsFiniteSet(delayed)
  /\ requeues \in [Dispatchable -> Nat]
  /\ pc \in {"starting", "idle", "fetch", "handle", "panicked"}
  /\ pc # "starting" => synced = Kinds
  /\ pc \in {"starting", "idle"} => current = NoEvent /\ ~again
  /\ pc \in {"fetch", "handle", "panicked"} => current \in Dispatchable
  /\ pc \in {"handle", "panicked"} => fetched \in State
  /\ \A e \in Dispatchable : e \in Range(queue) \cup delayed \cup {current} => KindOf[e[1]] \in synced

CountersOK ==
  /\ counters \in [Metrics -> Counter] /\ warnings \in Nat

MetricsTypeOK == InformersOK /\ DispatcherOK /\ CountersOK

----------------------------------------------------------------------------
(***************************************************************************)
(* Deletions.  An object that has gone is either known to the dispatcher,  *)
(* which keeps its last state, or its deletion is still to be delivered;   *)
(* and a second add of an object comes after its deletion.                 *)
(***************************************************************************)
Dispatching(e) == e \in Range(queue) \cup delayed \cup {current}

Known(o) == o \in lost \/ KeyOf[o] \in DOMAIN deleted

Gone(n, o) == n[1] = o /\ n[2] \in {"delete", "tombstone"}

ToldOf(o) == notifications[KindOf[o]]

GoneIsTold(o) ==
  /\ \A i \in DOMAIN ToldOf(o) : ToldOf(o)[i][1] = o =>
       \E j \in DOMAIN ToldOf(o) : j >= i /\ Gone(ToldOf(o)[j], o)
  /\ (\E type \in Types : Dispatching(<<o, type>>)) =>
       Known(o) \/ \E j \in DOMAIN ToldOf(o) : Gone(ToldOf(o)[j], o)

AddsApart(o) ==
  \A j \in DOMAIN ToldOf(o) : ToldOf(o)[j][1] = o /\ ToldOf(o)[j][2] = "add" =>
    /\ \A i \in DOMAIN ToldOf(o) : i < j /\ ToldOf(o)[i][1] = o /\ ToldOf(o)[i][2] = "add" =>
         \E l \in DOMAIN ToldOf(o) : i < l /\ l < j /\ Gone(ToldOf(o)[l], o)
    /\ Dispatching(<<o, "add">>) =>
         Known(o) \/ \E l \in DOMAIN ToldOf(o) : l < j /\ Gone(ToldOf(o)[l], o)

OneAdd(o) ==
  /\ <<o, "add">> \in delayed /\ <<o, "add">> \in Range(queue) \cup {current} => Known(o)
  /\ current = <<o, "add">> /\ again => Known(o)

\* The work queue keeps one copy of an event, and none of the dispatched one.
NoCopies ==
  /\ \A i, j \in DOMAIN queue : queue[i] = queue[j] => i = j
  /\ current \notin Range(queue)

DeletionsOK ==
  /\ \A o \in Objects \ DOMAIN objects : GoneIsTold(o)
  /\ \A o \in Objects : AddsApart(o) /\ OneAdd(o)
  /\ \A o \in Objects : Dispatching(<<o, "delete">>) => KeyOf[o] \in DOMAIN deleted

----------------------------------------------------------------------------
(***************************************************************************)
(* The balance.  O is a set of objects; t is the type of an event.         *)
(***************************************************************************)
Places(s, O, t) == {i \in DOMAIN s : s[i][1] \in O /\ s[i][2] = t}

HowMany(s, O, t) == Cardinality(Places(s, O, t))

NotifiedPlaces(n, O, t) == {p \in Kinds \X Nat : p[2] \in Places(n[p[1]], O, t)}

Notified(n, O, t) == Cardinality(NotifiedPlaces(n, O, t))

Delayed(O, t) == Cardinality({e \in delayed : e[1] \in O /\ e[2] = t})

\* One for an event that is counted, nothing for another.
One(e, O, t) == IF e[1] \in O /\ e[2] = t THEN 1 ELSE 0

Handled(O, t) ==
  CASE current = NoEvent -> 0
    [] current # NoEvent /\ ~again -> One(current, O, t)
    [] current # NoEvent /\ again -> 2 * One(current, O, t)

\* In the work queue or with the worker.
Waiting(O, t) == HowMany(queue, O, t) + Handled(O, t)

UnderWay(O, t) == Notified(notifications, O, t) + Waiting(O, t) + Delayed(O, t)

Present(O) == {o \in DOMAIN objects : o \in O /\ KindOf[o] \in synced}

ObjectsOf(m) == {o \in Objects : Counted(o) /\ MetricOf(o) = m}

Balance(m) ==
  lost \cap ObjectsOf(m) = {} =>
    counters[m].running + UnderWay(ObjectsOf(m), "add")
      = Cardinality(Present(ObjectsOf(m))) + UnderWay(ObjectsOf(m), "delete")
          + Notified(notifications, ObjectsOf(m), "tombstone")

BalanceOK == \A m \in Metrics : Balance(m)

----------------------------------------------------------------------------
(***************************************************************************)
(* The warnings.  Each error counted has a warning of its own: an add that *)
(* is still under way and an update that was overtaken have theirs too.    *)
(***************************************************************************)
Events == {o \in Objects : KindOf[o] = "Event"}

AddUnderWay(o) ==
  \/ o \in DOMAIN objects /\ "Event" \notin synced
  \/ \E i \in DOMAIN ToldOf(o) : ToldOf(o)[i][1] = o /\ ToldOf(o)[i][2] = "add"
  \/ Dispatching(<<o, "add">>)

Recent(o) ==
  \/ o \in DOMAIN objects /\ objects[o].recent
  \/ \E i \in DOMAIN ToldOf(o) :
       ToldOf(o)[i][1] = o /\ ToldOf(o)[i][2] = "delete" /\ ToldOf(o)[i][3].recent
  \/ KeyOf[o] \in DOMAIN deleted /\ deleted[KeyOf[o]].kind = "Event" /\ deleted[KeyOf[o]].recent
  \/ pc = "handle" /\ current = <<o, "add">> /\ fetched.kind = "Event" /\ fetched.recent

RecentAdds == {o \in Events : AddUnderWay(o) /\ Recent(o)}

Overtaken(o) ==
  /\ pc = "handle" /\ current = <<o, "update">> /\ o \in DOMAIN objects
  /\ objects[o].count # fetched.count

OvertakenUpdates == {o \in Events : Overtaken(o)}

AddOf(s, o, i) == s[i][1] = o /\ s[i][2] = "add"

UpdateOf(s, o, i) == s[i][1] = o /\ s[i][2] = "update"

\* The name of a Kubernetes Event is used once, so it is added once.
AddedOnce(o) ==
  /\ o \notin DOMAIN objects \cup expired =>
       /\ \A i \in DOMAIN ToldOf(o) : ToldOf(o)[i][1] # o
       /\ \A type \in Types : ~Dispatching(<<o, type>>)
  /\ \A i, j \in DOMAIN ToldOf(o) : AddOf(ToldOf(o), o, i) /\ AddOf(ToldOf(o), o, j) => i = j
  /\ \A i \in DOMAIN ToldOf(o) : AddOf(ToldOf(o), o, i) => ~Dispatching(<<o, "add">>)
  /\ <<o, "add">> \in delayed => <<o, "add">> \notin Range(queue) \cup {current}
  /\ current = <<o, "add">> => ~again

\* As long as it exists, no event of it is delayed, and its add comes before
\* its updates.
AddedFirst(o) ==
  /\ \A type \in Types : <<o, type>> \notin delayed
  /\ \A i, j \in DOMAIN ToldOf(o) : AddOf(ToldOf(o), o, i) /\ UpdateOf(ToldOf(o), o, j) => i < j
  /\ \A i \in DOMAIN ToldOf(o) : AddOf(ToldOf(o), o, i) => ~Dispatching(<<o, "update">>)
  /\ \A i, j \in DOMAIN queue : AddOf(queue, o, i) /\ UpdateOf(queue, o, j) => i < j
  /\ <<o, "add">> \in Range(queue) => current # <<o, "update">>

OrderOK ==
  /\ \A o \in Events : AddedOnce(o) /\ (o \in DOMAIN objects => AddedFirst(o))
  /\ expired \subseteq Events /\ expired \cap DOMAIN objects = {}
  /\ IsFiniteSet(expired)

WarningsOK ==
  \A m \in Metrics :
    counters[m].errors + Cardinality(RecentAdds) + Cardinality(OvertakenUpdates) <= warnings


----------------------------------------------------------------------------
(***************************************************************************)
(* Counting in a sequence.                                                 *)
(***************************************************************************)

LEMMA PlacesFinite ==
  ASSUME NEW S, NEW s \in Seq(S), NEW O, NEW t
  PROVE  IsFiniteSet(Places(s, O, t)) /\ HowMany(s, O, t) \in Nat
<1>1. DOMAIN s = 1 .. Len(s) /\ Len(s) \in Nat
  OBVIOUS
<1>2. IsFiniteSet(1 .. Len(s))
  BY <1>1, FS_Interval
<1>3. IsFiniteSet(Places(s, O, t))
  BY <1>1, <1>2, FS_Subset DEF Places
<1>4. QED
  BY <1>3, FS_CardinalityType DEF HowMany

LEMMA HowManyNone ==
  ASSUME NEW O, NEW t
  PROVE  HowMany(<< >>, O, t) = 0
<1>1. Places(<< >>, O, t) = {}
  BY DEF Places
<1>2. QED
  BY <1>1, FS_EmptySet DEF HowMany

LEMMA HowManyAppend ==
  ASSUME NEW S, NEW s \in Seq(S), NEW e \in S, NEW O, NEW t
  PROVE  HowMany(Append(s, e), O, t) = HowMany(s, O, t) + One(e, O, t)
<1>1. /\ DOMAIN s = 1 .. Len(s) /\ Len(s) \in Nat
      /\ DOMAIN Append(s, e) = 1 .. Len(s) + 1
      /\ \A i \in 1 .. Len(s) : Append(s, e)[i] = s[i]
      /\ Append(s, e)[Len(s) + 1] = e
  OBVIOUS
<1>2. IsFiniteSet(Places(s, O, t)) /\ HowMany(s, O, t) \in Nat
  BY PlacesFinite
<1>3. CASE e[1] \in O /\ e[2] = t
  <2>1. Places(Append(s, e), O, t) = Places(s, O, t) \cup {Len(s) + 1}
    BY <1>1, <1>3 DEF Places
  <2>2. Len(s) + 1 \notin Places(s, O, t)
    BY <1>1 DEF Places
  <2>3. Cardinality(Places(s, O, t) \cup {Len(s) + 1}) = Cardinality(Places(s, O, t)) + 1
    BY <1>2, <2>2, FS_AddElement
  <2>4. One(e, O, t) = 1
    BY <1>3 DEF One
  <2>5. QED
    BY <2>1, <2>3, <2>4 DEF HowMany
<1>4. CASE ~(e[1] \in O /\ e[2] = t)
  <2>1. Places(Append(s, e), O, t) = Places(s, O, t)
    BY <1>1, <1>4 DEF Places
  <2>2. QED
    BY <1>2, <1>4, <2>1 DEF HowMany, One
<1>5. QED
  BY <1>3, <1>4

\* The places of the tail are those of the sequence, one further on.
LEMMA HowManyTail ==
  ASSUME NEW S, NEW s \in Seq(S), s # << >>, NEW O, NEW t
  PROVE  HowMany(s, O, t) = HowMany(Tail(s), O, t) + One(Head(s), O, t)
<1> DEFINE rest == Places(s, O, t) \ {1}
           f == [i \in Places(Tail(s), O, t) |-> i + 1]
<1>1. /\ DOMAIN s = 1 .. Len(s) /\ Len(s) \in Nat /\ Len(s) >= 1 /\ Head(s) = s[1]
      /\ DOMAIN Tail(s) = 1 .. Len(s) - 1 /\ Tail(s) \in Seq(S)
      /\ \A i \in 1 .. Len(s) - 1 : Tail(s)[i] = s[i + 1]
  OBVIOUS
<1>2. /\ IsFiniteSet(Places(Tail(s), O, t)) /\ HowMany(Tail(s), O, t) \in Nat
      /\ IsFiniteSet(Places(s, O, t)) /\ HowMany(s, O, t) \in Nat
  BY <1>1, PlacesFinite
<1>3. f \in Bijection(Places(Tail(s), O, t), rest)
  <2>1. \A i \in Places(Tail(s), O, t) : i \in Nat /\ i + 1 \in rest
    BY <1>1 DEF Places
  <2>2. \A j \in rest : j - 1 \in Places(Tail(s), O, t) /\ j \in Nat
    BY <1>1 DEF Places
  <2>3. \A j \in rest : \E i \in Places(Tail(s), O, t) : f[i] = j
    BY <2>2
  <2>4. \A i, j \in Places(Tail(s), O, t) : f[i] = f[j] => i = j
    BY <2>1
  <2>5. QED
    BY <2>1, <2>3, <2>4 DEF Bijection, Injection, Surjection, IsInjective
<1>4. Cardinality(rest) = HowMany(Tail(s), O, t)
  BY <1>2, <1>3, FS_Bijection DEF ExistsBijection, HowMany
<1>5. One(Head(s), O, t) = IF 1 \in Places(s, O, t) THEN 1 ELSE 0
  BY <1>1 DEF Places, One
<1>6. Cardinality(rest) = IF 1 \in Places(s, O, t) THEN Cardinality(Places(s, O, t)) - 1
                          ELSE Cardinality(Places(s, O, t))
  BY <1>2, FS_RemoveElement
<1> HIDE DEF rest, f
<1>7. QED
  BY <1>2, <1>4, <1>5, <1>6 DEF HowMany

\* The notifications of a synced watcher: one for every object of the store.
LEMMA SetToSeqCounts ==
  ASSUME NEW S, IsFiniteSet(S), NEW O, NEW t
  PROVE  /\ SetToSeq(S) \in Seq(S)
         /\ \A i \in DOMAIN SetToSeq(S) : SetToSeq(S)[i] \in S
         /\ \A i, j \in DOMAIN SetToSeq(S) : SetToSeq(S)[i] = SetToSeq(S)[j] => i = j
         /\ HowMany(SetToSeq(S), O, t) = Cardinality({e \in S : e[1] \in O /\ e[2] = t})
<1> DEFINE s == SetToSeq(S)
           n == Cardinality(S)
           T == {e \in S : e[1] \in O /\ e[2] = t}
           f == [i \in Places(s, O, t) |-> s[i]]
<1>1. n \in Nat /\ ExistsBijection(1 .. n, S)
  BY FS_CardinalityType
<1>2. \E g \in [1 .. n -> S] : IsInjective(g)
  BY <1>1 DEF ExistsBijection, Bijection, Injection, IsInjective
<1>3. s \in [1 .. n -> S] /\ IsInjective(s)
  BY <1>2 DEF SetToSeq
<1>4. s \in Seq(S) /\ DOMAIN s = 1 .. n
  BY <1>1, <1>3
<1>5. \A i, j \in 1 .. n : s[i] = s[j] => i = j
  BY <1>3, <1>4 DEF IsInjective
<1>6. s \in Injection(1 .. n, S)
  BY <1>3 DEF Injection
<1>7. s \in Surjection(1 .. n, S)
  <2>1. IsFiniteSet(1 .. n) /\ Cardinality(1 .. n) = n
    BY <1>1, FS_Interval
  <2>2. QED
    BY <1>6, <2>1, FS_Injection
<1>8. f \in Bijection(Places(s, O, t), T)
  <2>1. \A i \in Places(s, O, t) : i \in 1 .. n /\ s[i] \in T
    BY <1>3, <1>4 DEF Places
  <2>2. \A e \in T : \E i \in 1 .. n : s[i] = e
    BY <1>7 DEF Surjection
  <2>3. \A e \in T : \E i \in Places(s, O, t) : s[i] = e
    BY <1>4, <2>2 DEF Places
  <2>4. QED
    BY <1>5, <2>1, <2>3 DEF Bijection, Injection, Surjection, IsInjective
<1>9. HowMany(s, O, t) = Cardinality(T)
  BY <1>4, <1>8, PlacesFinite, FS_Bijection DEF ExistsBijection, HowMany
<1>10. QED
  BY <1>3, <1>4, <1>5, <1>9

----------------------------------------------------------------------------
(***************************************************************************)
(* Counting in the notifications of all kinds.                             *)
(***************************************************************************)
LEMMA KindsFinite == IsFiniteSet(Kinds)
<1> DEFINE all == {"Deployment", "Namespace", "PersistentVolumeClaim", "Ingress",
                   "Service", "Pod", "Event"}
<1>1. Kinds \subseteq all
  BY ObjectsAssumption DEF Kinds, MetricOfKind
<1>2. IsFiniteSet(all)
  <2> DEFINE f == <<"Deployment", "Namespace", "PersistentVolumeClaim", "Ingress",
                    "Service", "Pod", "Event">>
  <2>1. f \in Surjection(1 .. 7, all)
    <3>1. f \in [1 .. 7 -> all]
      OBVIOUS
    <3>2. \A k \in all : \E i \in 1 .. 7 : f[i] = k
      OBVIOUS
    <3>3. QED
      BY <3>1, <3>2 DEF Surjection
  <2>2. PICK n \in Int : n = 7
    OBVIOUS
  <2>3. IsFiniteSet(1 .. n)
    BY FS_Interval
  <2>4. QED
    BY <2>1, <2>2, <2>3, FS_Surjection
<1>3. QED
  BY <1>1, <1>2, FS_Subset

LEMMA NotifiedFinite ==
  ASSUME NEW S, NEW n \in [Kinds -> Seq(S)], NEW O, NEW t
  PROVE  IsFiniteSet(NotifiedPlaces(n, O, t)) /\ Notified(n, O, t) \in Nat
<1> DEFINE here(k) == {k} \X Places(n[k], O, t)
           f == [k \in Kinds |-> here(k)]
           parts == {here(k) : k \in Kinds}
<1>1. f \in Surjection(Kinds, parts)
  BY DEF Surjection
<1>2. IsFiniteSet(parts)
  BY <1>1, KindsFinite, FS_Surjection
<1>3. \A k \in Kinds : IsFiniteSet(here(k))
  BY PlacesFinite, FS_Singleton, FS_Product
<1>4. IsFiniteSet(UNION parts)
  BY <1>2, <1>3, FS_UNION
<1>5. NotifiedPlaces(n, O, t) \subseteq UNION parts
  <2>1. SUFFICES ASSUME NEW p \in NotifiedPlaces(n, O, t)
                 PROVE  p \in here(p[1]) /\ p[1] \in Kinds
    OBVIOUS
  <2>2. QED
    BY DEF NotifiedPlaces
<1>6. QED
  BY <1>4, <1>5, FS_Subset, FS_CardinalityType DEF Notified

LEMMA NotifiedNone ==
  ASSUME NEW n, \A k \in Kinds : n[k] = << >>, NEW O, NEW t
  PROVE  Notified(n, O, t) = 0
<1>1. NotifiedPlaces(n, O, t) = {}
  BY DEF NotifiedPlaces, Places
<1>2. QED
  BY <1>1, FS_EmptySet DEF Notified

\* What one kind has and what the others have.
Elsewhere(n, k, O, t) == {p \in NotifiedPlaces(n, O, t) : p[1] # k}

LEMMA NotifiedSplit ==
  ASSUME NEW S, NEW n \in [Kinds -> Seq(S)], NEW k \in Kinds, NEW O, NEW t
  PROVE  Notified(n, O, t) = HowMany(n[k], O, t) + Cardinality(Elsewhere(n, k, O, t))
<1> DEFINE here == {p \in NotifiedPlaces(n, O, t) : p[1] = k}
           rest == {p \in NotifiedPlaces(n, O, t) : p[1] # k}
           f == [i \in Places(n[k], O, t) |-> <<k, i>>]
<1>1. IsFiniteSet(NotifiedPlaces(n, O, t))
  BY NotifiedFinite
<1>2. IsFiniteSet(here) /\ IsFiniteSet(rest)
  BY <1>1, FS_Subset
<1>3. here \cup rest = NotifiedPlaces(n, O, t) /\ here \cap rest = {}
  OBVIOUS
<1>4. Cardinality(here) \in Nat /\ Cardinality(rest) \in Nat /\ Cardinality({}) = 0
  BY <1>2, FS_CardinalityType, FS_EmptySet
<1>5. f \in Bijection(Places(n[k], O, t), here)
  <2>1. \A i \in Places(n[k], O, t) : <<k, i>> \in here
    BY DEF NotifiedPlaces, Places
  <2>2. \A p \in here : p[2] \in Places(n[k], O, t) /\ p = <<k, p[2]>>
    BY DEF NotifiedPlaces
  <2>3. \A p \in here : \E i \in Places(n[k], O, t) : f[i] = p
    BY <2>2
  <2>4. QED
    BY <2>1, <2>3 DEF Bijection, Injection, Surjection, IsInjective
<1>6. Cardinality(here) = HowMany(n[k], O, t)
  <2>1. IsFiniteSet(Places(n[k], O, t))
    BY PlacesFinite
  <2>2. QED
    BY <1>5, <2>1, FS_Bijection DEF ExistsBijection, HowMany
<1>7. Cardinality(here \cup rest) = Cardinality(here) + Cardinality(rest) - Cardinality(here \cap rest)
  BY <1>2, FS_Union
<1> HIDE DEF here, rest
<1>8. Cardinality(here \cap rest) = 0 /\ Notified(n, O, t) = Cardinality(here \cup rest)
  BY <1>3, <1>4 DEF Notified
<1>9. Notified(n, O, t) = Cardinality(here) + Cardinality(rest)
  BY <1>4, <1>7, <1>8
<1>10. QED
  BY <1>4, <1>6, <1>9 DEF rest, Elsewhere

\* When the notifications of one kind change, so does what they count.
Moved(n, r, k, O, t) ==
  Notified(r, O, t) + HowMany(n[k], O, t) = Notified(n, O, t) + HowMany(r[k], O, t)

LEMMA NotifiedElsewhere ==
  ASSUME NEW n \in [Kinds -> Seq(Notification)], NEW r \in [Kinds -> Seq(Notification)],
         NEW k \in Kinds, \A x \in Kinds : x # k => r[x] = n[x], NEW O, NEW t
  PROVE  Moved(n, r, k, O, t)
<1>1. Elsewhere(r, k, O, t) = Elsewhere(n, k, O, t)
  BY DEF Elsewhere, NotifiedPlaces
<1>2. \A x \in [Kinds -> Seq(Notification)] :
        Notified(x, O, t) = HowMany(x[k], O, t) + Cardinality(Elsewhere(x, k, O, t))
  BY NotifiedSplit
<1>3. IsFiniteSet(Elsewhere(n, k, O, t)) /\ Cardinality(Elsewhere(n, k, O, t)) \in Nat
  <2>1. IsFiniteSet(NotifiedPlaces(n, O, t))
    BY NotifiedFinite
  <2>2. QED
    BY <2>1, FS_Subset, FS_CardinalityType DEF Elsewhere
<1>4. HowMany(n[k], O, t) \in Nat /\ HowMany(r[k], O, t) \in Nat
  BY PlacesFinite
<1>5. Notified(r, O, t) = HowMany(r[k], O, t) + Cardinality(Elsewhere(n, k, O, t))
  BY <1>1, <1>2
<1>6. Notified(n, O, t) = HowMany(n[k], O, t) + Cardinality(Elsewhere(n, k, O, t))
  BY <1>2
<1>7. QED
  BY <1>3, <1>4, <1>5, <1>6 DEF Moved

----------------------------------------------------------------------------
(***************************************************************************)
(* Types.                                                                  *)
(***************************************************************************)
LEMMA AppendElements ==
  ASSUME NEW S, NEW s \in Seq(S), NEW e \in S
  PROVE  /\ Append(s, e) \in Seq(S)
         /\ DOMAIN s = 1 .. Len(s) /\ Len(s) \in Nat
         /\ DOMAIN Append(s, e) = 1 .. Len(s) + 1
         /\ \A i \in 1 .. Len(s) : Append(s, e)[i] = s[i]
         /\ Append(s, e)[Len(s) + 1] = e
         /\ Range(Append(s, e)) = Range(s) \cup {e}
<1>1. /\ Append(s, e) \in Seq(S)
      /\ DOMAIN s = 1 .. Len(s) /\ Len(s) \in Nat
      /\ DOMAIN Append(s, e) = 1 .. Len(s) + 1
      /\ \A i \in 1 .. Len(s) : Append(s, e)[i] = s[i]
      /\ Append(s, e)[Len(s) + 1] = e
  OBVIOUS
<1>2. ASSUME NEW x \in Range(Append(s, e))
      PROVE  x \in Range(s) \cup {e}
  <2>1. PICK i \in 1 .. Len(s) + 1 : x = Append(s, e)[i]
    BY <1>1 DEF Range
  <2>2. CASE i = Len(s) + 1
    BY <1>1, <2>1, <2>2
  <2>3. CASE i # Len(s) + 1
    <3>1. i \in 1 .. Len(s)
      BY <1>1, <2>3
    <3>2. QED
      BY <1>1, <2>1, <3>1 DEF Range
  <2>4. QED
    BY <2>2, <2>3
<1>3. ASSUME NEW x \in Range(s) \cup {e}
      PROVE  x \in Range(Append(s, e))
  <2>1. CASE x = e
    <3>1. Len(s) + 1 \in 1 .. Len(s) + 1
      BY <1>1
    <3>2. QED
      BY <1>1, <2>1, <3>1 DEF Range
  <2>2. CASE x \in Range(s)
    <3>1. PICK i \in 1 .. Len(s) : x = s[i]
      BY <1>1, <2>2 DEF Range
    <3>2. i \in 1 .. Len(s) + 1
      BY <1>1
    <3>3. QED
      BY <1>1, <3>1, <3>2 DEF Range
  <2>3. QED
    BY <2>1, <2>2
<1>4. QED
  BY <1>1, <1>2, <1>3

LEMMA TailElements ==
  ASSUME NEW S, NEW s \in Seq(S), s # << >>
  PROVE  /\ Head(s) = s[1] /\ Head(s) \in S /\ Tail(s) \in Seq(S)
         /\ DOMAIN s = 1 .. Len(s) /\ Len(s) \in Nat /\ Len(s) >= 1
         /\ DOMAIN Tail(s) = 1 .. Len(s) - 1
         /\ \A i \in 1 .. Len(s) - 1 : Tail(s)[i] = s[i + 1]
         /\ Range(s) = Range(Tail(s)) \cup {Head(s)}
<1>1. /\ Head(s) = s[1] /\ Head(s) \in S /\ Tail(s) \in Seq(S)
      /\ DOMAIN s = 1 .. Len(s) /\ Len(s) \in Nat /\ Len(s) >= 1
      /\ DOMAIN Tail(s) = 1 .. Len(s) - 1
      /\ \A i \in 1 .. Len(s) - 1 : Tail(s)[i] = s[i + 1]
  OBVIOUS
<1>2. ASSUME NEW x \in Range(s)
      PROVE  x \in Range(Tail(s)) \cup {Head(s)}
  <2>1. PICK i \in 1 .. Len(s) : x = s[i]
    BY <1>1 DEF Range
  <2>2. CASE i = 1
    BY <1>1, <2>1, <2>2
  <2>3. CASE i # 1
    <3>1. i - 1 \in 1 .. Len(s) - 1 /\ (i - 1) + 1 = i
      BY <1>1, <2>3
    <3>2. x = Tail(s)[i - 1]
      BY <1>1, <2>1, <3>1
    <3>3. QED
      BY <1>1, <3>1, <3>2 DEF Range
  <2>4. QED
    BY <2>2, <2>3
<1>3. ASSUME NEW x \in Range(Tail(s)) \cup {Head(s)}
      PROVE  x \in Range(s)
  <2>1. CASE x = Head(s)
    <3>1. 1 \in DOMAIN s
      BY <1>1
    <3>2. QED
      BY <1>1, <2>1, <3>1 DEF Range
  <2>2. CASE x \in Range(Tail(s))
    <3>1. PICK i \in 1 .. Len(s) - 1 : x = Tail(s)[i]
      BY <1>1, <2>2 DEF Range
    <3>2. x = s[i + 1] /\ i + 1 \in DOMAIN s
      BY <1>1, <3>1
    <3>3. QED
      BY <3>2 DEF Range
  <2>3. QED
    BY <2>1, <2>2
<1>4. QED
  BY <1>1, <1>2, <1>3

LEMMA MetricsTypeInit == Init => MetricsTypeOK
<1> SUFFICES ASSUME Init PROVE MetricsTypeOK
  OBVIOUS
<1>1. InformersOK
  <2>1. \A o \in Existing : KindOf[o] \in Kinds
    BY ObjectsAssumption DEF Kinds
  <2>2. \A k \in Kinds : ListOK(<< >>, k)
    BY DEF ListOK
  <2>3. /\ DOMAIN objects = Existing
        /\ \A o \in Existing : objects[o] \in State /\ objects[o].kind = KindOf[o]
    BY <2>1, ObjectsAssumption DEF Init, StateOf, State
  <2>4. notifications \in [Kinds -> Seq(Notification)] /\ \A k \in Kinds : notifications[k] = << >>
    BY DEF Init
  <2>5. QED
    BY <2>2, <2>3, <2>4, ObjectsAssumption DEF Init, InformersOK
<1>2. DispatcherOK
  <2>1. Range(<< >>) = {}
    BY DEF Range
  <2>2. IsFiniteSet({})
    BY FS_EmptySet
  <2>3. \A e \in Dispatchable : e # NoEvent
    BY ObjectsAssumption DEF Dispatchable
  <2>4. /\ << >> = [k \in DOMAIN << >> |-> << >>[k]] /\ DOMAIN << >> = {}
        /\ << >> \in Seq(Dispatchable)
    OBVIOUS
  <2>5. requeues \in [Dispatchable -> Nat]
    BY DEF Init, Dispatchable
  <2>6. \A e \in Dispatchable : e \notin Range(queue) \cup delayed \cup {current}
    BY <2>1, <2>3 DEF Init
  <2>7. QED
    BY <2>2, <2>4, <2>5, <2>6 DEF Init, DispatcherOK
<1>3. CountersOK
  BY DEF Init, CountersOK, Counter
<1>4. QED
  BY <1>1, <1>2, <1>3 DEF MetricsTypeOK

\* A change of the cluster: what is appended to the notifications of a kind.
LEMMA NotifyKeepsType ==
  ASSUME InformersOK, NEW o \in Objects, NEW n \in Notification, n[1] = o,
         n[2] = "delete" => n[3].kind = KindOf[o],
         notifications' = [notifications EXCEPT ![KindOf[o]] =
                             IF KindOf[o] \in synced THEN Append(@, n) ELSE @],
         synced' = synced
  PROVE  /\ notifications' \in [Kinds -> Seq(Notification)]
         /\ \A k \in Kinds \ synced' : notifications'[k] = << >>
         /\ \A k \in Kinds : ListOK(notifications'[k], k)
<1> DEFINE k0 == KindOf[o]
<1>1. k0 \in Kinds
  BY DEF Kinds
<1>2. notifications \in [Kinds -> Seq(Notification)] /\ ListOK(notifications[k0], k0)
  BY <1>1 DEF InformersOK
<1>3. CASE k0 \notin synced
  <2>1. notifications' = notifications
    BY <1>1, <1>2, <1>3
  <2>2. QED
    BY <2>1 DEF InformersOK
<1>4. CASE k0 \in synced
  <2> DEFINE s == notifications[k0]
  <2>1. /\ Append(s, n) \in Seq(Notification) /\ DOMAIN s = 1 .. Len(s) /\ Len(s) \in Nat
        /\ DOMAIN Append(s, n) = 1 .. Len(s) + 1
        /\ \A i \in 1 .. Len(s) : Append(s, n)[i] = s[i]
        /\ Append(s, n)[Len(s) + 1] = n
    BY <1>1, <1>2, AppendElements
  <2>2. /\ notifications' \in [Kinds -> Seq(Notification)] /\ notifications'[k0] = Append(s, n)
        /\ \A k \in Kinds : k # k0 => notifications'[k] = notifications[k]
    BY <1>1, <1>2, <1>4, <2>1
  <2>3. ASSUME NEW i \in DOMAIN Append(s, n)
        PROVE  /\ KindOf[Append(s, n)[i][1]] = k0
               /\ Append(s, n)[i][2] = "delete" => Append(s, n)[i][3].kind = k0
    <3>1. CASE i = Len(s) + 1
      BY <2>1, <3>1
    <3>2. CASE i # Len(s) + 1
      <4>1. i \in DOMAIN s /\ Append(s, n)[i] = s[i]
        BY <2>1, <3>2
      <4>2. QED
        BY <1>2, <4>1 DEF ListOK
    <3>3. QED
      BY <3>1, <3>2
  <2>4. ListOK(notifications'[k0], k0)
    BY <2>2, <2>3 DEF ListOK
  <2>5. \A k \in Kinds : k # k0 => ListOK(notifications'[k], k)
    BY <2>2 DEF InformersOK
  <2>6. \A k \in Kinds \ synced' : notifications'[k] = << >>
    BY <1>4, <2>2 DEF InformersOK
  <2>7. QED
    BY <2>2, <2>4, <2>5, <2>6
<1>5. QED
  BY <1>3, <1>4

LEMMA ClusterKeepsType ==
  ASSUME MetricsTypeOK, Cluster
  PROVE  MetricsTypeOK'
<1>1. PICK o \in Objects : Appears(o) \/ Updates(o) \/ \E tombstone \in BOOLEAN : Disappears(o, tombstone)
  BY DEF Cluster
<1>2. KindOf[o] \in Kinds
  BY DEF Kinds
<1>3. DispatcherOK'
  <2>1. UNCHANGED <<synced, deleted, queue, again, delayed, requeues, pc, current, fetched>>
    BY <1>1 DEF Appears, Updates, Disappears, Change, queueVars, workerVars
  <2>2. QED
    BY <2>1 DEF MetricsTypeOK, DispatcherOK
<1>4. CountersOK'
  <2>1. counters' = counters /\ warnings' \in {warnings, warnings + 1}
    BY <1>1 DEF Appears, Updates, Disappears, Change, Warn
  <2>2. QED
    BY <2>1 DEF MetricsTypeOK, CountersOK
<1>5. synced' = synced
  BY <1>1 DEF Appears, Updates, Disappears, Change
<1>6. CASE Appears(o)
  <2>1. \A x \in DOMAIN objects' : objects'[x] \in State /\ objects'[x].kind = KindOf[x]
    BY <1>2, <1>6 DEF Appears, StateOf, State, MetricsTypeOK, InformersOK
  <2>2. IsFiniteSet(DOMAIN objects')
    BY <1>6, FS_AddElement DEF Appears, MetricsTypeOK, InformersOK
  <2>3. objects' = [x \in DOMAIN objects' |-> objects'[x]] /\ DOMAIN objects' \subseteq Objects
    BY <1>6 DEF Appears, MetricsTypeOK, InformersOK
  <2>4. <<o, "add">> \in Notification
    BY DEF Notification
  <2>5. /\ notifications' \in [Kinds -> Seq(Notification)]
        /\ \A k \in Kinds \ synced' : notifications'[k] = << >>
        /\ \A k \in Kinds : ListOK(notifications'[k], k)
    BY <1>5, <1>6, <2>4, NotifyKeepsType DEF Appears, Notify, MetricsTypeOK
  <2>6. InformersOK'
    BY <1>5, <2>1, <2>2, <2>3, <2>5 DEF MetricsTypeOK, InformersOK
  <2>7. QED
    BY <1>3, <1>4, <2>6 DEF MetricsTypeOK
<1>7. CASE Updates(o)
  <2>1. /\ DOMAIN objects' = DOMAIN objects
        /\ \A x \in DOMAIN objects' : objects'[x] \in State /\ objects'[x].kind = KindOf[x]
    <3>1. objects[o] \in State /\ objects[o].kind = KindOf[o] /\ o \in DOMAIN objects
      BY <1>7 DEF Updates, MetricsTypeOK, InformersOK
    <3>2. /\ DOMAIN objects' = DOMAIN objects
          /\ \A x \in DOMAIN objects : x # o => objects'[x] = objects[x]
          /\ objects'[o] = [objects[o] EXCEPT !.recent = TRUE, !.count = @ + 1]
      BY <1>7, <3>1 DEF Updates, MetricsTypeOK, InformersOK
    <3>3. objects'[o] \in State /\ objects'[o].kind = KindOf[o]
      <4> DEFINE r == objects[o]
      <4>1. r = [kind |-> r.kind, new |-> r.new, recent |-> r.recent, count |-> r.count]
        BY <3>1 DEF State
      <4>2. r.kind \in Kinds /\ r.new \in BOOLEAN /\ r.count \in Nat
        BY <3>1 DEF State
      <4>3. objects'[o] = [kind |-> r.kind, new |-> r.new, recent |-> TRUE, count |-> r.count + 1]
        BY <3>2, <4>1
      <4>4. QED
        BY <3>1, <4>2, <4>3 DEF State
    <3>4. QED
      BY <3>2, <3>3 DEF MetricsTypeOK, InformersOK
  <2>2. objects' = [x \in DOMAIN objects' |-> objects'[x]]
    BY <1>7 DEF Updates, MetricsTypeOK, InformersOK
  <2>3. <<o, "update">> \in Notification
    BY DEF Notification
  <2>4. /\ notifications' \in [Kinds -> Seq(Notification)]
        /\ \A k \in Kinds \ synced' : notifications'[k] = << >>
        /\ \A k \in Kinds : ListOK(notifications'[k], k)
    BY <1>5, <1>7, <2>3, NotifyKeepsType DEF Updates, Notify, MetricsTypeOK
  <2>5. InformersOK'
    BY <1>5, <2>1, <2>2, <2>4 DEF MetricsTypeOK, InformersOK
  <2>6. QED
    BY <1>3, <1>4, <2>5 DEF MetricsTypeOK
<1>8. ASSUME NEW tombstone \in BOOLEAN, Disappears(o, tombstone)
      PROVE  MetricsTypeOK'
  <2> DEFINE n == IF tombstone THEN <<o, "tombstone">> ELSE <<o, "delete", objects[o]>>
  <2>1. /\ DOMAIN objects' = DOMAIN objects \ {o}
        /\ \A x \in DOMAIN objects' : objects'[x] \in State /\ objects'[x].kind = KindOf[x]
    BY <1>8 DEF Disappears, MetricsTypeOK, InformersOK
  <2>2. objects' = [x \in DOMAIN objects' |-> objects'[x]] /\ IsFiniteSet(DOMAIN objects')
    BY <1>8, FS_RemoveElement DEF Disappears, MetricsTypeOK, InformersOK
  <2>3. objects[o] \in State /\ objects[o].kind = KindOf[o]
    BY <1>8 DEF Disappears, MetricsTypeOK, InformersOK
  <2>4. n \in Notification /\ n[1] = o /\ (n[2] = "delete" => n[3].kind = KindOf[o])
    BY <2>3 DEF Notification
  <2>5. notifications' = [notifications EXCEPT ![KindOf[o]] =
                            IF KindOf[o] \in synced THEN Append(@, n) ELSE @]
    BY <1>8 DEF Disappears
  <2> HIDE DEF n
  <2>6. /\ notifications' \in [Kinds -> Seq(Notification)]
        /\ \A k \in Kinds \ synced' : notifications'[k] = << >>
        /\ \A k \in Kinds : ListOK(notifications'[k], k)
    BY <1>5, <2>4, <2>5, NotifyKeepsType DEF MetricsTypeOK
  <2>7. InformersOK'
    BY <1>5, <2>1, <2>2, <2>6 DEF MetricsTypeOK, InformersOK
  <2>8. QED
    BY <1>3, <1>4, <2>7 DEF MetricsTypeOK
<1>9. QED
  BY <1>1, <1>6, <1>7, <1>8

\* The delivery of the first notification of a kind.
LEMMA HandlerEffect ==
  ASSUME MetricsTypeOK, NEW kind \in Kinds, NEW type, Handler(kind, type)
  PROVE  LET n == Head(notifications[kind]) IN
         /\ InformersOK' /\ CountersOK' /\ kind \in synced
         /\ notifications[kind] \in Seq(Notification) /\ notifications[kind] # << >>
         /\ n \in Notification /\ n[1] \in Objects /\ KindOf[n[1]] = kind /\ n[2] = type
         /\ n[2] = "delete" => n[3] \in State /\ n[3].kind = kind
         /\ notifications'[kind] = Tail(notifications[kind])
         /\ \A k \in Kinds : k # kind => notifications'[k] = notifications[k]
<1> DEFINE s == notifications[kind]
           n == Head(notifications[kind])
<1>1. /\ s \in Seq(Notification) /\ s # << >> /\ kind \in synced /\ ListOK(s, kind)
      /\ notifications \in [Kinds -> Seq(Notification)]
  BY DEF MetricsTypeOK, InformersOK, Handler
<1>2. /\ n = s[1] /\ n \in Notification /\ Tail(s) \in Seq(Notification)
      /\ DOMAIN s = 1 .. Len(s) /\ Len(s) \in Nat /\ Len(s) >= 1
      /\ DOMAIN Tail(s) = 1 .. Len(s) - 1
      /\ \A i \in 1 .. Len(s) - 1 : Tail(s)[i] = s[i + 1]
  BY <1>1, TailElements
<1>3. KindOf[n[1]] = kind /\ (n[2] = "delete" => n[3].kind = kind)
  BY <1>1, <1>2 DEF ListOK
<1>4. n[1] \in Objects /\ (n[2] = "delete" => n[3] \in State)
  BY <1>2 DEF Notification
<1>5. /\ notifications' \in [Kinds -> Seq(Notification)] /\ notifications'[kind] = Tail(s)
      /\ \A k \in Kinds : k # kind => notifications'[k] = notifications[k]
  BY <1>1, <1>2 DEF Handler
<1>6. ListOK(Tail(s), kind)
  <2>1. SUFFICES ASSUME NEW i \in DOMAIN Tail(s)
                 PROVE  /\ KindOf[Tail(s)[i][1]] = kind
                        /\ Tail(s)[i][2] = "delete" => Tail(s)[i][3].kind = kind
    BY DEF ListOK
  <2>2. i + 1 \in DOMAIN s /\ Tail(s)[i] = s[i + 1]
    BY <1>2
  <2>3. QED
    BY <1>1, <2>2 DEF ListOK
<1>7. InformersOK'
  <2>1. UNCHANGED <<objects, synced>>
    BY DEF Handler
  <2>2. \A k \in Kinds : ListOK(notifications'[k], k) /\ (k \notin synced => notifications'[k] = << >>)
    BY <1>1, <1>5, <1>6 DEF MetricsTypeOK, InformersOK
  <2>3. QED
    BY <1>5, <2>1, <2>2 DEF MetricsTypeOK, InformersOK
<1>8. CountersOK'
  BY DEF Handler, MetricsTypeOK, CountersOK
<1>9. n[2] = type
  BY DEF Handler
<1>10. QED
  BY <1>1, <1>2, <1>3, <1>4, <1>5, <1>7, <1>8, <1>9

\* The event enters the queue, or will when the worker is done with its copy.
Enters(e) ==
  /\ queue' = IF Queued(e) \/ e = current THEN queue ELSE Append(queue, e)
  /\ again' = (again \/ (e = current /\ pc \in {"fetch", "handle"}))

LEMMA EntersEffect ==
  ASSUME DispatcherOK, NEW e \in Dispatchable, pc # "panicked", Enters(e), UNCHANGED <<pc, current>>
  PROVE  /\ queue' \in Seq(Dispatchable) /\ again' \in BOOLEAN
         /\ pc \in {"starting", "idle"} => ~again'
         /\ e = current => pc \in {"fetch", "handle"} /\ again' /\ queue' = queue
         /\ e # current => again' = again /\ e \in Range(queue')
         /\ Range(queue') \subseteq Range(queue) \cup {e}
         /\ Range(queue) \subseteq Range(queue')
         /\ e \in Range(queue') \cup {current}
<1>1. /\ queue \in Seq(Dispatchable) /\ Append(queue, e) \in Seq(Dispatchable)
      /\ Range(Append(queue, e)) = Range(queue) \cup {e}
  BY AppendElements DEF DispatcherOK
<1>2. e # NoEvent
  BY ObjectsAssumption DEF Dispatchable
<1>3. e = current => pc \in {"fetch", "handle"}
  BY <1>2 DEF DispatcherOK
<1>4. again \in BOOLEAN /\ (pc \in {"starting", "idle"} => ~again)
  BY DEF DispatcherOK
<1>5. CASE e = current
  BY <1>1, <1>3, <1>4, <1>5 DEF Enters
<1>6. CASE e # current /\ e \in Range(queue)
  BY <1>1, <1>4, <1>6 DEF Enters, Queued
<1>7. CASE e # current /\ e \notin Range(queue)
  <2>1. queue' = Append(queue, e) /\ again' = again
    BY <1>4, <1>7 DEF Enters, Queued
  <2>2. QED
    BY <1>1, <1>4, <1>7, <2>1
<1>8. QED
  BY <1>5, <1>6, <1>7

LEMMA EntersKeepsType ==
  ASSUME DispatcherOK, NEW e \in Dispatchable, KindOf[e[1]] \in synced, pc # "panicked", Enters(e),
         UNCHANGED <<pc, current, fetched, synced, requeues>>, delayed' \subseteq delayed,
         deleted' = [k \in DOMAIN deleted' |-> deleted'[k]],
         \A k \in DOMAIN deleted' : deleted'[k] \in State
  PROVE  DispatcherOK'
<1>1. /\ queue' \in Seq(Dispatchable) /\ again' \in BOOLEAN
      /\ pc \in {"starting", "idle"} => ~again'
      /\ Range(queue') \subseteq Range(queue) \cup {e}
  BY EntersEffect
<1>2. IsFiniteSet(delayed')
  BY FS_Subset DEF DispatcherOK
<1>3. \A x \in Dispatchable : x \in Range(queue') \cup delayed' \cup {current'} => KindOf[x[1]] \in synced'
  BY <1>1 DEF DispatcherOK
<1>4. QED
  BY <1>1, <1>2, <1>3 DEF DispatcherOK

LEMMA DeliverKeepsType ==
  ASSUME MetricsTypeOK, Deliver
  PROVE  MetricsTypeOK'
<1>1. PICK kind \in Kinds : OnAdd(kind) \/ OnUpdate(kind) \/ OnDelete(kind) \/ OnDeleteUnknown(kind)
  BY DEF Deliver
<1> DEFINE n == Head(notifications[kind])
<1>2. PICK type : Handler(kind, type)
  BY <1>1 DEF OnAdd, OnUpdate, OnDelete, OnDeleteUnknown
<1>3. /\ InformersOK' /\ CountersOK' /\ kind \in synced
      /\ n[1] \in Objects /\ KindOf[n[1]] = kind /\ n[2] = type
      /\ n[2] = "delete" => n[3] \in State
  BY <1>2, HandlerEffect
<1>4. UNCHANGED <<pc, current, fetched, synced>> /\ pc # "panicked" /\ DispatcherOK
  BY <1>2 DEF Handler, workerVars, MetricsTypeOK
<1> HIDE DEF n
<1>5. CASE OnAdd(kind)
  <2>1. /\ Enters(<<n[1], "add">>) /\ UNCHANGED <<deleted, delayed, requeues>>
        /\ <<n[1], "add">> \in Dispatchable
    BY <1>3, <1>5 DEF OnAdd, AddAndCount, Add, Enters, n, Dispatchable, Types
  <2>2. DispatcherOK'
    BY <1>3, <1>4, <2>1, EntersKeepsType DEF DispatcherOK
  <2>3. QED
    BY <1>3, <2>2 DEF MetricsTypeOK
<1>6. CASE OnUpdate(kind)
  <2>1. /\ Enters(<<n[1], "update">>) /\ UNCHANGED <<deleted, delayed, requeues>>
        /\ <<n[1], "update">> \in Dispatchable
    BY <1>3, <1>6 DEF OnUpdate, Add, Enters, n, Dispatchable, Types
  <2>2. DispatcherOK'
    BY <1>3, <1>4, <2>1, EntersKeepsType DEF DispatcherOK
  <2>3. QED
    BY <1>3, <2>2 DEF MetricsTypeOK
<1>7. CASE OnDelete(kind)
  <2>1. /\ Enters(<<n[1], "delete">>) /\ UNCHANGED <<delayed, requeues>>
        /\ <<n[1], "delete">> \in Dispatchable
    BY <1>3, <1>7 DEF OnDelete, AddAndCount, Add, Enters, n, Dispatchable, Types
  <2>2. /\ n[3] \in State
        /\ deleted' = [k \in DOMAIN deleted \cup {KeyOf[n[1]]} |->
                         IF k = KeyOf[n[1]] THEN n[3] ELSE deleted[k]]
    BY <1>3, <1>7 DEF OnDelete, Handler, n
  <2>3. /\ deleted' = [k \in DOMAIN deleted' |-> deleted'[k]]
        /\ \A k \in DOMAIN deleted' : deleted'[k] \in State
    BY <1>4, <2>2 DEF DispatcherOK
  <2>4. DispatcherOK'
    BY <1>3, <1>4, <2>1, <2>3, EntersKeepsType
  <2>5. QED
    BY <1>3, <2>4 DEF MetricsTypeOK
<1>8. CASE OnDeleteUnknown(kind)
  <2>1. UNCHANGED <<deleted, queue, again, delayed, requeues>>
    BY <1>8 DEF OnDeleteUnknown, queueVars
  <2>2. DispatcherOK'
    BY <1>4, <2>1 DEF DispatcherOK
  <2>3. QED
    BY <1>3, <2>2 DEF MetricsTypeOK
<1>9. QED
  BY <1>1, <1>5, <1>6, <1>7, <1>8

\* The adds of a watcher that has synced, one for each object in its store.
AddsOf(kind) == {<<o, "add">> : o \in {x \in DOMAIN objects : KindOf[x] = kind}}

LEMMA AddsFinite ==
  ASSUME InformersOK, NEW kind
  PROVE  IsFiniteSet(AddsOf(kind)) /\ AddsOf(kind) \subseteq Notification
<1> DEFINE S == {x \in DOMAIN objects : KindOf[x] = kind}
           f == [x \in S |-> <<x, "add">>]
<1>1. IsFiniteSet(S)
  BY FS_Subset DEF InformersOK
<1>2. f \in Surjection(S, AddsOf(kind))
  BY DEF Surjection, AddsOf
<1>3. QED
  BY <1>1, <1>2, FS_Surjection DEF AddsOf, Notification, InformersOK

LEMMA StartKeepsType ==
  ASSUME MetricsTypeOK, Start
  PROVE  MetricsTypeOK'
<1>1. CASE DispatcherStart
  <2>1. UNCHANGED <<objects, synced, notifications, deleted, queue, again, delayed, requeues,
                    current, fetched, counters, warnings>>
    BY <1>1 DEF DispatcherStart, informerVars, queueVars
  <2>2. QED
    BY <1>1, <2>1 DEF DispatcherStart, MetricsTypeOK, InformersOK, DispatcherOK, CountersOK
<1>2. ASSUME NEW kind \in Kinds, WatcherStart(kind)
      PROVE  MetricsTypeOK'
  <2> DEFINE s == SetToSeq(AddsOf(kind))
  <2>1. UNCHANGED <<objects, deleted, queue, again, delayed, requeues, pc, current, fetched,
                    counters, warnings>>
    BY <1>2 DEF WatcherStart, queueVars, workerVars
  <2>2. notifications' = [notifications EXCEPT ![kind] = s] /\ synced' = synced \cup {kind}
    BY <1>2 DEF WatcherStart, AddsOf
  <2>3. s \in Seq(AddsOf(kind)) /\ \A i \in DOMAIN s : s[i] \in AddsOf(kind)
    BY AddsFinite, SetToSeqCounts DEF MetricsTypeOK
  <2>4. s \in Seq(Notification)
    BY <2>3, AddsFinite DEF MetricsTypeOK
  <2>5. ListOK(s, kind)
    BY <2>3 DEF ListOK, AddsOf
  <2> HIDE DEF s
  <2>6. InformersOK'
    BY <2>1, <2>2, <2>4, <2>5 DEF MetricsTypeOK, InformersOK
  <2>7. DispatcherOK'
    BY <1>2, <2>1, <2>2 DEF WatcherStart, MetricsTypeOK, DispatcherOK
  <2>8. QED
    BY <2>1, <2>6, <2>7 DEF MetricsTypeOK, CountersOK
<1>3. QED
  BY <1>1, <1>2 DEF Start

LEMMA GetEffect ==
  ASSUME DispatcherOK, Get
  PROVE  /\ queue \in Seq(Dispatchable) /\ queue # << >> /\ current' = Head(queue)
         /\ current' \in Dispatchable /\ queue' = Tail(queue) /\ queue' \in Seq(Dispatchable)
         /\ current = NoEvent /\ ~again /\ pc = "idle" /\ pc' = "fetch"
         /\ Range(queue) = Range(queue') \cup {current'}
         /\ UNCHANGED <<objects, synced, notifications, deleted, again, delayed, requeues, fetched,
                        counters, changes, expired, lost, warnings>>
<1>1. queue \in Seq(Dispatchable) /\ queue # << >>
  BY DEF DispatcherOK, Get
<1>2. /\ Head(queue) \in Dispatchable /\ Tail(queue) \in Seq(Dispatchable)
      /\ Range(queue) = Range(Tail(queue)) \cup {Head(queue)}
  BY <1>1, TailElements
<1>3. QED
  BY <1>1, <1>2 DEF DispatcherOK, Get, informerVars

LEMMA DoneEffect ==
  ASSUME DispatcherOK, pc \in {"fetch", "handle"}, NEW retry \in BOOLEAN, Done(retry)
  PROVE  /\ current \in Dispatchable /\ current # NoEvent
         /\ queue' = IF again THEN Append(queue, current) ELSE queue
         /\ queue' \in Seq(Dispatchable) /\ ~again'
         /\ Range(queue') = Range(queue) \cup (IF again THEN {current} ELSE {})
         /\ delayed' = IF retry THEN delayed \cup {current} ELSE delayed
         /\ delayed' \subseteq Dispatchable /\ IsFiniteSet(delayed')
         /\ requeues' \in [Dispatchable -> Nat]
         /\ current' = NoEvent /\ pc' = "idle"
<1>1. current \in Dispatchable /\ current # NoEvent
  BY ObjectsAssumption DEF DispatcherOK, Dispatchable
<1>2. /\ Append(queue, current) \in Seq(Dispatchable)
      /\ Range(Append(queue, current)) = Range(queue) \cup {current}
  BY <1>1, AppendElements DEF DispatcherOK
<1>3. delayed' \subseteq Dispatchable /\ IsFiniteSet(delayed')
  BY <1>1, FS_AddElement DEF DispatcherOK, Done
<1>4. requeues' \in [Dispatchable -> Nat]
  BY <1>1 DEF DispatcherOK, Done
<1>5. QED
  BY <1>1, <1>2, <1>3, <1>4 DEF DispatcherOK, Done

LEMMA DoneKeepsType ==
  ASSUME DispatcherOK, pc \in {"fetch", "handle"}, NEW retry \in BOOLEAN, Done(retry),
         UNCHANGED <<synced, deleted>>
  PROVE  DispatcherOK'
<1>1. /\ queue' \in Seq(Dispatchable) /\ ~again' /\ again' = FALSE
      /\ Range(queue') \subseteq Range(queue) \cup {current}
      /\ delayed' \subseteq delayed \cup {current} /\ current \in Dispatchable
      /\ delayed' \subseteq Dispatchable /\ IsFiniteSet(delayed')
      /\ requeues' \in [Dispatchable -> Nat]
      /\ current' = NoEvent /\ pc' = "idle"
  BY DoneEffect DEF Done
<1>2. \A e \in Dispatchable : e # NoEvent
  BY ObjectsAssumption DEF Dispatchable
<1>3. \A e \in Dispatchable : e \in Range(queue') \cup delayed' \cup {current'} => KindOf[e[1]] \in synced'
  BY <1>1, <1>2 DEF DispatcherOK
<1>4. QED
  BY <1>1, <1>3 DEF DispatcherOK

\* What the worker finds: the object of the store, or the deleted one.
Found(o) == o \in DOMAIN objects \/ KeyOf[o] \in DOMAIN deleted

LEMMA FetchObjCases ==
  ASSUME FetchObj
  PROVE  /\ pc = "fetch"
         /\ UNCHANGED <<objects, synced, notifications, deleted, counters, changes, expired, warnings>>
         /\ Found(current[1]) =>
              /\ fetched' = IF current[1] \in DOMAIN objects THEN objects[current[1]]
                            ELSE deleted[KeyOf[current[1]]]
              /\ pc' = "handle"
              /\ UNCHANGED <<queue, again, delayed, requeues, current, lost>>
         /\ ~Found(current[1]) =>
              /\ Done(RetryAllowed(current))
              /\ lost' = IF RetryAllowed(current) THEN lost ELSE lost \cup {current[1]}
BY DEF FetchObj, Found, informerVars, queueVars

LEMMA CounterSteps ==
  ASSUME NEW c \in Counter
  PROVE  /\ Error(c) \in Counter /\ Error(c).running = c.running /\ Error(c).errors = c.errors + 1
         /\ Create(c) \in Counter /\ Create(c).running = c.running + 1
         /\ CountExisting(c) \in Counter /\ CountExisting(c).running = c.running + 1
         /\ Delete(c) \in Counter /\ Delete(c).running = c.running - 1
         /\ Create(c).errors = c.errors /\ CountExisting(c).errors = c.errors
         /\ Delete(c).errors = c.errors
<1>1. /\ c = [created |-> c.created, deleted |-> c.deleted, errors |-> c.errors,
              running |-> c.running]
      /\ c.created \in Int /\ c.deleted \in Int /\ c.errors \in Nat /\ c.running \in Int
  BY DEF Counter
<1>2. /\ Error(c) = [created |-> c.created, deleted |-> c.deleted, errors |-> c.errors + 1,
                     running |-> c.running]
      /\ CountExisting(c) = [created |-> c.created, deleted |-> c.deleted, errors |-> c.errors,
                             running |-> c.running + 1]
  BY <1>1 DEF Error, CountExisting
<1>3. Create(c) = [created |-> c.created + 1, deleted |-> c.deleted, errors |-> c.errors,
                   running |-> c.running + 1]
  <2> DEFINE d == [c EXCEPT !.created = @ + 1]
  <2>1. d = [created |-> c.created + 1, deleted |-> c.deleted, errors |-> c.errors,
             running |-> c.running]
    BY <1>1
  <2>2. Create(c) = [d EXCEPT !.running = @ + 1]
    BY DEF Create
  <2> HIDE DEF d
  <2>3. QED
    BY <2>1, <2>2
<1>4. Delete(c) = [created |-> c.created, deleted |-> c.deleted + 1, errors |-> c.errors,
                   running |-> c.running - 1]
  <2> DEFINE d == [c EXCEPT !.deleted = @ + 1]
  <2>1. d = [created |-> c.created, deleted |-> c.deleted + 1, errors |-> c.errors,
             running |-> c.running]
    BY <1>1
  <2>2. Delete(c) = [d EXCEPT !.running = @ - 1]
    BY DEF Delete
  <2> HIDE DEF d
  <2>3. QED
    BY <2>1, <2>2
<1>5. QED
  BY <1>1, <1>2, <1>3, <1>4 DEF Counter

LEMMA TranslateSteps ==
  ASSUME NEW c \in Counter, NEW type \in Types, NEW object
  PROVE  /\ translate(type, c, object) \in Counter
         /\ translate(type, c, object).errors = c.errors
         /\ type = "add" => translate(type, c, object).running = c.running + 1
         /\ type = "delete" => translate(type, c, object).running = c.running - 1
         /\ type = "update" => translate(type, c, object).running = c.running
BY CounterSteps DEF translate, Types

LEMMA CountingType ==
  ASSUME CountersOK, NEW o \in Objects, NEW type \in Types, NEW object
  PROVE  Counting(o, type, object) \in [Metrics -> Counter]
<1>1. counters \in [Metrics -> Counter]
  BY DEF CountersOK
<1>2. \A m \in Metrics : /\ Error(counters[m]) \in Counter
                         /\ translate(type, counters[m], object) \in Counter
  BY <1>1, CounterSteps, TranslateSteps
<1>3. QED
  BY <1>1, <1>2 DEF Counting

LEMMA WorkerKeepsType ==
  ASSUME MetricsTypeOK, Worker
  PROVE  MetricsTypeOK'
<1>1. CASE Get
  <2>1. \A e \in Dispatchable : e \in Range(queue') \cup delayed' \cup {current'} =>
          KindOf[e[1]] \in synced'
    BY <1>1, GetEffect DEF MetricsTypeOK, DispatcherOK
  <2>2. DispatcherOK'
    BY <1>1, <2>1, GetEffect DEF MetricsTypeOK, DispatcherOK
  <2>3. InformersOK' /\ CountersOK'
    BY <1>1, GetEffect DEF MetricsTypeOK, InformersOK, CountersOK
  <2>4. QED
    BY <2>2, <2>3 DEF MetricsTypeOK
<1>2. CASE FetchObj
  <2> DEFINE o == current[1]
  <2>1. InformersOK' /\ CountersOK'
    BY <1>2, FetchObjCases DEF MetricsTypeOK, InformersOK, CountersOK
  <2>2. CASE Found(o)
    <3>1. fetched' \in State
      BY <1>2, <2>2, FetchObjCases DEF Found, MetricsTypeOK, InformersOK, DispatcherOK
    <3>2. DispatcherOK'
      BY <1>2, <2>2, <3>1, FetchObjCases DEF MetricsTypeOK, DispatcherOK
    <3>3. QED
      BY <2>1, <3>2 DEF MetricsTypeOK
  <2>3. CASE ~Found(o)
    <3>1. Done(RetryAllowed(current)) /\ pc = "fetch" /\ UNCHANGED <<synced, deleted>>
      BY <1>2, <2>3, FetchObjCases
    <3>2. RetryAllowed(current) \in BOOLEAN
      BY DEF RetryAllowed
    <3>3. DispatcherOK'
      BY <3>1, <3>2, DoneKeepsType DEF MetricsTypeOK
    <3>4. QED
      BY <2>1, <3>3 DEF MetricsTypeOK
  <2>4. QED
    BY <2>2, <2>3
<1>3. CASE Dispatch
  <2>1. InformersOK' /\ UNCHANGED <<synced, deleted, warnings>>
    BY <1>3 DEF Dispatch, informerVars, MetricsTypeOK, InformersOK
  <2>2. pc = "handle" /\ Done(FALSE) /\ counters' = Counting(current[1], current[2], fetched)
    BY <1>3 DEF Dispatch
  <2>3. DispatcherOK'
    BY <2>1, <2>2, DoneKeepsType DEF MetricsTypeOK
  <2>4. current[1] \in Objects /\ current[2] \in Types
    BY <2>2 DEF MetricsTypeOK, DispatcherOK, Dispatchable
  <2>5. CountersOK'
    BY <2>1, <2>2, <2>4, CountingType DEF MetricsTypeOK, CountersOK
  <2>6. QED
    BY <2>1, <2>3, <2>5 DEF MetricsTypeOK
<1>4. CASE Panic
  <2>1. UNCHANGED <<objects, synced, notifications, deleted, queue, again, delayed, requeues,
                    current, fetched, counters, warnings>>
    BY <1>4 DEF Panic, informerVars, queueVars
  <2>2. QED
    BY <1>4, <2>1 DEF Panic, MetricsTypeOK, InformersOK, DispatcherOK, CountersOK
<1>5. QED
  BY <1>1, <1>2, <1>3, <1>4 DEF Worker

LEMMA RequeuedKeepsType ==
  ASSUME MetricsTypeOK, Requeued
  PROVE  MetricsTypeOK'
<1>1. PICK e \in Dispatchable : Requeue(e)
  BY DEF Requeued, Dispatchable
<1>2. /\ Enters(e) /\ pc # "panicked" /\ e \in delayed /\ delayed' \subseteq delayed
      /\ UNCHANGED <<objects, synced, notifications, deleted, requeues, pc, current, fetched,
                     counters, warnings>>
  BY <1>1 DEF Requeue, Enters, informerVars, workerVars
<1>3. KindOf[e[1]] \in synced /\ DispatcherOK
  BY <1>2 DEF MetricsTypeOK, DispatcherOK
<1>4. DispatcherOK'
  BY <1>2, <1>3, EntersKeepsType DEF DispatcherOK
<1>5. QED
  BY <1>2, <1>4 DEF MetricsTypeOK, InformersOK, CountersOK

LEMMA RestartKeepsType ==
  ASSUME MetricsTypeOK, Restart
  PROVE  MetricsTypeOK'
<1>1. InformersOK'
  <2>1. \A o \in DOMAIN objects : KindOf[o] \in Kinds
    BY DEF Kinds, MetricsTypeOK, InformersOK
  <2>2. /\ DOMAIN objects' = DOMAIN objects
        /\ \A o \in DOMAIN objects : objects'[o] \in State /\ objects'[o].kind = KindOf[o]
    BY <2>1 DEF Restart, StateOf, State
  <2>3. \A k \in Kinds : ListOK(<< >>, k)
    BY DEF ListOK
  <2>4. /\ notifications' \in [Kinds -> Seq(Notification)] /\ synced' = {}
        /\ \A k \in Kinds : notifications'[k] = << >>
    BY DEF Restart
  <2>5. objects' = [o \in DOMAIN objects' |-> objects'[o]]
    BY DEF Restart
  <2>6. QED
    BY <2>2, <2>3, <2>4, <2>5 DEF MetricsTypeOK, InformersOK
<1>2. DispatcherOK'
  <2>1. Range(<< >>) = {} /\ IsFiniteSet({})
    BY FS_EmptySet DEF Range
  <2>2. \A e \in Dispatchable : e # NoEvent
    BY ObjectsAssumption DEF Dispatchable
  <2>3. /\ << >> = [k \in DOMAIN << >> |-> << >>[k]] /\ DOMAIN << >> = {}
        /\ << >> \in Seq(Dispatchable)
    OBVIOUS
  <2>4. requeues' \in [Dispatchable -> Nat]
    BY DEF Restart, Dispatchable
  <2>5. \A e \in Dispatchable : e \notin Range(queue') \cup delayed' \cup {current'}
    BY <2>1, <2>2 DEF Restart
  <2>6. QED
    BY <2>1, <2>3, <2>4, <2>5 DEF Restart, DispatcherOK
<1>3. CountersOK'
  BY DEF Restart, CountersOK, Counter
<1>4. QED
  BY <1>1, <1>2, <1>3 DEF MetricsTypeOK

LEMMA MetricsTypeStep == MetricsTypeOK /\ [Next]_vars => MetricsTypeOK'
<1> SUFFICES ASSUME MetricsTypeOK, [Next]_vars
             PROVE  MetricsTypeOK'
  OBVIOUS
<1>1. CASE UNCHANGED vars
  BY <1>1 DEF vars, informerVars, queueVars, workerVars, MetricsTypeOK, InformersOK, DispatcherOK,
              CountersOK
<1>2. QED
  BY <1>1, ClusterKeepsType, DeliverKeepsType, StartKeepsType, WorkerKeepsType, RequeuedKeepsType,
     RestartKeepsType DEF Next

----------------------------------------------------------------------------
(***************************************************************************)
(* Deletions.                                                              *)
(***************************************************************************)
LEMMA TailTold ==
  ASSUME MetricsTypeOK, NEW kind \in Kinds, NEW type, Handler(kind, type), NEW o \in Objects
  PROVE  /\ KindOf[o] # kind => ToldOf(o)' = ToldOf(o)
         /\ KindOf[o] = kind =>
              /\ \E L \in Nat : /\ L >= 1 /\ DOMAIN ToldOf(o) = 1 .. L
                                /\ DOMAIN ToldOf(o)' = 1 .. L - 1
              /\ \A i \in DOMAIN ToldOf(o)' : ToldOf(o)'[i] = ToldOf(o)[i + 1]
              /\ ToldOf(o)[1] = Head(notifications[kind])
<1> DEFINE s == notifications[kind]
<1>1. /\ s \in Seq(Notification) /\ s # << >> /\ notifications'[kind] = Tail(s)
      /\ \A k \in Kinds : k # kind => notifications'[k] = notifications[k]
  BY HandlerEffect
<1>2. KindOf[o] \in Kinds
  BY DEF Kinds
<1>3. /\ Head(s) = s[1] /\ DOMAIN s = 1 .. Len(s) /\ Len(s) \in Nat /\ Len(s) >= 1
      /\ DOMAIN Tail(s) = 1 .. Len(s) - 1
      /\ \A i \in 1 .. Len(s) - 1 : Tail(s)[i] = s[i + 1]
  BY <1>1, TailElements
<1>4. CASE KindOf[o] # kind
  BY <1>1, <1>2, <1>4 DEF ToldOf
<1>5. CASE KindOf[o] = kind
  <2>1. ToldOf(o) = s /\ ToldOf(o)' = Tail(s)
    BY <1>1, <1>5 DEF ToldOf
  <2>2. QED
    BY <1>3, <1>5, <2>1
<1>6. QED
  BY <1>4, <1>5

\* After the delivery of a notification what was known is known, and so is a
\* deletion that was delivered.
HandlerKnows(n) ==
  /\ \A o \in Objects : Known(o) \/ Gone(n, o) => Known(o)'
  /\ \A x \in Dispatchable : Dispatching(x)' => Dispatching(x) \/ x = <<n[1], n[2]>>

LEMMA HandlerKeepsGone ==
  ASSUME MetricsTypeOK, NEW kind \in Kinds, NEW type, Handler(kind, type),
         HandlerKnows(Head(notifications[kind])), NEW o \in Objects, GoneIsTold(o)
  PROVE  GoneIsTold(o)'
<1> DEFINE n == Head(notifications[kind])
<1>1. n[1] \in Objects /\ KindOf[n[1]] = kind /\ n[2] = type
  BY HandlerEffect
<1>2. \A t \in Types : <<o, t>> \in Dispatchable
  BY DEF Dispatchable
<1>3. /\ \A i \in DOMAIN ToldOf(o) : ToldOf(o)[i][1] = o =>
           \E j \in DOMAIN ToldOf(o) : j >= i /\ Gone(ToldOf(o)[j], o)
      /\ (\E t \in Types : Dispatching(<<o, t>>)) =>
           Known(o) \/ \E j \in DOMAIN ToldOf(o) : Gone(ToldOf(o)[j], o)
  BY DEF GoneIsTold
<1>4. CASE KindOf[o] # kind
  <2>1. ToldOf(o)' = ToldOf(o)
    BY <1>4, TailTold
  <2>2. \A t \in Types : Dispatching(<<o, t>>)' => Dispatching(<<o, t>>)
    BY <1>1, <1>2, <1>4 DEF HandlerKnows
  <2>3. /\ \A i \in DOMAIN ToldOf(o)' : ToldOf(o)'[i][1] = o =>
             \E j \in DOMAIN ToldOf(o)' : j >= i /\ Gone(ToldOf(o)'[j], o)
        /\ (\E t \in Types : Dispatching(<<o, t>>)') =>
             Known(o)' \/ \E j \in DOMAIN ToldOf(o)' : Gone(ToldOf(o)'[j], o)
    BY <1>3, <2>1, <2>2 DEF HandlerKnows
  <2>4. QED
    BY <2>3 DEF GoneIsTold, Gone
<1>5. CASE KindOf[o] = kind
  <2>1. PICK L \in Nat : /\ L >= 1 /\ DOMAIN ToldOf(o) = 1 .. L /\ DOMAIN ToldOf(o)' = 1 .. L - 1
                         /\ \A i \in 1 .. L - 1 : ToldOf(o)'[i] = ToldOf(o)[i + 1]
                         /\ ToldOf(o)[1] = n
    BY <1>5, TailTold
  <2>2. ASSUME NEW j \in 2 .. L
        PROVE  j - 1 \in DOMAIN ToldOf(o)' /\ ToldOf(o)'[j - 1] = ToldOf(o)[j]
    <3>1. j - 1 \in 1 .. L - 1 /\ (j - 1) + 1 = j
      BY <2>1, <2>2
    <3>2. QED
      BY <2>1, <3>1
  <2>3. ASSUME NEW i \in DOMAIN ToldOf(o)', ToldOf(o)'[i][1] = o
        PROVE  \E j \in DOMAIN ToldOf(o)' : j >= i /\ Gone(ToldOf(o)'[j], o)
    <3>1. i + 1 \in 1 .. L /\ i \in 1 .. L - 1 /\ ToldOf(o)[i + 1][1] = o
      BY <2>1, <2>3
    <3>2. PICK j \in 1 .. L : j >= i + 1 /\ Gone(ToldOf(o)[j], o)
      BY <1>3, <2>1, <3>1
    <3>3. j \in 2 .. L /\ j - 1 >= i
      BY <3>1, <3>2
    <3>4. QED
      BY <2>2, <3>2, <3>3
  <2>4. ASSUME \E j \in DOMAIN ToldOf(o) : Gone(ToldOf(o)[j], o)
        PROVE  Known(o)' \/ \E j \in DOMAIN ToldOf(o)' : Gone(ToldOf(o)'[j], o)
    <3>1. PICK j \in 1 .. L : Gone(ToldOf(o)[j], o)
      BY <2>1, <2>4
    <3>2. CASE j = 1
      BY <2>1, <3>1, <3>2 DEF Gone, HandlerKnows
    <3>3. CASE j # 1
      <4>1. j \in 2 .. L
        BY <3>3
      <4>2. QED
        BY <2>2, <3>1, <4>1
    <3>4. QED
      BY <3>2, <3>3
  <2>5. ASSUME NEW t \in Types, Dispatching(<<o, t>>)'
        PROVE  Known(o) \/ \E j \in DOMAIN ToldOf(o) : Gone(ToldOf(o)[j], o)
    <3>1. CASE Dispatching(<<o, t>>)
      BY <1>3, <3>1
    <3>2. CASE ~Dispatching(<<o, t>>)
      <4>1. n[1] = o /\ 1 \in DOMAIN ToldOf(o)
        BY <1>2, <2>1, <2>5, <3>2 DEF HandlerKnows
      <4>2. QED
        BY <1>3, <2>1, <4>1
    <3>3. QED
      BY <3>1, <3>2
  <2>6. /\ \A i \in DOMAIN ToldOf(o)' : ToldOf(o)'[i][1] = o =>
             \E j \in DOMAIN ToldOf(o)' : j >= i /\ Gone(ToldOf(o)'[j], o)
        /\ (\E t \in Types : Dispatching(<<o, t>>)') =>
             Known(o)' \/ \E j \in DOMAIN ToldOf(o)' : Gone(ToldOf(o)'[j], o)
    BY <2>3, <2>4, <2>5 DEF HandlerKnows
  <2>7. QED
    BY <2>6 DEF GoneIsTold, Gone
<1>6. QED
  BY <1>4, <1>5

LEMMA HandlerKeepsApart ==
  ASSUME MetricsTypeOK, NEW kind \in Kinds, NEW type, Handler(kind, type),
         HandlerKnows(Head(notifications[kind])), NEW o \in Objects, AddsApart(o)
  PROVE  AddsApart(o)'
<1> DEFINE n == Head(notifications[kind])
           AddAt(s, i) == s[i][1] = o /\ s[i][2] = "add"
           apart(s, dispatching, known) ==
             \A j \in DOMAIN s : AddAt(s, j) =>
               /\ \A i \in DOMAIN s : i < j /\ AddAt(s, i) =>
                    \E l \in DOMAIN s : i < l /\ l < j /\ Gone(s[l], o)
               /\ dispatching => known \/ \E l \in DOMAIN s : l < j /\ Gone(s[l], o)
<1>1. n[1] \in Objects /\ KindOf[n[1]] = kind /\ n[2] = type
  BY HandlerEffect
<1>2. <<o, "add">> \in Dispatchable
  BY DEF Dispatchable, Types
<1>3. apart(ToldOf(o), Dispatching(<<o, "add">>), Known(o))
  BY DEF AddsApart
<1>4. SUFFICES apart(ToldOf(o)', Dispatching(<<o, "add">>)', Known(o)')
  BY DEF AddsApart, Gone
<1>5. CASE KindOf[o] # kind
  <2>1. ToldOf(o)' = ToldOf(o)
    BY <1>5, TailTold
  <2>2. Dispatching(<<o, "add">>)' => Dispatching(<<o, "add">>)
    BY <1>1, <1>2, <1>5 DEF HandlerKnows
  <2>3. QED
    BY <1>3, <2>1, <2>2 DEF HandlerKnows
<1>6. CASE KindOf[o] = kind
  <2>1. PICK L \in Nat : /\ L >= 1 /\ DOMAIN ToldOf(o) = 1 .. L /\ DOMAIN ToldOf(o)' = 1 .. L - 1
                         /\ \A i \in 1 .. L - 1 : ToldOf(o)'[i] = ToldOf(o)[i + 1]
                         /\ ToldOf(o)[1] = n
    BY <1>6, TailTold
  <2>2. ASSUME NEW l \in 2 .. L
        PROVE  l - 1 \in DOMAIN ToldOf(o)' /\ ToldOf(o)'[l - 1] = ToldOf(o)[l]
    <3>1. l - 1 \in 1 .. L - 1 /\ (l - 1) + 1 = l
      BY <2>1, <2>2
    <3>2. QED
      BY <2>1, <3>1
  <2>3. SUFFICES ASSUME NEW j \in DOMAIN ToldOf(o)', AddAt(ToldOf(o)', j)
                 PROVE  /\ \A i \in DOMAIN ToldOf(o)' : i < j /\ AddAt(ToldOf(o)', i) =>
                             \E l \in DOMAIN ToldOf(o)' : i < l /\ l < j /\ Gone(ToldOf(o)'[l], o)
                        /\ Dispatching(<<o, "add">>)' =>
                             Known(o)' \/ \E l \in DOMAIN ToldOf(o)' : l < j /\ Gone(ToldOf(o)'[l], o)
    OBVIOUS
  <2>4. j + 1 \in 1 .. L /\ j \in 1 .. L - 1 /\ AddAt(ToldOf(o), j + 1)
    BY <2>1, <2>3
  <2>5. ASSUME NEW i \in 1 .. L, i < j + 1, AddAt(ToldOf(o), i)
        PROVE  \E l \in DOMAIN ToldOf(o)' : i < l + 1 /\ l < j /\ Gone(ToldOf(o)'[l], o)
    <3>1. PICK l \in 1 .. L : i < l /\ l < j + 1 /\ Gone(ToldOf(o)[l], o)
      BY <1>3, <2>1, <2>4, <2>5
    <3>2. l \in 2 .. L /\ i < (l - 1) + 1 /\ l - 1 < j
      BY <2>4, <2>5, <3>1
    <3>3. QED
      BY <2>2, <3>1, <3>2
  <2>6. ASSUME NEW i \in DOMAIN ToldOf(o)', i < j, AddAt(ToldOf(o)', i)
        PROVE  \E l \in DOMAIN ToldOf(o)' : i < l /\ l < j /\ Gone(ToldOf(o)'[l], o)
    <3>1. i + 1 \in 1 .. L /\ i \in 1 .. L - 1 /\ i + 1 < j + 1 /\ AddAt(ToldOf(o), i + 1)
      BY <2>1, <2>4, <2>6
    <3>2. PICK l \in DOMAIN ToldOf(o)' : i + 1 < l + 1 /\ l < j /\ Gone(ToldOf(o)'[l], o)
      BY <2>5, <3>1
    <3>3. i < l
      BY <2>1, <3>1, <3>2
    <3>4. QED
      BY <3>2, <3>3
  <2>7. ASSUME Dispatching(<<o, "add">>)'
        PROVE  Known(o)' \/ \E l \in DOMAIN ToldOf(o)' : l < j /\ Gone(ToldOf(o)'[l], o)
    <3>1. CASE Dispatching(<<o, "add">>)
      <4>1. Known(o) \/ \E l \in 1 .. L : l < j + 1 /\ Gone(ToldOf(o)[l], o)
        BY <1>3, <2>1, <2>4, <3>1
      <4>2. CASE Known(o)
        BY <4>2 DEF HandlerKnows
      <4>3. ASSUME NEW l \in 1 .. L, l < j + 1, Gone(ToldOf(o)[l], o)
            PROVE  Known(o)' \/ \E k \in DOMAIN ToldOf(o)' : k < j /\ Gone(ToldOf(o)'[k], o)
        <5>1. CASE l = 1
          BY <2>1, <4>3, <5>1 DEF Gone, HandlerKnows
        <5>2. CASE l # 1
          <6>1. l \in 2 .. L /\ l - 1 < j
            BY <2>4, <4>3, <5>2
          <6>2. QED
            BY <2>2, <4>3, <6>1
        <5>3. QED
          BY <5>1, <5>2
      <4>4. QED
        BY <4>1, <4>2, <4>3
    <3>2. CASE ~Dispatching(<<o, "add">>)
      <4>1. n[1] = o /\ n[2] = "add"
        BY <1>2, <2>7, <3>2 DEF HandlerKnows
      <4>2. 1 \in 1 .. L /\ 1 < j + 1 /\ AddAt(ToldOf(o), 1)
        BY <2>1, <2>4, <4>1
      <4>3. QED
        BY <2>5, <4>2
    <3>3. QED
      BY <3>1, <3>2
  <2>8. QED
    BY <2>6, <2>7
<1>7. QED
  BY <1>5, <1>6

Notified1(o, n) ==
  notifications' = [notifications EXCEPT ![KindOf[o]] =
                      IF KindOf[o] \in synced THEN Append(@, n) ELSE @]

LEMMA AppendTold ==
  ASSUME InformersOK, NEW o \in Objects, NEW n \in Notification, Notified1(o, n), NEW p \in Objects
  PROVE  /\ KindOf[p] # KindOf[o] \/ KindOf[o] \notin synced => ToldOf(p)' = ToldOf(p)
         /\ KindOf[p] = KindOf[o] /\ KindOf[o] \in synced =>
              \E L \in Nat : /\ DOMAIN ToldOf(p) = 1 .. L /\ DOMAIN ToldOf(p)' = 1 .. L + 1
                             /\ \A i \in 1 .. L : ToldOf(p)'[i] = ToldOf(p)[i]
                             /\ ToldOf(p)'[L + 1] = n
<1>1. KindOf[o] \in Kinds /\ KindOf[p] \in Kinds
  BY DEF Kinds
<1>2. notifications \in [Kinds -> Seq(Notification)]
  BY DEF InformersOK
<1>3. CASE KindOf[p] # KindOf[o] \/ KindOf[o] \notin synced
  BY <1>1, <1>2, <1>3 DEF ToldOf, Notified1
<1>4. CASE KindOf[p] = KindOf[o] /\ KindOf[o] \in synced
  <2>1. ToldOf(p) \in Seq(Notification) /\ ToldOf(p)' = Append(ToldOf(p), n)
    BY <1>1, <1>2, <1>4 DEF ToldOf, Notified1
  <2>2. /\ DOMAIN ToldOf(p) = 1 .. Len(ToldOf(p)) /\ Len(ToldOf(p)) \in Nat
        /\ DOMAIN ToldOf(p)' = 1 .. Len(ToldOf(p)) + 1
        /\ \A i \in 1 .. Len(ToldOf(p)) : ToldOf(p)'[i] = ToldOf(p)[i]
        /\ ToldOf(p)'[Len(ToldOf(p)) + 1] = n
    BY <2>1, AppendElements
  <2> HIDE DEF ToldOf
  <2>3. QED
    BY <1>4, <2>2
<1>5. QED
  BY <1>3, <1>4

LEMMA NotifyKeepsGone ==
  ASSUME MetricsTypeOK, NEW o \in Objects, NEW n \in Notification, n[1] = o, Notified1(o, n),
         UNCHANGED <<deleted, lost, queue, delayed, current>>,
         NEW p \in Objects, GoneIsTold(p) \/ (p = o /\ Gone(n, o)), p = o => Gone(n, o)
  PROVE  GoneIsTold(p)'
<1>1. /\ Known(p)' = Known(p)
      /\ \A t \in Types : Dispatching(<<p, t>>)' = Dispatching(<<p, t>>)
  BY DEF Known, Dispatching
<1>2. CASE KindOf[p] # KindOf[o] \/ KindOf[o] \notin synced
  <2>1. ToldOf(p)' = ToldOf(p)
    BY <1>2, AppendTold DEF MetricsTypeOK
  <2>2. CASE GoneIsTold(p)
    BY <1>1, <2>1, <2>2 DEF GoneIsTold, Gone
  <2>3. CASE p = o /\ Gone(n, o)
    <3>1. KindOf[p] \in Kinds \ synced
      BY <1>2, <2>3 DEF Kinds
    <3>2. DOMAIN ToldOf(p) = {}
      BY <3>1 DEF ToldOf, MetricsTypeOK, InformersOK
    <3>3. \A t \in Types : <<p, t>> \in Dispatchable /\ ~Dispatching(<<p, t>>)
      BY <3>1 DEF Dispatchable, Dispatching, MetricsTypeOK, DispatcherOK
    <3>4. QED
      BY <1>1, <2>1, <3>2, <3>3 DEF GoneIsTold
  <2>4. QED
    BY <2>2, <2>3
<1>3. CASE KindOf[p] = KindOf[o] /\ KindOf[o] \in synced
  <2>1. PICK L \in Nat : /\ DOMAIN ToldOf(p) = 1 .. L /\ DOMAIN ToldOf(p)' = 1 .. L + 1
                         /\ \A i \in 1 .. L : ToldOf(p)'[i] = ToldOf(p)[i]
                         /\ ToldOf(p)'[L + 1] = n
    BY <1>3, AppendTold DEF MetricsTypeOK
  <2>2. L + 1 \in 1 .. L + 1 /\ \A i \in 1 .. L : i \in 1 .. L + 1
    OBVIOUS
  <2>3. CASE p = o /\ Gone(n, o)
    <3>1. \A i \in 1 .. L + 1 : L + 1 >= i
      OBVIOUS
    <3>2. \A i \in DOMAIN ToldOf(p)' : \E j \in DOMAIN ToldOf(p)' : j >= i /\ Gone(ToldOf(p)'[j], p)
      BY <2>1, <2>2, <2>3, <3>1
    <3>3. \E j \in DOMAIN ToldOf(p)' : Gone(ToldOf(p)'[j], p)
      BY <2>1, <2>2, <2>3
    <3>4. QED
      BY <3>2, <3>3 DEF GoneIsTold, Gone
  <2>4. CASE GoneIsTold(p) /\ p # o
    <3>1. ASSUME NEW i \in DOMAIN ToldOf(p)', ToldOf(p)'[i][1] = p
          PROVE  \E j \in DOMAIN ToldOf(p)' : j >= i /\ Gone(ToldOf(p)'[j], p)
      <4>1. i \in 1 .. L /\ ToldOf(p)[i][1] = p
        BY <2>1, <2>4, <3>1
      <4>2. PICK j \in 1 .. L : j >= i /\ Gone(ToldOf(p)[j], p)
        BY <2>1, <2>4, <4>1 DEF GoneIsTold
      <4>3. QED
        BY <2>1, <2>2, <4>2
    <3>2. (\E t \in Types : Dispatching(<<p, t>>)) =>
            Known(p) \/ \E j \in DOMAIN ToldOf(p)' : Gone(ToldOf(p)'[j], p)
      <4>1. (\E t \in Types : Dispatching(<<p, t>>)) =>
              Known(p) \/ \E j \in 1 .. L : Gone(ToldOf(p)[j], p)
        BY <2>1, <2>4 DEF GoneIsTold
      <4>2. QED
        BY <2>1, <2>2, <4>1
    <3>3. QED
      BY <1>1, <3>1, <3>2 DEF GoneIsTold, Gone
  <2>5. QED
    BY <2>3, <2>4
<1>4. QED
  BY <1>2, <1>3

LEMMA NotifyKeepsApart ==
  ASSUME MetricsTypeOK, NEW o \in Objects, NEW n \in Notification, n[1] = o, Notified1(o, n),
         UNCHANGED <<deleted, lost, queue, delayed, current>>,
         NEW p \in Objects, AddsApart(p), p = o /\ n[2] = "add" => GoneIsTold(o)
  PROVE  AddsApart(p)'
<1> DEFINE AddAt(s, i) == s[i][1] = p /\ s[i][2] = "add"
<1>1. /\ Known(p)' = Known(p)
      /\ Dispatching(<<p, "add">>)' = Dispatching(<<p, "add">>)
  BY DEF Known, Dispatching
<1>2. CASE KindOf[p] # KindOf[o] \/ KindOf[o] \notin synced
  <2>1. ToldOf(p)' = ToldOf(p)
    BY <1>2, AppendTold DEF MetricsTypeOK
  <2>2. QED
    BY <1>1, <2>1 DEF AddsApart, Gone
<1>3. CASE KindOf[p] = KindOf[o] /\ KindOf[o] \in synced
  <2>1. PICK L \in Nat : /\ DOMAIN ToldOf(p) = 1 .. L /\ DOMAIN ToldOf(p)' = 1 .. L + 1
                         /\ \A i \in 1 .. L : ToldOf(p)'[i] = ToldOf(p)[i]
                         /\ ToldOf(p)'[L + 1] = n
    BY <1>3, AppendTold DEF MetricsTypeOK
  <2>2. \A i \in 1 .. L : i \in 1 .. L + 1
    OBVIOUS
  <2>3. ASSUME NEW j \in DOMAIN ToldOf(p)', AddAt(ToldOf(p)', j)
        PROVE  /\ \A i \in DOMAIN ToldOf(p)' : i < j /\ AddAt(ToldOf(p)', i) =>
                    \E l \in DOMAIN ToldOf(p)' : i < l /\ l < j /\ Gone(ToldOf(p)'[l], p)
               /\ Dispatching(<<p, "add">>) =>
                    Known(p) \/ \E l \in DOMAIN ToldOf(p)' : l < j /\ Gone(ToldOf(p)'[l], p)
    <3>1. CASE j \in 1 .. L
      <4>1. AddAt(ToldOf(p), j)
        BY <2>1, <2>3, <3>1
      <4>2. ASSUME NEW i \in DOMAIN ToldOf(p)', i < j, AddAt(ToldOf(p)', i)
            PROVE  \E l \in DOMAIN ToldOf(p)' : i < l /\ l < j /\ Gone(ToldOf(p)'[l], p)
        <5>1. i \in 1 .. L
          BY <2>1, <3>1, <4>2
        <5>2. AddAt(ToldOf(p), i)
          BY <2>1, <4>2, <5>1
        <5>3. PICK l \in 1 .. L : i < l /\ l < j /\ Gone(ToldOf(p)[l], p)
          BY <2>1, <3>1, <4>1, <4>2, <5>1, <5>2 DEF AddsApart
        <5>4. QED
          BY <2>1, <2>2, <5>3
      <4>3. ASSUME Dispatching(<<p, "add">>)
            PROVE  Known(p) \/ \E l \in DOMAIN ToldOf(p)' : l < j /\ Gone(ToldOf(p)'[l], p)
        <5>1. Known(p) \/ \E l \in 1 .. L : l < j /\ Gone(ToldOf(p)[l], p)
          BY <2>1, <3>1, <4>1, <4>3 DEF AddsApart
        <5>2. QED
          BY <2>1, <2>2, <5>1
      <4>4. QED
        BY <4>2, <4>3
    <3>2. CASE j = L + 1
      <4>1. p = o /\ GoneIsTold(o)
        BY <2>1, <2>3, <3>2
      <4>2. ASSUME NEW i \in DOMAIN ToldOf(p)', i < j, AddAt(ToldOf(p)', i)
            PROVE  \E l \in DOMAIN ToldOf(p)' : i < l /\ l < j /\ Gone(ToldOf(p)'[l], p)
        <5>1. i \in 1 .. L
          BY <2>1, <3>2, <4>2
        <5>2. AddAt(ToldOf(p), i)
          BY <2>1, <4>2, <5>1
        <5>3. PICK l \in 1 .. L : l >= i /\ Gone(ToldOf(p)[l], p)
          BY <2>1, <4>1, <5>1, <5>2 DEF GoneIsTold
        <5>4. l # i
          BY <5>2, <5>3 DEF Gone
        <5>5. i < l /\ l < j
          BY <3>2, <5>1, <5>3, <5>4
        <5>6. QED
          BY <2>1, <2>2, <5>3, <5>5
      <4>3. ASSUME Dispatching(<<p, "add">>)
            PROVE  Known(p) \/ \E l \in DOMAIN ToldOf(p)' : l < j /\ Gone(ToldOf(p)'[l], p)
        <5>1. Known(p) \/ \E l \in 1 .. L : Gone(ToldOf(p)[l], p)
          BY <2>1, <4>1, <4>3 DEF GoneIsTold, Types
        <5>2. \A l \in 1 .. L : l < j
          BY <3>2
        <5>3. QED
          BY <2>1, <2>2, <5>1, <5>2
      <4>4. QED
        BY <4>2, <4>3
    <3>3. QED
      BY <2>1, <2>3, <3>1, <3>2
  <2>4. QED
    BY <1>1, <2>3 DEF AddsApart, Gone
<1>4. QED
  BY <1>2, <1>3

LEMMA DeletionsInit == Init => DeletionsOK
<1> SUFFICES ASSUME Init PROVE DeletionsOK
  OBVIOUS
<1>1. \A o \in Objects : DOMAIN ToldOf(o) = {}
  BY DEF Init, ToldOf, Kinds
<1>2. \A e \in Dispatchable : ~Dispatching(e)
  <2>1. Range(<< >>) = {}
    BY DEF Range
  <2>2. \A e \in Dispatchable : e # NoEvent
    BY ObjectsAssumption DEF Dispatchable
  <2>3. QED
    BY <2>1, <2>2 DEF Init, Dispatching
<1>3. \A o \in Objects, t \in Types : <<o, t>> \in Dispatchable
  BY DEF Dispatchable
<1>4. \A o \in Objects : GoneIsTold(o) /\ AddsApart(o)
  BY <1>1, <1>2, <1>3 DEF GoneIsTold, AddsApart
<1>5. \A o \in Objects : OneAdd(o) /\ ~Dispatching(<<o, "delete">>)
  BY <1>2, <1>3 DEF OneAdd, Dispatching, Types
<1>6. QED
  BY <1>4, <1>5 DEF DeletionsOK

LEMMA ClusterKeepsDeletions ==
  ASSUME MetricsTypeOK, DeletionsOK, Cluster
  PROVE  DeletionsOK'
<1>1. PICK o \in Objects : Appears(o) \/ Updates(o) \/ \E tombstone \in BOOLEAN : Disappears(o, tombstone)
  BY DEF Cluster
<1>2. UNCHANGED <<deleted, lost, queue, again, delayed, current>>
  BY <1>1 DEF Appears, Updates, Disappears, Change, queueVars, workerVars
<1>3. /\ \A p \in Objects : OneAdd(p)'
      /\ \A p \in Objects : Dispatching(<<p, "delete">>)' => KeyOf[p] \in DOMAIN deleted'
  BY <1>2 DEF DeletionsOK, OneAdd, Known, Dispatching
<1>4. CASE Appears(o)
  <2> DEFINE n == <<o, "add">>
  <2>1. n \in Notification /\ n[1] = o /\ Notified1(o, n) /\ DOMAIN objects' = DOMAIN objects \cup {o}
        /\ o \notin DOMAIN objects
    BY <1>4 DEF Appears, Notify, Notified1, Notification
  <2> HIDE DEF n
  <2>2. \A p \in Objects \ DOMAIN objects' : GoneIsTold(p)'
    BY <1>2, <2>1, NotifyKeepsGone DEF DeletionsOK
  <2>3. \A p \in Objects : AddsApart(p)'
    BY <1>2, <2>1, NotifyKeepsApart DEF DeletionsOK
  <2>4. QED
    BY <1>3, <2>2, <2>3 DEF DeletionsOK
<1>5. CASE Updates(o)
  <2> DEFINE n == <<o, "update">>
  <2>1. n \in Notification /\ n[1] = o /\ n[2] # "add" /\ Notified1(o, n)
        /\ DOMAIN objects' = DOMAIN objects /\ o \in DOMAIN objects
    BY <1>5 DEF Updates, Notify, Notified1, Notification, MetricsTypeOK, InformersOK
  <2> HIDE DEF n
  <2>2. \A p \in Objects \ DOMAIN objects' : GoneIsTold(p)'
    BY <1>2, <2>1, NotifyKeepsGone DEF DeletionsOK
  <2>3. \A p \in Objects : AddsApart(p)'
    BY <1>2, <2>1, NotifyKeepsApart DEF DeletionsOK
  <2>4. QED
    BY <1>3, <2>2, <2>3 DEF DeletionsOK
<1>6. ASSUME NEW tombstone \in BOOLEAN, Disappears(o, tombstone)
      PROVE  DeletionsOK'
  <2> DEFINE n == IF tombstone THEN <<o, "tombstone">> ELSE <<o, "delete", objects[o]>>
  <2>1. objects[o] \in State /\ o \in DOMAIN objects /\ DOMAIN objects' = DOMAIN objects \ {o}
    BY <1>6 DEF Disappears, MetricsTypeOK, InformersOK
  <2>2. n \in Notification /\ n[1] = o /\ n[2] # "add" /\ Gone(n, o)
    BY <2>1 DEF Notification, Gone
  <2>3. Notified1(o, n)
    BY <1>6 DEF Disappears, Notified1
  <2> HIDE DEF n
  <2>4. \A p \in Objects \ DOMAIN objects' : GoneIsTold(p)'
    <3>1. ASSUME NEW p \in Objects \ DOMAIN objects'
          PROVE  GoneIsTold(p)'
      <4>1. GoneIsTold(p) \/ (p = o /\ Gone(n, o))
        BY <2>1, <2>2 DEF DeletionsOK
      <4>2. p \in Objects
        OBVIOUS
      <4>3. QED
        BY <1>2, <2>2, <2>3, <4>1, <4>2, NotifyKeepsGone
    <3>2. QED
      BY <3>1
  <2>5. \A p \in Objects : AddsApart(p)'
    BY <1>2, <2>2, <2>3, NotifyKeepsApart DEF DeletionsOK
  <2>6. QED
    BY <1>3, <2>4, <2>5 DEF DeletionsOK
<1>7. QED
  BY <1>1, <1>4, <1>5, <1>6

LEMMA HandlerKeepsOneAdd ==
  ASSUME MetricsTypeOK, DeletionsOK, NEW kind \in Kinds, NEW type \in Types, Handler(kind, type),
         HandlerKnows(Head(notifications[kind])), Enters(<<Head(notifications[kind])[1], type>>),
         UNCHANGED delayed, NEW x \in Objects
  PROVE  OneAdd(x)'
<1> DEFINE n == Head(notifications[kind])
           e == <<n[1], type>>
           a == <<x, "add">>
<1>1. n[1] \in Objects /\ n[2] = type /\ e \in Dispatchable /\ KindOf[n[1]] = kind
  BY HandlerEffect DEF Dispatchable
<1>2. UNCHANGED <<pc, current>> /\ pc # "panicked"
  BY DEF Handler, workerVars
<1>3. /\ e # current => again' = again
      /\ e = current => queue' = queue
      /\ Range(queue') \subseteq Range(queue) \cup {e}
  BY <1>1, <1>2, EntersEffect DEF MetricsTypeOK
<1>4. CASE a = e
  <2>1. n[1] = x /\ n[2] = "add" /\ KindOf[x] = kind
    BY <1>1, <1>4
  <2>2. /\ 1 \in DOMAIN ToldOf(x) /\ ToldOf(x)[1] = n
        /\ \A l \in DOMAIN ToldOf(x) : ~(l < 1)
    <3>1. PICK L \in Nat : L >= 1 /\ DOMAIN ToldOf(x) = 1 .. L /\ ToldOf(x)[1] = n
      BY <2>1, TailTold
    <3>2. QED
      BY <3>1
  <2>3. Dispatching(a) => Known(x)
    BY <2>1, <2>2 DEF DeletionsOK, AddsApart
  <2>4. a \in delayed \/ a = current => Known(x)'
    BY <2>3 DEF Dispatching, HandlerKnows
  <2>5. QED
    BY <1>2, <2>4 DEF OneAdd
<1>5. CASE a # e
  <2>1. a \in Range(queue') => a \in Range(queue)
    BY <1>3, <1>5
  <2>2. OneAdd(x)
    BY DEF DeletionsOK
  <2>3. QED
    BY <1>2, <1>3, <1>5, <2>1, <2>2 DEF OneAdd, HandlerKnows
<1>6. QED
  BY <1>4, <1>5

LEMMA DeliverKeepsDeletions ==
  ASSUME MetricsTypeOK, DeletionsOK, Deliver
  PROVE  DeletionsOK'
<1>1. PICK kind \in Kinds : OnAdd(kind) \/ OnUpdate(kind) \/ OnDelete(kind) \/ OnDeleteUnknown(kind)
  BY DEF Deliver
<1> DEFINE n == Head(notifications[kind])
<1>2. PICK type : Handler(kind, type)
  BY <1>1 DEF OnAdd, OnUpdate, OnDelete, OnDeleteUnknown
<1>3. PICK d \in Objects : d = n[1] /\ KindOf[d] = kind /\ n[2] = type
  BY <1>2, HandlerEffect
<1>4. UNCHANGED <<pc, current, objects>> /\ pc # "panicked" /\ DispatcherOK
  BY <1>2 DEF Handler, workerVars, MetricsTypeOK
<1> HIDE DEF n
<1>5. \A t \in Types : <<d, t>> \in Dispatchable
  BY <1>3 DEF Dispatchable
<1>6. SUFFICES /\ HandlerKnows(n) /\ \A x \in Objects : OneAdd(x)'
               /\ Dispatching(<<d, "delete">>)' => KeyOf[d] \in DOMAIN deleted'
               /\ DOMAIN deleted \subseteq DOMAIN deleted'
  <2>1. \A o \in Objects \ DOMAIN objects' : GoneIsTold(o)'
    BY <1>2, <1>4, <1>6, HandlerKeepsGone DEF DeletionsOK, n
  <2>2. \A o \in Objects : AddsApart(o)'
    BY <1>2, <1>6, HandlerKeepsApart DEF DeletionsOK, n
  <2>3. ASSUME NEW o \in Objects, Dispatching(<<o, "delete">>)'
        PROVE  KeyOf[o] \in DOMAIN deleted'
    <3>1. <<o, "delete">> \in Dispatchable
      BY DEF Dispatchable, Types
    <3>2. Dispatching(<<o, "delete">>) \/ o = d
      BY <1>3, <1>6, <2>3, <3>1 DEF HandlerKnows
    <3>3. QED
      BY <1>6, <2>3, <3>2 DEF DeletionsOK
  <2>4. QED
    BY <1>6, <2>1, <2>2, <2>3 DEF DeletionsOK
<1>7. ASSUME NEW t \in Types, t = type, Enters(<<d, t>>), UNCHANGED delayed, lost \subseteq lost',
             DOMAIN deleted \subseteq DOMAIN deleted', t = "delete" => KeyOf[d] \in DOMAIN deleted'
      PROVE  /\ HandlerKnows(n) /\ \A x \in Objects : OneAdd(x)'
             /\ Dispatching(<<d, "delete">>)' => KeyOf[d] \in DOMAIN deleted'
  <2>1. Range(queue') \subseteq Range(queue) \cup {<<d, t>>}
    BY <1>4, <1>5, <1>7, EntersEffect
  <2>2. \A x \in Dispatchable : Dispatching(x)' => Dispatching(x) \/ x = <<d, n[2]>>
    BY <1>3, <1>4, <1>7, <2>1 DEF Dispatching
  <2>3. \A o \in Objects : Known(o) \/ Gone(n, o) => Known(o)'
    BY <1>3, <1>7 DEF Known, Gone, Types
  <2>4. HandlerKnows(n)
    BY <1>3, <2>2, <2>3 DEF HandlerKnows
  <2>5. \A x \in Objects : OneAdd(x)'
    BY <1>2, <1>3, <1>7, <2>4, HandlerKeepsOneAdd DEF n
  <2>6. Dispatching(<<d, "delete">>)' => KeyOf[d] \in DOMAIN deleted'
    <3>1. Dispatching(<<d, "delete">>)' => Dispatching(<<d, "delete">>) \/ t = "delete"
      BY <1>3, <1>5, <1>7, <2>2 DEF Types
    <3>2. QED
      BY <1>3, <1>7, <3>1 DEF DeletionsOK
  <2>7. QED
    BY <2>4, <2>5, <2>6
<1>8. CASE OnAdd(kind)
  <2>1. /\ type = "add" /\ Enters(<<d, "add">>) /\ UNCHANGED <<delayed, deleted>>
        /\ lost \subseteq lost'
    BY <1>2, <1>3, <1>8 DEF OnAdd, AddAndCount, Add, Enters, n, Handler
  <2>2. QED
    BY <1>7, <2>1 DEF Types
<1>9. CASE OnUpdate(kind)
  <2>1. /\ type = "update" /\ Enters(<<d, "update">>) /\ UNCHANGED <<delayed, deleted, lost>>
    BY <1>2, <1>3, <1>9 DEF OnUpdate, Add, Enters, n, Handler
  <2>2. QED
    BY <1>7, <2>1 DEF Types
<1>10. CASE OnDelete(kind)
  <2>1. /\ type = "delete" /\ Enters(<<d, "delete">>) /\ UNCHANGED delayed
        /\ lost \subseteq lost' /\ DOMAIN deleted' = DOMAIN deleted \cup {KeyOf[d]}
    BY <1>2, <1>3, <1>10 DEF OnDelete, AddAndCount, Add, Enters, n, Handler
  <2>2. QED
    BY <1>7, <2>1 DEF Types
<1>11. CASE OnDeleteUnknown(kind)
  <2>1. /\ type = "tombstone" /\ lost' = lost \cup {d}
        /\ UNCHANGED <<deleted, queue, again, delayed, current>>
    BY <1>2, <1>3, <1>4, <1>11 DEF OnDeleteUnknown, n, Handler, queueVars
  <2>2. HandlerKnows(n)
    BY <1>3, <2>1 DEF HandlerKnows, Known, Gone, Dispatching
  <2>3. QED
    BY <1>3, <2>1, <2>2 DEF DeletionsOK, OneAdd, Known, Dispatching
<1>12. QED
  BY <1>1, <1>8, <1>9, <1>10, <1>11

\* The steps of the worker and of the delays deliver nothing.
LEMMA QuietKeepsDeletions ==
  ASSUME DeletionsOK, UNCHANGED <<objects, notifications>>, lost \subseteq lost',
         DOMAIN deleted' = DOMAIN deleted,
         \A x \in Dispatchable : Dispatching(x)' => Dispatching(x),
         \A x \in Objects : OneAdd(x)'
  PROVE  DeletionsOK'
<1>1. \A x \in Objects : ToldOf(x)' = ToldOf(x) /\ (Known(x) => Known(x)')
  BY DEF ToldOf, Known
<1>2. \A x \in Objects, t \in Types : Dispatching(<<x, t>>)' => Dispatching(<<x, t>>)
  BY DEF Dispatchable
<1>3. \A x \in Objects : Dispatching(<<x, "add">>)' => Dispatching(<<x, "add">>)
  BY <1>2 DEF Types
<1>4. \A x \in Objects \ DOMAIN objects' : GoneIsTold(x)'
  <2>1. SUFFICES ASSUME NEW x \in Objects, x \notin DOMAIN objects
                 PROVE  GoneIsTold(x)'
    OBVIOUS
  <2>2. GoneIsTold(x) /\ ToldOf(x)' = ToldOf(x) /\ (Known(x) => Known(x)')
    BY <1>1, <2>1 DEF DeletionsOK
  <2>3. QED
    BY <1>2, <2>2 DEF GoneIsTold, Gone
<1>5. \A x \in Objects : AddsApart(x)'
  <2>1. SUFFICES ASSUME NEW x \in Objects
                 PROVE  AddsApart(x)'
    OBVIOUS
  <2>2. AddsApart(x) /\ ToldOf(x)' = ToldOf(x) /\ (Known(x) => Known(x)')
    BY <1>1 DEF DeletionsOK
  <2>3. QED
    BY <1>3, <2>2 DEF AddsApart, Gone
<1>6. \A x \in Objects : Dispatching(<<x, "delete">>)' => KeyOf[x] \in DOMAIN deleted'
  BY <1>2 DEF DeletionsOK, Types
<1>7. QED
  BY <1>4, <1>5, <1>6 DEF DeletionsOK

LEMMA StartKeepsDeletions ==
  ASSUME MetricsTypeOK, DeletionsOK, Start
  PROVE  DeletionsOK'
<1>1. UNCHANGED <<objects, deleted, queue, again, delayed, current, lost>>
  BY DEF Start, DispatcherStart, WatcherStart, informerVars, queueVars, workerVars
<1>2. /\ \A x \in Objects : OneAdd(x)' /\ Known(x)' = Known(x)
      /\ \A x \in Objects, t \in Types : Dispatching(<<x, t>>)' = Dispatching(<<x, t>>)
      /\ \A x \in Objects : Dispatching(<<x, "delete">>)' => KeyOf[x] \in DOMAIN deleted'
  BY <1>1 DEF DeletionsOK, OneAdd, Known, Dispatching
<1>3. CASE DispatcherStart
  <2>1. notifications' = notifications
    BY <1>3 DEF DispatcherStart, informerVars
  <2>2. \A x \in Dispatchable : Dispatching(x)' => Dispatching(x)
    BY <1>1 DEF Dispatching
  <2>3. QED
    BY <1>1, <1>2, <2>1, <2>2, QuietKeepsDeletions
<1>4. ASSUME NEW kind \in Kinds, WatcherStart(kind)
      PROVE  DeletionsOK'
  <2> DEFINE s == SetToSeq(AddsOf(kind))
  <2>1. notifications' = [notifications EXCEPT ![kind] = s] /\ kind \notin synced
    BY <1>4 DEF WatcherStart, AddsOf
  <2>2. /\ \A i \in DOMAIN s : s[i] \in AddsOf(kind)
        /\ \A i, j \in DOMAIN s : s[i] = s[j] => i = j
    BY AddsFinite, SetToSeqCounts DEF MetricsTypeOK
  <2>3. \A i \in DOMAIN s : s[i][1] \in DOMAIN objects /\ s[i] = <<s[i][1], "add">>
    BY <2>2 DEF AddsOf
  <2> HIDE DEF s
  <2>4. \A x \in Objects : ToldOf(x)' = IF KindOf[x] = kind THEN s ELSE ToldOf(x)
    BY <2>1 DEF ToldOf, Kinds, MetricsTypeOK, InformersOK
  <2>5. \A x \in Objects, t \in Types : KindOf[x] = kind => ~Dispatching(<<x, t>>)
    BY <2>1 DEF Dispatching, Dispatchable, MetricsTypeOK, DispatcherOK
  <2>6. ASSUME NEW x \in Objects, x \notin DOMAIN objects
        PROVE  GoneIsTold(x)'
    <3>1. CASE KindOf[x] = kind
      <4>1. \A i \in DOMAIN ToldOf(x)' : ToldOf(x)'[i][1] # x
        BY <2>3, <2>4, <2>6, <3>1
      <4>2. QED
        BY <1>2, <2>5, <3>1, <4>1 DEF GoneIsTold
    <3>2. CASE KindOf[x] # kind
      <4>1. GoneIsTold(x) /\ ToldOf(x)' = ToldOf(x)
        BY <2>4, <2>6, <3>2 DEF DeletionsOK
      <4>2. QED
        BY <1>2, <4>1 DEF GoneIsTold, Gone
    <3>3. QED
      BY <3>1, <3>2
  <2>7. ASSUME NEW x \in Objects
        PROVE  AddsApart(x)'
    <3>1. CASE KindOf[x] = kind
      <4>1. \A i, j \in DOMAIN ToldOf(x)' :
              ToldOf(x)'[i][1] = x /\ ToldOf(x)'[j][1] = x => i = j
        BY <2>2, <2>3, <2>4, <3>1
      <4>2. ~Dispatching(<<x, "add">>)'
        BY <1>2, <2>5, <3>1 DEF Types
      <4>3. DOMAIN ToldOf(x)' = DOMAIN s /\ \A i, j \in DOMAIN s : i < j => i # j
        <5>1. DOMAIN s = 1 .. Len(s) /\ Len(s) \in Nat
          BY AddsFinite, SetToSeqCounts DEF MetricsTypeOK, s
        <5>2. QED
          BY <2>4, <3>1, <5>1
      <4>4. QED
        BY <4>1, <4>2, <4>3 DEF AddsApart
    <3>2. CASE KindOf[x] # kind
      <4>1. AddsApart(x) /\ ToldOf(x)' = ToldOf(x)
        BY <2>4, <3>2 DEF DeletionsOK
      <4>2. QED
        BY <1>2, <4>1 DEF AddsApart, Gone, Types
    <3>3. QED
      BY <3>1, <3>2
  <2>8. QED
    BY <1>1, <1>2, <2>6, <2>7 DEF DeletionsOK
<1>5. QED
  BY <1>3, <1>4 DEF Start

\* An add that fails is not delayed already, unless its object is known; then
\* its deletion would have been found, or it is lost.
LEMMA DoneKeepsDeletions ==
  ASSUME MetricsTypeOK, NoCopies, DeletionsOK, pc \in {"fetch", "handle"}, NEW retry \in BOOLEAN, Done(retry),
         UNCHANGED <<objects, notifications, deleted>>, lost \subseteq lost'
  PROVE  DeletionsOK'
<1>1. /\ current \in Dispatchable /\ current' = NoEvent /\ again' = FALSE
      /\ Range(queue') = Range(queue) \cup (IF again THEN {current} ELSE {})
      /\ delayed' \in {delayed, delayed \cup {current}}
  BY DoneEffect DEF MetricsTypeOK, Done
<1>2. \A e \in Dispatchable : e # NoEvent
  BY ObjectsAssumption DEF Dispatchable
<1>3. \A x \in Dispatchable : Dispatching(x)' => Dispatching(x)
  BY <1>1, <1>2 DEF Dispatching
<1>4. ASSUME NEW x \in Objects
      PROVE  OneAdd(x)'
  <2> DEFINE a == <<x, "add">>
  <2>1. a \in Dispatchable /\ a # current'
    BY <1>1, <1>2 DEF Dispatchable, Types
  <2>2. OneAdd(x) /\ (Known(x) => Known(x)')
    BY DEF DeletionsOK, Known
  <2>3. a \in delayed' /\ a \in Range(queue') => Known(x)
    <3>1. CASE a # current
      BY <1>1, <2>2, <3>1 DEF OneAdd
    <3>2. CASE a = current
      BY <1>1, <2>2, <3>2 DEF OneAdd, NoCopies
    <3>3. QED
      BY <3>1, <3>2
  <2>4. QED
    BY <1>1, <2>1, <2>2, <2>3 DEF OneAdd
<1>5. QED
  BY <1>3, <1>4, QuietKeepsDeletions

LEMMA WorkerKeepsDeletions ==
  ASSUME MetricsTypeOK, NoCopies, DeletionsOK, Worker
  PROVE  DeletionsOK'
<1>1. CASE Get
  <2>1. /\ Range(queue) = Range(queue') \cup {current'} /\ ~again'
        /\ UNCHANGED <<objects, notifications, deleted, delayed, lost>>
    BY <1>1, GetEffect DEF MetricsTypeOK
  <2>2. \A x \in Dispatchable : Dispatching(x)' => Dispatching(x)
    BY <2>1 DEF Dispatching
  <2>3. \A x \in Objects : OneAdd(x)'
    BY <2>1 DEF DeletionsOK, OneAdd, Known
  <2>4. QED
    BY <2>1, <2>2, <2>3, QuietKeepsDeletions
<1>2. CASE FetchObj
  <2>1. UNCHANGED <<objects, notifications, deleted>>
    BY <1>2, FetchObjCases
  <2>2. CASE Found(current[1])
    <3>1. UNCHANGED <<queue, again, delayed, current, lost>>
      BY <1>2, <2>2, FetchObjCases
    <3>2. \A x \in Dispatchable : Dispatching(x)' => Dispatching(x)
      BY <3>1 DEF Dispatching
    <3>3. \A x \in Objects : OneAdd(x)'
      BY <2>1, <3>1 DEF DeletionsOK, OneAdd, Known
    <3>4. QED
      BY <2>1, <3>1, <3>2, <3>3, QuietKeepsDeletions
  <2>3. CASE ~Found(current[1])
    <3>1. pc = "fetch" /\ Done(RetryAllowed(current)) /\ lost \subseteq lost'
      BY <1>2, <2>3, FetchObjCases
    <3>2. RetryAllowed(current) \in BOOLEAN
      BY DEF RetryAllowed
    <3>3. QED
      BY <2>1, <3>1, <3>2, DoneKeepsDeletions
  <2>4. QED
    BY <2>2, <2>3
<1>3. CASE Dispatch
  <2>1. pc = "handle" /\ Done(FALSE) /\ UNCHANGED <<objects, notifications, deleted, lost>>
    BY <1>3 DEF Dispatch, informerVars
  <2>2. QED
    BY <2>1, DoneKeepsDeletions
<1>4. CASE Panic
  <2>1. UNCHANGED <<objects, notifications, deleted, queue, again, delayed, current, lost>>
    BY <1>4 DEF Panic, informerVars, queueVars
  <2>2. \A x \in Dispatchable : Dispatching(x)' => Dispatching(x)
    BY <2>1 DEF Dispatching
  <2>3. \A x \in Objects : OneAdd(x)'
    BY <2>1 DEF DeletionsOK, OneAdd, Known
  <2>4. QED
    BY <2>1, <2>2, <2>3, QuietKeepsDeletions
<1>5. QED
  BY <1>1, <1>2, <1>3, <1>4 DEF Worker

LEMMA RequeuedKeepsDeletions ==
  ASSUME MetricsTypeOK, DeletionsOK, Requeued
  PROVE  DeletionsOK'
<1>1. PICK e \in Dispatchable : Requeue(e)
  BY DEF Requeued, Dispatchable
<1>2. /\ Enters(e) /\ pc # "panicked" /\ e \in delayed /\ delayed' = delayed \ {e}
      /\ UNCHANGED <<objects, notifications, deleted, pc, current>> /\ lost \subseteq lost'
  BY <1>1 DEF Requeue, Enters, informerVars, workerVars
<1>3. /\ e # current => again' = again
      /\ e = current => queue' = queue
      /\ Range(queue') \subseteq Range(queue) \cup {e}
  BY <1>2, EntersEffect DEF MetricsTypeOK
<1>4. \A x \in Dispatchable : Dispatching(x)' => Dispatching(x)
  BY <1>2, <1>3 DEF Dispatching
<1>5. ASSUME NEW x \in Objects
      PROVE  OneAdd(x)'
  <2> DEFINE a == <<x, "add">>
  <2>1. OneAdd(x) /\ (Known(x) => Known(x)')
    BY <1>2 DEF DeletionsOK, Known
  <2>2. CASE a = e
    BY <1>2, <2>1, <2>2 DEF OneAdd
  <2>3. CASE a # e
    BY <1>2, <1>3, <2>1, <2>3 DEF OneAdd
  <2>4. QED
    BY <2>2, <2>3
<1>6. QED
  BY <1>2, <1>4, <1>5, QuietKeepsDeletions

LEMMA RestartKeepsDeletions ==
  ASSUME Restart
  PROVE  DeletionsOK'
<1>1. \A o \in Objects : DOMAIN ToldOf(o)' = {}
  BY DEF Restart, ToldOf, Kinds
<1>2. \A e \in Dispatchable : ~Dispatching(e)'
  <2>1. Range(<< >>) = {}
    BY DEF Range
  <2>2. \A e \in Dispatchable : e # NoEvent
    BY ObjectsAssumption DEF Dispatchable
  <2>3. QED
    BY <2>1, <2>2 DEF Restart, Dispatching
<1>3. \A o \in Objects, t \in Types : <<o, t>> \in Dispatchable
  BY DEF Dispatchable
<1>4. \A o \in Objects : GoneIsTold(o)' /\ AddsApart(o)'
  BY <1>1, <1>2, <1>3 DEF GoneIsTold, AddsApart
<1>5. \A o \in Objects : OneAdd(o)' /\ ~Dispatching(<<o, "delete">>)'
  BY <1>2, <1>3 DEF OneAdd, Dispatching, Types
<1>6. QED
  BY <1>4, <1>5 DEF DeletionsOK

\* Who changes the work queue: the handlers and the delays, Get and Done.
LEMMA NoCopiesStep == MetricsTypeOK /\ NoCopies /\ [Next]_vars => NoCopies'
<1> SUFFICES ASSUME MetricsTypeOK, DispatcherOK, NoCopies, [Next]_vars
             PROVE  NoCopies'
  BY DEF MetricsTypeOK
<1>1. CASE UNCHANGED <<queue, current>>
  BY <1>1 DEF NoCopies
<1>2. ASSUME NEW e \in Dispatchable, Enters(e), UNCHANGED current
      PROVE  NoCopies'
  <2>1. CASE queue' = queue
    BY <1>1, <1>2, <2>1
  <2>2. CASE queue' # queue
    <3>1. queue' = Append(queue, e) /\ e \notin Range(queue) /\ e # current
      BY <1>2, <2>2 DEF Enters, Queued
    <3>2. /\ DOMAIN queue = 1 .. Len(queue) /\ Len(queue) \in Nat
          /\ DOMAIN queue' = 1 .. Len(queue) + 1
          /\ \A i \in 1 .. Len(queue) : queue'[i] = queue[i]
          /\ queue'[Len(queue) + 1] = e
          /\ Range(queue') = Range(queue) \cup {e}
      BY <3>1, AppendElements DEF DispatcherOK
    <3>3. \A i \in 1 .. Len(queue) : queue[i] # e
      BY <3>1, <3>2 DEF Range
    <3>4. \A i, j \in 1 .. Len(queue) + 1 : queue'[i] = queue'[j] => i = j
      BY <3>2, <3>3 DEF NoCopies
    <3>5. QED
      BY <1>2, <3>1, <3>2, <3>4 DEF NoCopies
  <2>3. QED
    BY <2>1, <2>2
<1>3. CASE Get
  <2>1. /\ queue \in Seq(Dispatchable) /\ queue # << >>
        /\ queue' = Tail(queue) /\ current' = Head(queue)
    BY <1>3, GetEffect
  <2>2. /\ current' = queue[1] /\ DOMAIN queue = 1 .. Len(queue) /\ Len(queue) \in Nat
        /\ Len(queue) >= 1 /\ DOMAIN queue' = 1 .. Len(queue) - 1
        /\ \A i \in 1 .. Len(queue) - 1 : queue'[i] = queue[i + 1]
    BY <2>1, TailElements
  <2>3. \A i \in 1 .. Len(queue) - 1 : i + 1 \in 1 .. Len(queue) /\ i + 1 # 1
    BY <2>2
  <2>4. \A i \in 1 .. Len(queue) - 1 : queue'[i] # current'
    <3>1. 1 \in DOMAIN queue
      BY <2>2
    <3>2. QED
      BY <2>2, <2>3, <3>1 DEF NoCopies
  <2>5. \A i, j \in 1 .. Len(queue) - 1 : queue'[i] = queue'[j] => i = j
    <3>1. ASSUME NEW i \in 1 .. Len(queue) - 1, NEW j \in 1 .. Len(queue) - 1, queue'[i] = queue'[j]
          PROVE  i = j
      <4>1. queue[i + 1] = queue[j + 1] /\ i + 1 \in DOMAIN queue /\ j + 1 \in DOMAIN queue
        BY <2>2, <2>3, <3>1
      <4>2. i + 1 = j + 1
        BY <4>1 DEF NoCopies
      <4>3. QED
        BY <2>2, <4>2
    <3>2. QED
      BY <3>1
  <2>6. QED
    BY <2>2, <2>4, <2>5 DEF NoCopies, Range
<1>4. ASSUME pc \in {"fetch", "handle"}, NEW retry \in BOOLEAN, Done(retry)
      PROVE  NoCopies'
  <2>1. /\ current \in Dispatchable /\ current' = NoEvent /\ queue' \in Seq(Dispatchable)
        /\ queue' = IF again THEN Append(queue, current) ELSE queue
    BY <1>4, DoneEffect
  <2>2. NoEvent \notin Range(queue')
    <3>1. NoEvent \notin Dispatchable
      BY ObjectsAssumption DEF Dispatchable
    <3>2. QED
      BY <2>1, <3>1 DEF Range
  <2>3. CASE ~again
    BY <2>1, <2>2, <2>3 DEF NoCopies
  <2>4. CASE again
    <3>1. /\ DOMAIN queue = 1 .. Len(queue) /\ Len(queue) \in Nat
          /\ DOMAIN queue' = 1 .. Len(queue) + 1
          /\ \A i \in 1 .. Len(queue) : queue'[i] = queue[i]
          /\ queue'[Len(queue) + 1] = current
      BY <2>1, <2>4, AppendElements DEF DispatcherOK
    <3>2. \A i \in 1 .. Len(queue) : queue[i] # current
      BY <3>1 DEF NoCopies, Range
    <3>3. \A i, j \in 1 .. Len(queue) + 1 : queue'[i] = queue'[j] => i = j
      BY <3>1, <3>2 DEF NoCopies
    <3>4. QED
      BY <2>1, <2>2, <3>1, <3>3 DEF NoCopies
  <2>5. QED
    BY <2>3, <2>4
<1>5. CASE Cluster \/ Start
  <2>1. UNCHANGED <<queue, current>>
    BY <1>5 DEF Cluster, Appears, Updates, Disappears, Change, Start, WatcherStart, DispatcherStart,
                queueVars, workerVars
  <2>2. QED
    BY <1>1, <2>1
<1>6. CASE Requeued
  BY <1>2, <1>6 DEF Requeued, Requeue, Enters, workerVars, Dispatchable
<1>7. CASE Worker
  <2>1. CASE FetchObj
    <3>1. RetryAllowed(current) \in BOOLEAN
      BY DEF RetryAllowed
    <3>2. QED
      BY <1>1, <1>4, <2>1, <3>1, FetchObjCases
  <2>2. CASE Dispatch
    BY <1>4, <2>2 DEF Dispatch
  <2>3. CASE Panic
    BY <1>1, <2>3 DEF Panic, queueVars
  <2>4. QED
    BY <1>3, <1>7, <2>1, <2>2, <2>3 DEF Worker
<1>8. CASE Restart
  BY <1>8 DEF Restart, NoCopies, Range
<1>9. CASE UNCHANGED vars
  BY <1>1, <1>9 DEF vars, queueVars, workerVars
<1>10. CASE Deliver
  <2>1. PICK kind \in Kinds : OnAdd(kind) \/ OnUpdate(kind) \/ OnDelete(kind) \/ OnDeleteUnknown(kind)
    BY <1>10 DEF Deliver
  <2>2. CASE OnDeleteUnknown(kind)
    BY <1>1, <2>2 DEF OnDeleteUnknown, Handler, queueVars, workerVars
  <2>3. CASE OnAdd(kind) \/ OnUpdate(kind) \/ OnDelete(kind)
    <3>1. PICK t \in Types : Handler(kind, t) /\ Enters(<<Head(notifications[kind])[1], t>>)
      BY <2>3 DEF OnAdd, OnUpdate, OnDelete, AddAndCount, Add, Enters, Types
    <3>2. <<Head(notifications[kind])[1], t>> \in Dispatchable
      BY <3>1, HandlerEffect DEF Dispatchable
    <3>3. UNCHANGED current
      BY <3>1 DEF Handler, workerVars
    <3>4. QED
      BY <1>2, <3>1, <3>2, <3>3
  <2>4. QED
    BY <2>1, <2>2, <2>3
<1>11. QED
  BY <1>5, <1>6, <1>7, <1>8, <1>9, <1>10 DEF Next
LEMMA DeletionsStep == MetricsTypeOK /\ NoCopies /\ DeletionsOK /\ [Next]_vars => DeletionsOK'
<1> SUFFICES ASSUME MetricsTypeOK, NoCopies, DeletionsOK, [Next]_vars
             PROVE  DeletionsOK'
  OBVIOUS
<1>1. CASE UNCHANGED vars
  <2>1. UNCHANGED <<objects, notifications, deleted, queue, again, delayed, current, lost>>
    BY <1>1 DEF vars, informerVars, queueVars, workerVars
  <2>2. \A x \in Dispatchable : Dispatching(x)' => Dispatching(x)
    BY <2>1 DEF Dispatching
  <2>3. \A x \in Objects : OneAdd(x)'
    BY <2>1 DEF DeletionsOK, OneAdd, Known
  <2>4. QED
    BY <2>1, <2>2, <2>3, QuietKeepsDeletions
<1>2. QED
  BY <1>1, ClusterKeepsDeletions, DeliverKeepsDeletions, StartKeepsDeletions, WorkerKeepsDeletions,
     RequeuedKeepsDeletions, RestartKeepsDeletions DEF Next

\* Theorem: the stores, the queue and the counters have their types, and the
\* dispatcher knows every object that has gone, or is still to be told.
THEOREM DeletionsKnown == Spec => [](MetricsTypeOK /\ NoCopies /\ DeletionsOK)
<1>1. Init => MetricsTypeOK /\ NoCopies /\ DeletionsOK
  <2>1. Init => NoCopies
    BY DEF Init, NoCopies, Range
  <2>2. QED
    BY <2>1, MetricsTypeInit, DeletionsInit
<1>2. (MetricsTypeOK /\ NoCopies /\ DeletionsOK) /\ [Next]_vars
        => (MetricsTypeOK /\ NoCopies /\ DeletionsOK)'
  BY MetricsTypeStep, NoCopiesStep, DeletionsStep
<1>3. QED
  BY <1>1, <1>2, PTL DEF Spec

\* Theorem: an object that is found neither in the store nor among the
\* deleted ones has a deletion still to be delivered, or is lost.
THEOREM MissingUndelivered == Spec => MissingOnlyWhileUndelivered
<1> DEFINE Inv == MetricsTypeOK /\ NoCopies /\ DeletionsOK
           Missing ==
             pc = "fetch" /\ pc' = "idle" =>
               \/ current[1] \in lost
               \/ \E i \in DOMAIN notifications[KindOf[current[1]]] :
                    /\ notifications[KindOf[current[1]]][i][1] = current[1]
                    /\ notifications[KindOf[current[1]]][i][2] \in {"delete", "tombstone"}
<1>1. Inv /\ [Next]_vars => Missing
  <2>1. SUFFICES ASSUME Inv, [Next]_vars, pc = "fetch", pc' = "idle"
                 PROVE  \/ current[1] \in lost
                        \/ \E i \in DOMAIN ToldOf(current[1]) : Gone(ToldOf(current[1])[i], current[1])
    BY DEF ToldOf, Gone
  <2>2. current \in Dispatchable /\ current = <<current[1], current[2]>>
        /\ current[1] \in Objects /\ current[2] \in Types
    BY <2>1 DEF MetricsTypeOK, DispatcherOK, Dispatchable
  <2>3. FetchObj
    <3>1. CASE UNCHANGED vars
      BY <2>1, <3>1 DEF vars, workerVars
    <3>2. CASE Cluster \/ Requeued
      BY <2>1, <3>2 DEF Cluster, Appears, Updates, Disappears, Change, Requeued, Requeue, workerVars
    <3>3. CASE Deliver
      BY <2>1, <3>3 DEF Deliver, OnAdd, OnUpdate, OnDelete, OnDeleteUnknown, Handler, workerVars
    <3>4. CASE Start \/ Restart
      BY <2>1, <3>4 DEF Start, WatcherStart, DispatcherStart, Restart
    <3>5. CASE Worker
      BY <2>1, <3>5 DEF Worker, Get, Dispatch, Panic
    <3>6. QED
      BY <2>1, <3>1, <3>2, <3>3, <3>4, <3>5 DEF Next
  <2>4. ~Found(current[1])
    BY <2>1, <2>3, FetchObjCases
  <2>5. GoneIsTold(current[1]) /\ Dispatching(<<current[1], current[2]>>)
    BY <2>1, <2>2, <2>4 DEF Found, DeletionsOK, Dispatching
  <2>6. Known(current[1]) \/ \E j \in DOMAIN ToldOf(current[1]) : Gone(ToldOf(current[1])[j], current[1])
    BY <2>2, <2>5 DEF GoneIsTold
  <2>7. QED
    BY <2>4, <2>6 DEF Known, Found
<1>2. Spec => []Inv
  BY DeletionsKnown
<1>3. QED
  BY <1>1, <1>2, PTL DEF Spec, MissingOnlyWhileUndelivered

----------------------------------------------------------------------------
(***************************************************************************)
(* The balance.                                                            *)
(***************************************************************************)
LEMMA TermsAreNaturals ==
  ASSUME MetricsTypeOK, NEW O, NEW t
  PROVE  /\ Notified(notifications, O, t) \in Nat /\ HowMany(queue, O, t) \in Nat
         /\ Handled(O, t) \in Nat /\ Waiting(O, t) \in Nat /\ Delayed(O, t) \in Nat
         /\ IsFiniteSet(Present(O)) /\ Cardinality(Present(O)) \in Nat
<1>1. Notified(notifications, O, t) \in Nat
  BY NotifiedFinite DEF MetricsTypeOK, InformersOK
<1>2. HowMany(queue, O, t) \in Nat
  BY PlacesFinite DEF MetricsTypeOK, DispatcherOK
<1>3. Handled(O, t) \in Nat
  BY DEF Handled, One, MetricsTypeOK, DispatcherOK
<1>4. Delayed(O, t) \in Nat
  BY FS_Subset, FS_CardinalityType DEF Delayed, MetricsTypeOK, DispatcherOK
<1>5. IsFiniteSet(Present(O)) /\ Cardinality(Present(O)) \in Nat
  BY FS_Subset, FS_CardinalityType DEF Present, MetricsTypeOK, InformersOK
<1>6. QED
  BY <1>1, <1>2, <1>3, <1>4, <1>5 DEF Waiting

LEMMA EntersWaiting ==
  ASSUME MetricsTypeOK, NoCopies, NEW e \in Dispatchable, pc # "panicked", Enters(e), UNCHANGED <<pc, current>>,
         NEW O, NEW t
  PROVE  Waiting(O, t)' = Waiting(O, t) + (IF Queued(e) THEN 0 ELSE One(e, O, t))
<1>1. queue \in Seq(Dispatchable) /\ again \in BOOLEAN
  BY DEF MetricsTypeOK, DispatcherOK
<1>2. e # NoEvent
  BY ObjectsAssumption DEF Dispatchable
<1>3. HowMany(queue, O, t) \in Nat /\ Handled(O, t) \in Nat /\ One(e, O, t) \in Nat
  BY TermsAreNaturals DEF One
<1>4. CASE e = current
  <2>1. queue' = queue /\ again' = TRUE
    BY <1>4, EntersEffect DEF MetricsTypeOK, DispatcherOK
  <2>2. HowMany(queue, O, t)' = HowMany(queue, O, t)
    BY <2>1 DEF HowMany, Places
  <2>3. Handled(O, t)' = 2 * One(e, O, t)
    BY <1>2, <1>4, <2>1 DEF Handled, One
  <2>4. Handled(O, t) = IF again THEN 2 * One(e, O, t) ELSE One(e, O, t)
    BY <1>1, <1>2, <1>4 DEF Handled, One
  <2>5. CASE e \in Range(queue)
    BY <1>4, <2>5 DEF NoCopies
  <2>6. CASE e \notin Range(queue)
    <3>1. Queued(e) <=> again
      BY <1>4, <2>6 DEF Queued
    <3>2. QED
      BY <1>1, <1>3, <2>2, <2>3, <2>4, <3>1 DEF Waiting
  <2>7. QED
    BY <2>5, <2>6
<1>5. CASE e # current
  <2>1. again' = again
    BY <1>5, EntersEffect DEF MetricsTypeOK
  <2>2. Handled(O, t)' = Handled(O, t)
    BY <2>1 DEF Handled, One
  <2>3. CASE Queued(e)
    <3>1. queue' = queue
      BY <2>3 DEF Enters
    <3>2. HowMany(queue, O, t)' = HowMany(queue, O, t)
      BY <3>1 DEF HowMany, Places
    <3>3. QED
      BY <1>3, <2>2, <2>3, <3>2 DEF Waiting
  <2>4. CASE ~Queued(e)
    <3>1. queue' = Append(queue, e)
      BY <1>5, <2>4 DEF Enters
    <3>2. HowMany(queue', O, t) = HowMany(queue, O, t) + One(e, O, t)
      BY <1>1, <3>1, HowManyAppend
    <3>3. HowMany(queue, O, t)' = HowMany(queue', O, t)
      BY DEF HowMany, Places
    <3>4. QED
      BY <1>3, <2>2, <2>4, <3>2, <3>3 DEF Waiting
  <2>5. QED
    BY <2>3, <2>4
<1>6. QED
  BY <1>4, <1>5

LEMMA GetWaiting ==
  ASSUME MetricsTypeOK, Get, NEW O, NEW t
  PROVE  Waiting(O, t)' = Waiting(O, t)
<1>1. /\ queue \in Seq(Dispatchable) /\ queue # << >> /\ current' = Head(queue)
      /\ current' \in Dispatchable /\ queue' = Tail(queue)
      /\ current = NoEvent /\ ~again /\ ~again'
  BY GetEffect DEF MetricsTypeOK
<1>2. current' # NoEvent
  BY <1>1, ObjectsAssumption DEF Dispatchable
<1>3. HowMany(queue, O, t) = HowMany(queue', O, t) + One(current', O, t)
  BY <1>1, HowManyTail
<1>4. Handled(O, t) = 0 /\ Handled(O, t)' = One(current', O, t)
  BY <1>1, <1>2 DEF Handled, One
<1>5. HowMany(queue, O, t)' = HowMany(queue', O, t) /\ HowMany(queue', O, t) \in Nat
  <2>1. queue' \in Seq(Dispatchable)
    BY <1>1, TailElements
  <2>2. HowMany(queue', O, t) \in Nat
    BY <2>1, PlacesFinite
  <2>3. HowMany(queue, O, t)' = HowMany(queue', O, t)
    BY DEF HowMany, Places
  <2>4. QED
    BY <2>2, <2>3
<1>6. One(current', O, t) \in Nat
  BY DEF One
<1>7. QED
  BY <1>3, <1>4, <1>5, <1>6 DEF Waiting

LEMMA DoneWaiting ==
  ASSUME MetricsTypeOK, pc \in {"fetch", "handle"}, NEW retry \in BOOLEAN, Done(retry), NEW O, NEW t
  PROVE  Waiting(O, t)' \in Nat /\ Waiting(O, t)' + One(current, O, t) = Waiting(O, t)
<1>1. /\ current \in Dispatchable /\ current # NoEvent /\ current' = NoEvent
      /\ queue' = IF again THEN Append(queue, current) ELSE queue
  BY DoneEffect DEF MetricsTypeOK
<1>2. queue \in Seq(Dispatchable) /\ again \in BOOLEAN
  BY DEF MetricsTypeOK, DispatcherOK
<1>3. HowMany(queue, O, t) \in Nat /\ One(current, O, t) \in Nat
  BY TermsAreNaturals DEF One
<1>4. Handled(O, t)' = 0 /\ Handled(O, t) = IF again THEN 2 * One(current, O, t) ELSE One(current, O, t)
  BY <1>1, <1>2 DEF Handled, One
<1>5. HowMany(queue, O, t)' = HowMany(queue', O, t)
  BY DEF HowMany, Places
<1>6. HowMany(queue', O, t) = HowMany(queue, O, t) + (IF again THEN One(current, O, t) ELSE 0)
  BY <1>1, <1>2, <1>3, HowManyAppend
<1>7. QED
  BY <1>2, <1>3, <1>4, <1>5, <1>6 DEF Waiting

LEMMA DelayedMore ==
  ASSUME MetricsTypeOK, NEW e \in Dispatchable, e \notin delayed, delayed' = delayed \cup {e}, NEW O, NEW t
  PROVE  Delayed(O, t)' = Delayed(O, t) + One(e, O, t)
<1> DEFINE D == {x \in delayed : x[1] \in O /\ x[2] = t}
           D2 == {x \in delayed' : x[1] \in O /\ x[2] = t}
<1>0. Delayed(O, t) = Cardinality(D) /\ Delayed(O, t)' = Cardinality(D2)
  BY DEF Delayed
<1>1. IsFiniteSet(D) /\ e \notin D
  BY FS_Subset DEF MetricsTypeOK, DispatcherOK
<1>2. Cardinality(D) \in Nat /\ Cardinality(D \cup {e}) = Cardinality(D) + 1
  BY <1>1, FS_AddElement, FS_CardinalityType
<1>3. CASE e[1] \in O /\ e[2] = t
  <2>1. D2 = D \cup {e}
    BY <1>3
  <2> HIDE DEF D, D2
  <2>2. QED
    BY <1>0, <1>2, <1>3, <2>1 DEF One
<1>4. CASE ~(e[1] \in O /\ e[2] = t)
  <2>1. D2 = D
    BY <1>4
  <2> HIDE DEF D, D2
  <2>2. QED
    BY <1>0, <1>2, <1>4, <2>1 DEF One
<1>5. QED
  BY <1>3, <1>4

LEMMA DelayedLess ==
  ASSUME MetricsTypeOK, NEW e \in delayed, delayed' = delayed \ {e}, NEW O, NEW t
  PROVE  Delayed(O, t)' + One(e, O, t) = Delayed(O, t)
<1> DEFINE D == {x \in delayed : x[1] \in O /\ x[2] = t}
           D2 == {x \in delayed' : x[1] \in O /\ x[2] = t}
<1>0. Delayed(O, t) = Cardinality(D) /\ Delayed(O, t)' = Cardinality(D2)
  BY DEF Delayed
<1>1. IsFiniteSet(D)
  BY FS_Subset DEF MetricsTypeOK, DispatcherOK
<1>2. /\ Cardinality(D) \in Nat
      /\ Cardinality(D \ {e}) = IF e \in D THEN Cardinality(D) - 1 ELSE Cardinality(D)
  BY <1>1, FS_RemoveElement, FS_CardinalityType
<1>3. CASE e[1] \in O /\ e[2] = t
  <2>1. D2 = D \ {e} /\ e \in D
    BY <1>3
  <2> HIDE DEF D, D2
  <2>2. QED
    BY <1>0, <1>2, <1>3, <2>1 DEF One
<1>4. CASE ~(e[1] \in O /\ e[2] = t)
  <2>1. D2 = D
    BY <1>4
  <2> HIDE DEF D, D2
  <2>2. QED
    BY <1>0, <1>2, <1>4, <2>1 DEF One
<1>5. QED
  BY <1>3, <1>4

LEMMA HandlerNotified ==
  ASSUME MetricsTypeOK, NEW kind \in Kinds, NEW type, Handler(kind, type), NEW O, NEW t
  PROVE  Notified(notifications', O, t) + One(Head(notifications[kind]), O, t)
           = Notified(notifications, O, t)
<1> DEFINE s == notifications[kind]
<1>1. s \in Seq(Notification) /\ s # << >> /\ notifications \in [Kinds -> Seq(Notification)]
  BY HandlerEffect DEF MetricsTypeOK, InformersOK
<1>2. Tail(s) \in Seq(Notification) /\ notifications' = [notifications EXCEPT ![kind] = Tail(s)]
  BY <1>1 DEF Handler
<1>3. HowMany(s, O, t) = HowMany(Tail(s), O, t) + One(Head(s), O, t)
  BY <1>1, HowManyTail
<1>4. Notified(notifications', O, t) + HowMany(s, O, t) = Notified(notifications, O, t) + HowMany(Tail(s), O, t)
  <2>1. /\ notifications' \in [Kinds -> Seq(Notification)] /\ notifications'[kind] = Tail(s)
        /\ \A x \in Kinds : x # kind => notifications'[x] = notifications[x]
    BY <1>1, <1>2
  <2> HIDE DEF s
  <2>2. notifications[kind] = s /\ notifications \in [Kinds -> Seq(Notification)]
    BY <1>1 DEF s
  <2>3. Moved(notifications, notifications', kind, O, t)
    BY <2>1, <2>2, NotifiedElsewhere
  <2>4. QED
    BY <2>1, <2>2, <2>3 DEF Moved
<1>5. /\ HowMany(Tail(s), O, t) \in Nat /\ One(Head(s), O, t) \in Nat
      /\ Notified(notifications, O, t) \in Nat
  BY <1>1, <1>2, PlacesFinite, NotifiedFinite DEF One
<1>6. notifications' \in [Kinds -> Seq(Notification)]
  BY <1>1, <1>2
<1>7. Notified(notifications', O, t) \in Nat
  BY <1>6, NotifiedFinite
<1>8. QED
  BY <1>3, <1>4, <1>5, <1>7

LEMMA AppendNotified ==
  ASSUME MetricsTypeOK, NEW o \in Objects, NEW n \in Notification, Notified1(o, n), NEW O, NEW t
  PROVE  Notified(notifications', O, t) = Notified(notifications, O, t)
           + (IF KindOf[o] \in synced THEN One(n, O, t) ELSE 0)
<1> DEFINE k == KindOf[o]
           s == notifications[k]
<1>1. k \in Kinds /\ notifications \in [Kinds -> Seq(Notification)] /\ s \in Seq(Notification)
  BY DEF Kinds, MetricsTypeOK, InformersOK
<1>2. Notified(notifications, O, t) \in Nat /\ HowMany(s, O, t) \in Nat /\ One(n, O, t) \in Nat
  BY <1>1, PlacesFinite, NotifiedFinite DEF One
<1>3. CASE k \notin synced
  <2>1. notifications' = notifications
    BY <1>1, <1>3 DEF Notified1
  <2>2. QED
    BY <1>2, <1>3, <2>1
<1>4. CASE k \in synced
  <2>1. /\ notifications' = [notifications EXCEPT ![k] = Append(s, n)] /\ Append(s, n) \in Seq(Notification)
        /\ notifications' \in [Kinds -> Seq(Notification)]
    BY <1>1, <1>4 DEF Notified1
  <2>2. HowMany(Append(s, n), O, t) = HowMany(s, O, t) + One(n, O, t)
    BY <1>1, HowManyAppend
  <2>3. Notified(notifications', O, t) + HowMany(s, O, t)
          = Notified(notifications, O, t) + HowMany(Append(s, n), O, t)
    <3>1. /\ notifications'[k] = Append(s, n)
          /\ \A x \in Kinds : x # k => notifications'[x] = notifications[x]
      BY <1>1, <2>1
    <3>2. notifications[k] = s /\ notifications \in [Kinds -> Seq(Notification)] /\ k \in Kinds
      BY <1>1
    <3> HIDE DEF k, s
    <3>3. Moved(notifications, notifications', k, O, t)
      BY <2>1, <3>1, <3>2, NotifiedElsewhere
    <3>4. QED
      BY <3>1, <3>2, <3>3 DEF Moved
  <2>4. Notified(notifications', O, t) \in Nat
    BY <2>1, NotifiedFinite
  <2>5. QED
    BY <1>2, <1>4, <2>2, <2>3, <2>4
<1>5. QED
  BY <1>3, <1>4

\* What a step must do to the terms of a metric that has lost nothing.
BalanceKept(m) ==
  LET O == ObjectsOf(m) IN
  lost \cap O = {} /\ lost' \cap O = {} =>
    counters'[m].running + UnderWay(O, "add")' + Cardinality(Present(O)) + UnderWay(O, "delete")
        + Notified(notifications, O, "tombstone")
      = counters[m].running + UnderWay(O, "add") + Cardinality(Present(O))' + UnderWay(O, "delete")'
        + Notified(notifications', O, "tombstone")

LEMMA BalanceFollows ==
  ASSUME MetricsTypeOK, MetricsTypeOK', lost \subseteq lost', BalanceOK,
         \A m \in Metrics : BalanceKept(m)
  PROVE  BalanceOK'
<1>1. SUFFICES ASSUME NEW m \in Metrics, lost' \cap ObjectsOf(m) = {}
               PROVE  counters'[m].running + UnderWay(ObjectsOf(m), "add")'
                        = Cardinality(Present(ObjectsOf(m)))' + UnderWay(ObjectsOf(m), "delete")'
                            + Notified(notifications', ObjectsOf(m), "tombstone")
  BY DEF BalanceOK, Balance
<1> DEFINE O == ObjectsOf(m)
<1>2. /\ lost \cap O = {} /\ BalanceKept(m)
  BY <1>1
<1>3. counters[m].running + UnderWay(O, "add")
        = Cardinality(Present(O)) + UnderWay(O, "delete") + Notified(notifications, O, "tombstone")
  BY <1>2 DEF BalanceOK, Balance
<1>4. /\ counters[m].running \in Int /\ counters'[m].running \in Int
  BY DEF MetricsTypeOK, CountersOK, Counter
<1>5. ASSUME NEW t
      PROVE  UnderWay(O, t) \in Nat /\ UnderWay(O, t)' \in Nat
  <2>1. UnderWay(O, t) \in Nat
    BY TermsAreNaturals DEF UnderWay
  <2>2. /\ Notified(notifications', O, t) \in Nat /\ HowMany(queue', O, t) \in Nat
    BY NotifiedFinite, PlacesFinite DEF MetricsTypeOK, InformersOK, DispatcherOK
  <2>3. Handled(O, t)' \in Nat
    BY DEF Handled, One, MetricsTypeOK, DispatcherOK
  <2>4. Delayed(O, t)' \in Nat
    BY FS_Subset, FS_CardinalityType DEF Delayed, MetricsTypeOK, DispatcherOK
  <2>5. /\ Notified(notifications, O, t)' = Notified(notifications', O, t)
        /\ HowMany(queue, O, t)' = HowMany(queue', O, t)
    BY DEF HowMany, Places, Notified, NotifiedPlaces
  <2>6. QED
    BY <2>1, <2>2, <2>3, <2>4, <2>5 DEF UnderWay, Waiting
<1>6. /\ Cardinality(Present(O)) \in Nat /\ Cardinality(Present(O))' \in Nat
      /\ Notified(notifications, O, "tombstone") \in Nat
      /\ Notified(notifications', O, "tombstone") \in Nat
  <2>1. IsFiniteSet(Present(O)') /\ Cardinality(Present(O)') \in Nat
    BY FS_Subset, FS_CardinalityType DEF Present, MetricsTypeOK, InformersOK
  <2>2. Notified(notifications', O, "tombstone") \in Nat
    BY NotifiedFinite DEF MetricsTypeOK, InformersOK
  <2>3. QED
    BY <2>1, <2>2, TermsAreNaturals
<1>7. /\ UnderWay(O, "add") \in Nat /\ UnderWay(O, "add")' \in Nat
      /\ UnderWay(O, "delete") \in Nat /\ UnderWay(O, "delete")' \in Nat
  BY <1>5
<1>8. counters'[m].running + UnderWay(O, "add")' + Cardinality(Present(O)) + UnderWay(O, "delete")
        + Notified(notifications, O, "tombstone")
      = counters[m].running + UnderWay(O, "add") + Cardinality(Present(O))' + UnderWay(O, "delete")'
        + Notified(notifications', O, "tombstone")
  BY <1>1, <1>2 DEF BalanceKept
<1> HIDE DEF O
<1>9. counters'[m].running + UnderWay(O, "add")'
        = Cardinality(Present(O))' + UnderWay(O, "delete")' + Notified(notifications', O, "tombstone")
  BY <1>3, <1>4, <1>6, <1>7, <1>8
<1>10. QED
  BY <1>9 DEF O

LEMMA UnderWayThen ==
  ASSUME NEW O, NEW t
  PROVE  UnderWay(O, t)' = Notified(notifications', O, t) + Waiting(O, t)' + Delayed(O, t)'
BY DEF UnderWay, Notified, NotifiedPlaces, Places

LEMMA QueueAside ==
  ASSUME UNCHANGED <<queue, again, delayed, current>>, NEW O, NEW t
  PROVE  Waiting(O, t)' = Waiting(O, t) /\ Delayed(O, t)' = Delayed(O, t)
BY DEF Waiting, Handled, HowMany, Places, One, Delayed

LEMMA ClusterBalance ==
  ASSUME MetricsTypeOK, Cluster, NEW m \in Metrics
  PROVE  BalanceKept(m)
<1>1. PICK o \in Objects : Appears(o) \/ Updates(o) \/ \E tombstone \in BOOLEAN : Disappears(o, tombstone)
  BY DEF Cluster
<1> DEFINE O == ObjectsOf(m)
           in == IF KindOf[o] \in synced /\ o \in O THEN 1 ELSE 0
<1>2. UNCHANGED <<synced, queue, again, delayed, current, counters>>
  BY <1>1 DEF Appears, Updates, Disappears, Change, queueVars, workerVars
<1>3. \A t : Waiting(O, t)' = Waiting(O, t) /\ Delayed(O, t)' = Delayed(O, t)
  BY <1>2, QueueAside
<1>4. /\ IsFiniteSet(Present(O)) /\ Cardinality(Present(O)) \in Nat
      /\ counters[m].running \in Int
      /\ \A t : /\ Notified(notifications, O, t) \in Nat
                /\ Waiting(O, t) \in Nat /\ Delayed(O, t) \in Nat
  BY TermsAreNaturals DEF MetricsTypeOK, CountersOK, Counter
<1>5. \A t : UnderWay(O, t)' = Notified(notifications', O, t) + Waiting(O, t) + Delayed(O, t)
  BY <1>3, UnderWayThen
<1>6. CASE Appears(o)
  <2> DEFINE n == <<o, "add">>
  <2>1. n \in Notification /\ Notified1(o, n)
    BY <1>6 DEF Appears, Notify, Notified1, Notification
  <2>2. /\ Notified(notifications', O, "add") = Notified(notifications, O, "add") + in
        /\ Notified(notifications', O, "delete") = Notified(notifications, O, "delete")
        /\ Notified(notifications', O, "tombstone") = Notified(notifications, O, "tombstone")
    BY <1>4, <2>1, AppendNotified DEF One
  <2>3. Cardinality(Present(O))' = Cardinality(Present(O)) + in
    <3>1. CASE KindOf[o] \in synced /\ o \in O
      <4>1. Present(O)' = Present(O) \cup {o} /\ o \notin Present(O)
        BY <1>2, <1>6, <3>1 DEF Present, Appears
      <4>2. QED
        BY <1>4, <3>1, <4>1, FS_AddElement
    <3>2. CASE ~(KindOf[o] \in synced /\ o \in O)
      <4>1. Present(O)' = Present(O)
        BY <1>2, <1>6, <3>2 DEF Present, Appears
      <4>2. QED
        BY <1>4, <3>2, <4>1
    <3>3. QED
      BY <3>1, <3>2
  <2>4. in \in Nat
    OBVIOUS
  <2> HIDE DEF O, in
  <2>5. QED
    BY <1>2, <1>4, <1>5, <2>2, <2>3, <2>4 DEF BalanceKept, UnderWay, O
<1>7. CASE Updates(o)
  <2> DEFINE n == <<o, "update">>
  <2>1. n \in Notification /\ Notified1(o, n)
    BY <1>7 DEF Updates, Notify, Notified1, Notification
  <2>2. /\ Notified(notifications', O, "add") = Notified(notifications, O, "add")
        /\ Notified(notifications', O, "delete") = Notified(notifications, O, "delete")
        /\ Notified(notifications', O, "tombstone") = Notified(notifications, O, "tombstone")
    BY <1>4, <2>1, AppendNotified DEF One
  <2>3. Present(O)' = Present(O)
    BY <1>2, <1>7 DEF Present, Updates, MetricsTypeOK, InformersOK
  <2> HIDE DEF O, in
  <2>4. QED
    BY <1>2, <1>4, <1>5, <2>2, <2>3 DEF BalanceKept, UnderWay, O
<1>8. ASSUME NEW tombstone \in BOOLEAN, Disappears(o, tombstone)
      PROVE  BalanceKept(m)
  <2> DEFINE n == IF tombstone THEN <<o, "tombstone">> ELSE <<o, "delete", objects[o]>>
  <2>1. objects[o] \in State /\ o \in DOMAIN objects /\ DOMAIN objects' = DOMAIN objects \ {o}
    BY <1>8 DEF Disappears, MetricsTypeOK, InformersOK
  <2>2. n \in Notification
    BY <2>1 DEF Notification
  <2>3. Notified1(o, n)
    BY <1>8 DEF Disappears, Notified1
  <2>4. \A t : One(n, O, t) = IF o \in O /\ t = (IF tombstone THEN "tombstone" ELSE "delete") THEN 1 ELSE 0
    BY DEF One
  <2>5. /\ Notified(notifications', O, "add") = Notified(notifications, O, "add")
        /\ Notified(notifications', O, "delete")
             = Notified(notifications, O, "delete") + (IF tombstone THEN 0 ELSE in)
        /\ Notified(notifications', O, "tombstone")
             = Notified(notifications, O, "tombstone") + (IF tombstone THEN in ELSE 0)
    <3> HIDE DEF n
    <3>1. \A t : Notified(notifications', O, t) = Notified(notifications, O, t)
                   + (IF KindOf[o] \in synced THEN One(n, O, t) ELSE 0)
      BY <2>2, <2>3, AppendNotified
    <3>2. QED
      BY <1>4, <2>4, <3>1
  <2>6. Cardinality(Present(O))' = Cardinality(Present(O)) - in
    <3>1. CASE KindOf[o] \in synced /\ o \in O
      <4>1. Present(O)' = Present(O) \ {o} /\ o \in Present(O)
        BY <1>2, <2>1, <3>1 DEF Present
      <4>2. QED
        BY <1>4, <3>1, <4>1, FS_RemoveElement
    <3>2. CASE ~(KindOf[o] \in synced /\ o \in O)
      <4>1. Present(O)' = Present(O)
        BY <1>2, <2>1, <3>2 DEF Present
      <4>2. QED
        BY <1>4, <3>2, <4>1
    <3>3. QED
      BY <3>1, <3>2
  <2>7. in \in Nat
    OBVIOUS
  <2> HIDE DEF O, in, n
  <2>8. QED
    BY <1>2, <1>4, <1>5, <2>5, <2>6, <2>7 DEF BalanceKept, UnderWay, O
<1>9. QED
  BY <1>1, <1>6, <1>7, <1>8

LEMMA PresentKept ==
  ASSUME UNCHANGED <<objects, synced>>, NEW O
  PROVE  Present(O)' = Present(O)
BY DEF Present

LEMMA StartBalance ==
  ASSUME MetricsTypeOK, Start, NEW m \in Metrics
  PROVE  BalanceKept(m)
<1> DEFINE O == ObjectsOf(m)
<1>1. UNCHANGED <<objects, queue, again, delayed, current, counters>>
  BY DEF Start, DispatcherStart, WatcherStart, informerVars, queueVars, workerVars
<1>2. \A t : Waiting(O, t)' = Waiting(O, t) /\ Delayed(O, t)' = Delayed(O, t)
  BY <1>1, QueueAside
<1>3. /\ IsFiniteSet(Present(O)) /\ Cardinality(Present(O)) \in Nat
      /\ counters[m].running \in Int
      /\ \A t : /\ Notified(notifications, O, t) \in Nat
                /\ Waiting(O, t) \in Nat /\ Delayed(O, t) \in Nat
  BY TermsAreNaturals DEF MetricsTypeOK, CountersOK, Counter
<1>4. \A t : UnderWay(O, t)' = Notified(notifications', O, t) + Waiting(O, t) + Delayed(O, t)
  BY <1>2, UnderWayThen
<1>5. CASE DispatcherStart
  <2>1. UNCHANGED <<synced, notifications>>
    BY <1>5 DEF DispatcherStart, informerVars
  <2>2. Present(O)' = Present(O)
    BY <1>1, <2>1, PresentKept
  <2> HIDE DEF O
  <2>3. QED
    BY <1>1, <1>3, <1>4, <2>1, <2>2 DEF BalanceKept, UnderWay, O
<1>6. ASSUME NEW kind \in Kinds, WatcherStart(kind)
      PROVE  BalanceKept(m)
  <2> DEFINE s == SetToSeq(AddsOf(kind))
             found == {o \in DOMAIN objects : o \in O /\ KindOf[o] = kind}
             adds(t) == {e \in AddsOf(kind) : e[1] \in O /\ e[2] = t}
  <2>1. /\ notifications' = [notifications EXCEPT ![kind] = s] /\ kind \notin synced
        /\ synced' = synced \cup {kind}
    BY <1>6 DEF WatcherStart, AddsOf
  <2>2. /\ s \in Seq(AddsOf(kind))
        /\ \A t : HowMany(s, O, t) = Cardinality(adds(t))
    <3>1. IsFiniteSet(AddsOf(kind))
      BY AddsFinite DEF MetricsTypeOK
    <3> HIDE DEF O
    <3>2. ASSUME NEW t
          PROVE  s \in Seq(AddsOf(kind)) /\ HowMany(s, O, t) = Cardinality(adds(t))
      BY <3>1, SetToSeqCounts
    <3>3. QED
      BY <3>2
  <2>3. s \in Seq(Notification)
    BY <2>2, AddsFinite DEF MetricsTypeOK
  <2>4. notifications \in [Kinds -> Seq(Notification)] /\ notifications[kind] = << >>
    BY <2>1 DEF MetricsTypeOK, InformersOK
  <2>5. \A t : Notified(notifications', O, t) = Notified(notifications, O, t) + Cardinality(adds(t))
    <3>1. SUFFICES ASSUME NEW t
                   PROVE  Notified(notifications', O, t) = Notified(notifications, O, t) + Cardinality(adds(t))
      OBVIOUS
    <3> HIDE DEF s
    <3>2. /\ notifications' \in [Kinds -> Seq(Notification)] /\ notifications'[kind] = s
          /\ \A x \in Kinds : x # kind => notifications'[x] = notifications[x]
      BY <2>1, <2>3, <2>4
    <3>3. Moved(notifications, notifications', kind, O, t)
      BY <2>4, <3>2, NotifiedElsewhere
    <3>4. HowMany(notifications[kind], O, t) = 0
      BY <2>4, HowManyNone
    <3>5. Notified(notifications', O, t) \in Nat /\ HowMany(s, O, t) \in Nat
      BY <2>3, <3>2, NotifiedFinite, PlacesFinite
    <3> HIDE DEF adds
    <3>6. QED
      BY <1>3, <2>2, <3>2, <3>3, <3>4, <3>5 DEF Moved
  <2>6. Cardinality(adds("delete")) = 0 /\ Cardinality(adds("tombstone")) = 0
    <3>1. adds("delete") = {} /\ adds("tombstone") = {}
      BY DEF AddsOf
    <3> HIDE DEF adds
    <3>2. QED
      BY <3>1, FS_EmptySet
  <2>7. IsFiniteSet(found) /\ Cardinality(found) \in Nat
    BY FS_Subset, FS_CardinalityType DEF MetricsTypeOK, InformersOK
  <2>8. Cardinality(adds("add")) = Cardinality(found)
    <3> DEFINE f == [o \in found |-> <<o, "add">>]
    <3>1. f \in [found -> adds("add")]
      BY DEF AddsOf
    <3>2. \A e \in adds("add") : \E o \in found : f[o] = e
      BY DEF AddsOf
    <3>3. f \in Bijection(found, adds("add"))
      BY <3>1, <3>2 DEF Bijection, Injection, Surjection, IsInjective
    <3> HIDE DEF f, adds, found
    <3>4. QED
      BY <2>7, <3>3, FS_Bijection DEF ExistsBijection
  <2>9. Cardinality(Present(O))' = Cardinality(Present(O)) + Cardinality(found)
    <3>1. Present(O)' = Present(O) \cup found /\ Present(O) \cap found = {}
      BY <1>1, <2>1 DEF Present
    <3>2. Cardinality(Present(O) \cup found)
            = Cardinality(Present(O)) + Cardinality(found) - Cardinality(Present(O) \cap found)
      BY <1>3, <2>7, FS_Union
    <3>3. Cardinality(Present(O) \cap found) = 0
      BY <3>1, FS_EmptySet
    <3> HIDE DEF found
    <3>4. QED
      BY <1>3, <2>7, <3>1, <3>2, <3>3
  <2> HIDE DEF O, found, adds
  <2>10. QED
    BY <1>1, <1>3, <1>4, <2>5, <2>6, <2>7, <2>8, <2>9 DEF BalanceKept, UnderWay, O
<1>7. QED
  BY <1>5, <1>6 DEF Start

LEMMA DeliverBalance ==
  ASSUME MetricsTypeOK, NoCopies, Deliver, NEW m \in Metrics
  PROVE  BalanceKept(m)
<1>1. PICK kind \in Kinds : OnAdd(kind) \/ OnUpdate(kind) \/ OnDelete(kind) \/ OnDeleteUnknown(kind)
  BY DEF Deliver
<1> DEFINE O == ObjectsOf(m)
           n == Head(notifications[kind])
<1>2. PICK type : Handler(kind, type)
  BY <1>1 DEF OnAdd, OnUpdate, OnDelete, OnDeleteUnknown
<1>3. PICK o \in Objects : o = n[1] /\ n[2] = type
  BY <1>2, HandlerEffect
<1>4. UNCHANGED <<pc, current, objects, synced, counters>> /\ pc # "panicked"
  BY <1>2 DEF Handler, workerVars
<1>5. \A t : Notified(notifications', O, t) + (IF o \in O /\ type = t THEN 1 ELSE 0)
               = Notified(notifications, O, t)
  <2>1. \A t : One(n, O, t) = IF o \in O /\ type = t THEN 1 ELSE 0
    BY <1>3 DEF One
  <2>2. \A t : Notified(notifications', O, t) + One(n, O, t) = Notified(notifications, O, t)
    BY <1>2, HandlerNotified
  <2>3. QED
    BY <2>1, <2>2
<1>6. Present(O)' = Present(O)
  BY <1>4, PresentKept
<1>7. /\ Cardinality(Present(O)) \in Nat
      /\ counters[m].running \in Int
      /\ \A t : /\ Notified(notifications, O, t) \in Nat
                /\ Waiting(O, t) \in Nat /\ Delayed(O, t) \in Nat
      /\ \A t : Notified(notifications', O, t) \in Nat
  <2>1. notifications' \in [Kinds -> Seq(Notification)]
    BY <1>2, HandlerEffect DEF InformersOK
  <2>2. QED
    BY <2>1, TermsAreNaturals, NotifiedFinite DEF MetricsTypeOK, CountersOK, Counter
<1>8. ASSUME NEW t \in Types, Enters(<<o, t>>), UNCHANGED delayed, t = type,
             Queued(<<o, t>>) /\ t # "update" => o \in lost'
      PROVE  BalanceKept(m)
  <2> DEFINE e == <<o, t>>
  <2>1. e \in Dispatchable
    BY DEF Dispatchable
  <2>2. \A u : Waiting(O, u)' = Waiting(O, u) + (IF Queued(e) THEN 0 ELSE IF o \in O /\ t = u THEN 1 ELSE 0)
    <3>1. \A u : One(e, O, u) = IF o \in O /\ t = u THEN 1 ELSE 0
      BY DEF One
    <3>2. \A u : Waiting(O, u)' = Waiting(O, u) + (IF Queued(e) THEN 0 ELSE One(e, O, u))
      BY <1>4, <1>8, <2>1, EntersWaiting
    <3>3. QED
      BY <3>1, <3>2
  <2>3. \A u : Delayed(O, u)' = Delayed(O, u)
    BY <1>8 DEF Delayed
  <2>4. \A u : UnderWay(O, u)' = Notified(notifications', O, u) + Waiting(O, u)' + Delayed(O, u)
    BY <2>3, UnderWayThen
  <2>5. lost' \cap O = {} => ~(Queued(e) /\ t # "update" /\ o \in O)
    BY <1>8
  <2>6. t \in {"add", "update", "delete"}
    BY DEF Types
  <2>7. lost' \cap O = {} => UnderWay(O, "add")' = UnderWay(O, "add")
    BY <1>5, <1>7, <1>8, <2>2, <2>4, <2>5 DEF UnderWay
  <2>8. lost' \cap O = {} => UnderWay(O, "delete")' = UnderWay(O, "delete")
    BY <1>5, <1>7, <1>8, <2>2, <2>4, <2>5 DEF UnderWay
  <2>9. Notified(notifications', O, "tombstone") = Notified(notifications, O, "tombstone")
    BY <1>5, <1>7, <1>8, <2>6
  <2>10. UnderWay(O, "add") \in Nat /\ UnderWay(O, "delete") \in Nat
    BY <1>7 DEF UnderWay
  <2> HIDE DEF O
  <2>11. QED
    BY <1>4, <1>6, <1>7, <2>7, <2>8, <2>9, <2>10 DEF BalanceKept, O
<1> HIDE DEF n
<1>9. CASE OnAdd(kind)
  <2>1. /\ type = "add" /\ Enters(<<o, "add">>) /\ UNCHANGED delayed
        /\ Queued(<<o, "add">>) => o \in lost'
    BY <1>2, <1>3, <1>9 DEF OnAdd, AddAndCount, Add, Enters, n, Handler
  <2>2. QED
    BY <1>8, <2>1 DEF Types
<1>10. CASE OnUpdate(kind)
  <2>1. /\ type = "update" /\ Enters(<<o, "update">>) /\ UNCHANGED delayed
    BY <1>2, <1>3, <1>10 DEF OnUpdate, Add, Enters, n, Handler
  <2>2. QED
    BY <1>8, <2>1 DEF Types
<1>11. CASE OnDelete(kind)
  <2>1. /\ type = "delete" /\ Enters(<<o, "delete">>) /\ UNCHANGED delayed
        /\ Queued(<<o, "delete">>) => o \in lost'
    BY <1>2, <1>3, <1>11 DEF OnDelete, AddAndCount, Add, Enters, n, Handler
  <2>2. QED
    BY <1>8, <2>1 DEF Types
<1>12. CASE OnDeleteUnknown(kind)
  <2>1. /\ type = "tombstone" /\ o \in lost' /\ UNCHANGED <<queue, again, delayed>>
    BY <1>2, <1>3, <1>12 DEF OnDeleteUnknown, n, Handler, queueVars
  <2>2. \A t : Waiting(O, t)' = Waiting(O, t) /\ Delayed(O, t)' = Delayed(O, t)
    BY <1>4, <2>1, QueueAside
  <2>3. \A t : UnderWay(O, t)' = Notified(notifications', O, t) + Waiting(O, t) + Delayed(O, t)
    BY <2>2, UnderWayThen
  <2>4. lost' \cap O = {} => \A t : Notified(notifications', O, t) = Notified(notifications, O, t)
    BY <1>5, <1>7, <2>1
  <2>5. \A t : UnderWay(O, t) \in Nat
    BY <1>7 DEF UnderWay
  <2>6. lost' \cap O = {} => \A t : UnderWay(O, t)' = UnderWay(O, t)
    BY <2>3, <2>4 DEF UnderWay
  <2> HIDE DEF O
  <2>7. QED
    BY <1>4, <1>6, <1>7, <2>4, <2>5, <2>6 DEF BalanceKept, O
<1>13. QED
  BY <1>1, <1>9, <1>10, <1>11, <1>12

\* The counter of a metric follows its objects, and those only.
LEMMA RunningFollows ==
  ASSUME MetricsTypeOK, NEW m \in Metrics, NEW o \in Objects, NEW type \in Types, NEW object
  PROVE  Counting(o, type, object)[m].running + One(<<o, type>>, ObjectsOf(m), "delete")
           = counters[m].running + One(<<o, type>>, ObjectsOf(m), "add")
<1>1. counters \in [Metrics -> Counter] /\ counters[m] \in Counter /\ counters[m].running \in Int
  BY DEF MetricsTypeOK, CountersOK, Counter
<1>2. CASE o \in ObjectsOf(m)
  <2>1. KindOf[o] # "Event" /\ Counted(o) /\ MetricOf(o) = m
    BY <1>2 DEF ObjectsOf, Counted
  <2>2. Counting(o, type, object)[m] = translate(type, counters[m], object)
    BY <1>1, <2>1 DEF Counting
  <2>3. QED
    BY <1>1, <1>2, <2>2, TranslateSteps DEF One, Types
<1>3. CASE o \notin ObjectsOf(m)
  <2>1. Counting(o, type, object)[m].running = counters[m].running
    <3>1. CASE KindOf[o] = "Event"
      <4>1. Counting(o, type, object)[m] \in {counters[m], Error(counters[m])}
        BY <1>1, <3>1 DEF Counting
      <4>2. QED
        BY <1>1, <4>1, CounterSteps
    <3>2. CASE KindOf[o] # "Event"
      BY <1>1, <1>3, <3>2 DEF Counting, ObjectsOf
    <3>3. QED
      BY <3>1, <3>2
  <2>2. QED
    BY <1>1, <1>3, <2>1 DEF One
<1>4. QED
  BY <1>2, <1>3

LEMMA WorkerBalance ==
  ASSUME MetricsTypeOK, NoCopies, DeletionsOK, Worker, NEW m \in Metrics
  PROVE  BalanceKept(m)
<1> DEFINE O == ObjectsOf(m)
<1>1. UNCHANGED <<objects, synced, notifications>>
  BY DEF Worker, Get, FetchObj, Dispatch, Panic, informerVars
<1>2. Present(O)' = Present(O)
  BY <1>1, PresentKept
<1>3. /\ Cardinality(Present(O)) \in Nat
      /\ counters[m].running \in Int
      /\ \A t : /\ Notified(notifications, O, t) \in Nat
                /\ Waiting(O, t) \in Nat /\ Delayed(O, t) \in Nat
      /\ \A t : UnderWay(O, t) \in Nat
  BY TermsAreNaturals DEF MetricsTypeOK, CountersOK, Counter, UnderWay
<1>4. \A t : UnderWay(O, t)' = Notified(notifications, O, t) + Waiting(O, t)' + Delayed(O, t)'
  BY <1>1, UnderWayThen
<1>5. SUFFICES ASSUME lost' \cap O = {}
               PROVE  counters'[m].running + UnderWay(O, "add")' + UnderWay(O, "delete")
                        = counters[m].running + UnderWay(O, "add") + UnderWay(O, "delete")'
  <2>1. lost' \cap O = {} =>
          counters'[m].running + UnderWay(O, "add")' + UnderWay(O, "delete")
            = counters[m].running + UnderWay(O, "add") + UnderWay(O, "delete")'
    BY <1>5
  <2>2. counters'[m].running \in Int
    BY WorkerKeepsType DEF MetricsTypeOK, CountersOK, Counter
  <2>3. UnderWay(O, "add")' \in Int /\ UnderWay(O, "delete")' \in Int
    <3>1. MetricsTypeOK'
      BY WorkerKeepsType
    <3>2. /\ HowMany(queue', O, "add") \in Nat /\ HowMany(queue', O, "delete") \in Nat
          /\ Handled(O, "add")' \in Nat /\ Handled(O, "delete")' \in Nat
      BY <3>1, PlacesFinite DEF MetricsTypeOK, DispatcherOK, Handled, One
    <3>3. \A t : HowMany(queue, O, t)' = HowMany(queue', O, t)
      BY DEF HowMany, Places
    <3>4. Delayed(O, "add")' \in Nat /\ Delayed(O, "delete")' \in Nat
      BY <3>1, FS_Subset, FS_CardinalityType DEF Delayed, MetricsTypeOK, DispatcherOK
    <3>5. QED
      BY <1>3, <1>4, <3>2, <3>3, <3>4 DEF Waiting
  <2> HIDE DEF O
  <2>4. QED
    BY <1>1, <1>2, <1>3, <2>1, <2>2, <2>3 DEF BalanceKept, O
<1>6. CASE Get
  <2>1. \A t : Waiting(O, t)' = Waiting(O, t)
    BY <1>6, GetWaiting
  <2>2. delayed' = delayed /\ counters' = counters
    BY <1>6 DEF Get
  <2>3. \A t : Delayed(O, t)' = Delayed(O, t)
    BY <2>2 DEF Delayed
  <2>4. \A t : UnderWay(O, t)' = UnderWay(O, t)
    BY <1>4, <2>1, <2>3 DEF UnderWay
  <2> HIDE DEF O
  <2>5. QED
    BY <1>3, <2>2, <2>4
<1>7. CASE FetchObj
  <2>1. pc = "fetch" /\ counters' = counters
    BY <1>7, FetchObjCases
  <2>2. CASE Found(current[1])
    <3>1. UNCHANGED <<queue, again, delayed, current>>
      BY <1>7, <2>2, FetchObjCases
    <3>2. \A t : Waiting(O, t)' = Waiting(O, t) /\ Delayed(O, t)' = Delayed(O, t)
      BY <3>1, QueueAside
    <3>3. \A t : UnderWay(O, t)' = UnderWay(O, t)
      BY <1>4, <3>2 DEF UnderWay
    <3> HIDE DEF O
    <3>4. QED
      BY <1>3, <2>1, <3>3
  <2>3. CASE ~Found(current[1])
    <3> DEFINE retry == RetryAllowed(current)
    <3>1. Done(retry) /\ lost' = IF retry THEN lost ELSE lost \cup {current[1]}
      BY <1>7, <2>3, FetchObjCases
    <3>2. retry \in BOOLEAN /\ current \in Dispatchable
      BY <2>1 DEF RetryAllowed, MetricsTypeOK, DispatcherOK
    <3>3. \A t : Waiting(O, t)' \in Nat /\ Waiting(O, t)' + One(current, O, t) = Waiting(O, t)
      BY <2>1, <3>1, <3>2, DoneWaiting
    <3>4. \A t : One(current, O, t) \in Nat
      BY DEF One
    <3>5. CASE ~retry
      <4>1. current[1] \notin O /\ delayed' = delayed
        BY <1>5, <3>1, <3>5 DEF Done
      <4>2. \A t : One(current, O, t) = 0 /\ Delayed(O, t)' = Delayed(O, t)
        BY <4>1 DEF One, Delayed
      <4> HIDE DEF O
      <4>3. ASSUME NEW t
            PROVE  UnderWay(O, t)' = UnderWay(O, t)
        BY <1>3, <1>4, <3>3, <4>2 DEF UnderWay
      <4>4. QED
        BY <1>3, <2>1, <4>3
    <3>6. CASE retry
      <4>1. delayed' = delayed \cup {current} /\ lost' = lost
        BY <3>1, <3>6 DEF Done
      <4>2. CASE current \notin delayed
        <5>1. \A t : Delayed(O, t)' = Delayed(O, t) + One(current, O, t)
          BY <3>2, <4>1, <4>2, DelayedMore
        <5> HIDE DEF O
        <5>2. ASSUME NEW t
              PROVE  UnderWay(O, t)' = UnderWay(O, t)
          BY <1>3, <1>4, <3>3, <3>4, <5>1 DEF UnderWay
        <5>3. QED
          BY <1>3, <2>1, <5>2
      <4>3. CASE current \in delayed
        <5> DEFINE o == current[1]
        <5>1. o \in Objects /\ current[2] \in Types /\ current = <<o, current[2]>>
          BY <3>2 DEF Dispatchable
        <5>2. current[2] # "delete"
          BY <2>3, <5>1 DEF DeletionsOK, Dispatching, Found
        <5>3. current[2] = "add" => o \in lost
          BY <2>3, <4>3, <5>1 DEF DeletionsOK, OneAdd, Known, Found
        <5>4. One(current, O, "add") = 0 /\ One(current, O, "delete") = 0
          BY <1>5, <4>1, <5>2, <5>3 DEF One
        <5>5. delayed' = delayed
          BY <4>1, <4>3
        <5>6. \A t : Delayed(O, t)' = Delayed(O, t)
          BY <5>5 DEF Delayed
        <5> HIDE DEF O
        <5>7. ASSUME NEW t, One(current, O, t) = 0
              PROVE  UnderWay(O, t)' = UnderWay(O, t)
          BY <1>3, <1>4, <3>3, <5>6, <5>7 DEF UnderWay
        <5>8. UnderWay(O, "add")' = UnderWay(O, "add") /\ UnderWay(O, "delete")' = UnderWay(O, "delete")
          BY <5>4, <5>7
        <5>9. QED
          BY <1>3, <2>1, <5>8
      <4>4. QED
        BY <4>2, <4>3
    <3>7. QED
      BY <3>2, <3>5, <3>6
  <2>4. QED
    BY <2>2, <2>3
<1>8. CASE Dispatch
  <2>1. /\ pc = "handle" /\ Done(FALSE) /\ delayed' = delayed
        /\ counters' = Counting(current[1], current[2], fetched)
    BY <1>8 DEF Dispatch, Done
  <2>2. current[1] \in Objects /\ current[2] \in Types /\ current = <<current[1], current[2]>>
    BY <2>1 DEF MetricsTypeOK, DispatcherOK, Dispatchable
  <2>3. counters'[m].running + One(current, O, "delete") = counters[m].running + One(current, O, "add")
    <3> DEFINE o == current[1]
               type == current[2]
    <3>1. Counting(o, type, fetched)[m].running + One(<<o, type>>, O, "delete")
            = counters[m].running + One(<<o, type>>, O, "add")
      BY <2>2, RunningFollows
    <3>2. QED
      BY <2>1, <2>2, <3>1
  <2>4. \A t : Waiting(O, t)' \in Nat /\ Waiting(O, t)' + One(current, O, t) = Waiting(O, t)
    BY <2>1, DoneWaiting
  <2>5. \A t : Delayed(O, t)' = Delayed(O, t) /\ One(current, O, t) \in Nat
    BY <2>1 DEF Delayed, One
  <2>6. \A t : UnderWay(O, t)' + One(current, O, t) = UnderWay(O, t) /\ UnderWay(O, t)' \in Nat
    BY <1>3, <1>4, <2>4, <2>5 DEF UnderWay
  <2>7. counters'[m].running \in Int
    BY WorkerKeepsType DEF MetricsTypeOK, CountersOK, Counter
  <2> HIDE DEF O
  <2>8. QED
    BY <1>3, <2>3, <2>5, <2>6, <2>7
<1>9. CASE Panic
  <2>1. UNCHANGED <<queue, again, delayed, current, counters>>
    BY <1>9 DEF Panic, queueVars
  <2>2. \A t : Waiting(O, t)' = Waiting(O, t) /\ Delayed(O, t)' = Delayed(O, t)
    BY <2>1, QueueAside
  <2>3. \A t : UnderWay(O, t)' = UnderWay(O, t)
    BY <1>4, <2>2 DEF UnderWay
  <2> HIDE DEF O
  <2>4. QED
    BY <1>3, <2>1, <2>3
<1>10. QED
  BY <1>6, <1>7, <1>8, <1>9 DEF Worker

LEMMA RequeuedBalance ==
  ASSUME MetricsTypeOK, NoCopies, Requeued, NEW m \in Metrics
  PROVE  BalanceKept(m)
<1> DEFINE O == ObjectsOf(m)
<1>1. PICK e \in Dispatchable : Requeue(e)
  BY DEF Requeued, Dispatchable
<1>2. /\ Enters(e) /\ pc # "panicked" /\ e \in delayed /\ delayed' = delayed \ {e}
      /\ UNCHANGED <<objects, synced, notifications, pc, current, counters>>
      /\ lost' = IF Queued(e) /\ e[2] # "update" THEN lost \cup {e[1]} ELSE lost
  BY <1>1 DEF Requeue, Enters, informerVars, workerVars
<1>3. Present(O)' = Present(O)
  BY <1>2, PresentKept
<1>4. /\ Cardinality(Present(O)) \in Nat
      /\ counters[m].running \in Int
      /\ \A t : /\ Notified(notifications, O, t) \in Nat
                /\ Waiting(O, t) \in Nat /\ Delayed(O, t) \in Nat
                /\ One(e, O, t) \in Nat
  BY TermsAreNaturals DEF MetricsTypeOK, CountersOK, Counter, One
<1>5. \A t : Delayed(O, t)' + One(e, O, t) = Delayed(O, t)
  BY <1>2, DelayedLess
<1>6. \A t : Waiting(O, t)' = Waiting(O, t) + (IF Queued(e) THEN 0 ELSE One(e, O, t))
  BY <1>2, EntersWaiting
<1>7. \A t : UnderWay(O, t)' = Notified(notifications, O, t) + Waiting(O, t)' + Delayed(O, t)'
  BY <1>2, UnderWayThen
<1>8. lost' \cap O = {} /\ Queued(e) => One(e, O, "add") = 0 /\ One(e, O, "delete") = 0
  BY <1>2 DEF One
<1>9. \A t : Delayed(O, t)' \in Nat
  <2>1. delayed' \subseteq delayed /\ IsFiniteSet(delayed)
    BY <1>2 DEF MetricsTypeOK, DispatcherOK
  <2>2. IsFiniteSet(delayed')
    BY <2>1, FS_Subset
  <2>3. QED
    BY <2>2, FS_Subset, FS_CardinalityType DEF Delayed
<1>10. \A t : (Queued(e) => One(e, O, t) = 0) => UnderWay(O, t)' = UnderWay(O, t)
  BY <1>4, <1>5, <1>6, <1>7, <1>9 DEF UnderWay
<1>11. UnderWay(O, "add") \in Nat /\ UnderWay(O, "delete") \in Nat
  BY <1>4 DEF UnderWay
<1> HIDE DEF O
<1>12. lost' \cap O = {} =>
         UnderWay(O, "add")' = UnderWay(O, "add") /\ UnderWay(O, "delete")' = UnderWay(O, "delete")
  BY <1>8, <1>10
<1>13. QED
  BY <1>2, <1>3, <1>4, <1>11, <1>12 DEF BalanceKept, O

\* The start of the process, the first and after a panic.
Fresh ==
  /\ synced = {} /\ notifications = [k \in Kinds |-> << >>]
  /\ queue = << >> /\ delayed = {} /\ current = NoEvent
  /\ counters = [m \in Metrics |-> [created |-> 0, deleted |-> 0, errors |-> 0, running |-> 0]]

LEMMA FreshBalance == Fresh => BalanceOK
<1> SUFFICES ASSUME Fresh, NEW m \in Metrics
             PROVE  Balance(m)
  BY DEF BalanceOK
<1> DEFINE O == ObjectsOf(m)
<1>1. counters[m].running = 0
  BY DEF Fresh
<1>2. \A t : Notified(notifications, O, t) = 0
  BY NotifiedNone DEF Fresh
<1>3. \A t : HowMany(queue, O, t) = 0
  BY HowManyNone DEF Fresh
<1>4. \A t : Handled(O, t) = 0
  BY DEF Handled, Fresh
<1>5. Cardinality({}) = 0
  BY FS_EmptySet
<1>6. \A t : Delayed(O, t) = 0
  <2>1. \A t : {e \in delayed : e[1] \in O /\ e[2] = t} = {}
    BY DEF Fresh
  <2>2. QED
    BY <1>5, <2>1 DEF Delayed
<1>7. Cardinality(Present(O)) = 0
  <2>1. Present(O) = {}
    BY DEF Fresh, Present
  <2>2. QED
    BY <1>5, <2>1
<1> HIDE DEF O
<1>8. QED
  BY <1>1, <1>2, <1>3, <1>4, <1>6, <1>7 DEF Balance, UnderWay, Waiting, O

LEMMA BalanceInit == Init => BalanceOK
BY FreshBalance DEF Init, Fresh

LEMMA BalanceStep == MetricsTypeOK /\ NoCopies /\ DeletionsOK /\ BalanceOK /\ [Next]_vars => BalanceOK'
<1> SUFFICES ASSUME MetricsTypeOK, NoCopies, DeletionsOK, BalanceOK, [Next]_vars
             PROVE  BalanceOK'
  OBVIOUS
<1>1. MetricsTypeOK'
  BY MetricsTypeStep
<1>2. CASE Restart
  <2>1. Fresh'
    BY <1>2 DEF Restart, Fresh
  <2>2. Fresh' => BalanceOK'
    BY FreshBalance, PTL
  <2>3. QED
    BY <2>1, <2>2
<1>3. CASE Cluster
  <2>1. lost \subseteq lost'
    BY <1>3 DEF Cluster, Appears, Updates, Disappears, Change
  <2>2. QED
    BY <1>1, <1>3, <2>1, ClusterBalance, BalanceFollows
<1>4. CASE Deliver
  <2>1. lost \subseteq lost'
    BY <1>4 DEF Deliver, OnAdd, OnUpdate, OnDelete, OnDeleteUnknown, AddAndCount
  <2>2. QED
    BY <1>1, <1>4, <2>1, DeliverBalance, BalanceFollows
<1>5. CASE Start
  <2>1. lost \subseteq lost'
    BY <1>5 DEF Start, WatcherStart, DispatcherStart
  <2>2. QED
    BY <1>1, <1>5, <2>1, StartBalance, BalanceFollows
<1>6. CASE Worker
  <2>1. lost \subseteq lost'
    BY <1>6 DEF Worker, Get, FetchObj, Dispatch, Panic
  <2>2. QED
    BY <1>1, <1>6, <2>1, WorkerBalance, BalanceFollows
<1>7. CASE Requeued
  <2>1. lost \subseteq lost'
    BY <1>7 DEF Requeued, Requeue
  <2>2. QED
    BY <1>1, <1>7, <2>1, RequeuedBalance, BalanceFollows
<1>8. CASE UNCHANGED vars
  <2>1. /\ UNCHANGED <<objects, synced, notifications, queue, again, delayed, current, counters, lost>>
    BY <1>8 DEF vars, informerVars, queueVars, workerVars
  <2>2. \A O, t : UnderWay(O, t)' = UnderWay(O, t)
    BY <2>1, UnderWayThen, QueueAside DEF UnderWay
  <2>3. \A O : Present(O)' = Present(O)
    BY <2>1, PresentKept
  <2>4. \A m \in Metrics : BalanceKept(m)
    BY <2>1, <2>2, <2>3 DEF BalanceKept
  <2>5. QED
    BY <1>1, <2>1, <2>4, BalanceFollows
<1>9. QED
  BY <1>2, <1>3, <1>4, <1>5, <1>6, <1>7, <1>8 DEF Next

\* When nothing is under way, what has been counted are the objects.
LEMMA QuietBalance == MetricsTypeOK /\ BalanceOK => GaugeFollowsCluster
<1> SUFFICES ASSUME MetricsTypeOK, BalanceOK, Quiet, NEW m \in Metrics,
                    \A o \in lost : Counted(o) => MetricOf(o) # m
             PROVE  counters[m].running
                      = Cardinality({o \in DOMAIN objects : Counted(o) /\ MetricOf(o) = m})
  BY DEF GaugeFollowsCluster
<1> DEFINE O == ObjectsOf(m)
<1>1. /\ pc = "idle" /\ queue = << >> /\ delayed = {} /\ current = NoEvent /\ synced = Kinds
      /\ \A k \in Kinds : notifications[k] = << >>
  BY DEF Quiet, MetricsTypeOK, DispatcherOK
<1>2. lost \cap O = {}
  BY DEF ObjectsOf
<1>3. \A t : Notified(notifications, O, t) = 0
  BY <1>1, NotifiedNone
<1>4. \A t : HowMany(queue, O, t) = 0 /\ Handled(O, t) = 0
  BY <1>1, HowManyNone DEF Handled
<1>5. \A t : Delayed(O, t) = 0
  <2>1. \A t : {e \in delayed : e[1] \in O /\ e[2] = t} = {}
    BY <1>1
  <2>2. QED
    BY <2>1, FS_EmptySet DEF Delayed
<1>6. Present(O) = {o \in DOMAIN objects : Counted(o) /\ MetricOf(o) = m}
  BY <1>1 DEF Present, ObjectsOf, Kinds, MetricsTypeOK, InformersOK
<1>7. counters[m].running \in Int /\ Cardinality(Present(O)) \in Nat
  BY TermsAreNaturals DEF MetricsTypeOK, CountersOK, Counter
<1>8. counters[m].running + UnderWay(O, "add")
        = Cardinality(Present(O)) + UnderWay(O, "delete") + Notified(notifications, O, "tombstone")
  BY <1>2 DEF BalanceOK, Balance
<1> HIDE DEF O
<1>9. QED
  BY <1>3, <1>4, <1>5, <1>6, <1>7, <1>8 DEF UnderWay, Waiting

\* Theorem: when everything has been dispatched the gauge of a metric is the
\* number of its objects in the cluster, whatever the order of notifications,
\* retries and deletions, through panics and restarts.
THEOREM GaugesFollowCluster == Spec => []GaugeFollowsCluster
<1> DEFINE Inv == MetricsTypeOK /\ NoCopies /\ DeletionsOK /\ BalanceOK
<1>1. Init => Inv
  <2>1. Init => NoCopies
    BY DEF Init, NoCopies, Range
  <2>2. QED
    BY <2>1, MetricsTypeInit, DeletionsInit, BalanceInit
<1>2. Inv /\ [Next]_vars => Inv'
  BY MetricsTypeStep, NoCopiesStep, DeletionsStep, BalanceStep
<1>3. Inv => GaugeFollowsCluster
  BY QuietBalance
<1>4. QED
  BY <1>1, <1>2, <1>3, PTL DEF Spec

----------------------------------------------------------------------------
(***************************************************************************)
(* The order of the events of a Kubernetes Event.                          *)
(***************************************************************************)
LEMMA NotifyKeepsOrder ==
  ASSUME MetricsTypeOK, OrderOK, NEW o \in Objects, NEW n \in Notification, n[1] = o, Notified1(o, n),
         UNCHANGED <<queue, delayed, current, again>>,
         DOMAIN objects \cup expired \cup {o} \subseteq DOMAIN objects' \cup expired',
         n[2] = "add" => o \notin DOMAIN objects \cup expired,
         NEW x \in Events,
         x \in DOMAIN objects' => x \in DOMAIN objects \/ (x = o /\ n[2] = "add")
  PROVE  AddedOnce(x)' /\ (x \in DOMAIN objects' => AddedFirst(x)')
<1> DEFINE told == ToldOf(x)
           later == ToldOf(x)'
<1>1. x \in Objects /\ AddedOnce(x) /\ (x \in DOMAIN objects => AddedFirst(x))
  BY DEF OrderOK, Events
<1>2. \A t \in Types : Dispatching(<<x, t>>)' = Dispatching(<<x, t>>)
  BY DEF Dispatching
<1>3. CASE later = told
  <2>1. AddedOnce(x)'
    BY <1>1, <1>2, <1>3 DEF AddedOnce, AddOf, Types
  <2>2. ASSUME x \in DOMAIN objects'
        PROVE  AddedFirst(x)'
    <3>1. CASE x \in DOMAIN objects
      BY <1>1, <1>2, <1>3, <3>1 DEF AddedFirst, AddOf, UpdateOf, Types
    <3>2. CASE x \notin DOMAIN objects
      <4>1. x \notin DOMAIN objects \cup expired
        BY <2>2, <3>2
      <4>2. /\ \A i \in DOMAIN told : told[i][1] # x
            /\ \A t \in Types : ~Dispatching(<<x, t>>)
        BY <1>1, <4>1 DEF AddedOnce
      <4>3. \A i \in DOMAIN queue : queue[i] # <<x, "add">>
        BY <4>2 DEF Dispatching, Range, Types
      <4>4. \A i \in DOMAIN queue : ~(queue[i][1] = x /\ queue[i][2] = "add")
        BY <4>3 DEF MetricsTypeOK, DispatcherOK, Dispatchable
      <4>5. QED
        BY <1>2, <1>3, <4>2, <4>3, <4>4 DEF AddedFirst, AddOf, UpdateOf, Dispatching, Types
    <3>3. QED
      BY <3>1, <3>2
  <2>3. QED
    BY <2>1, <2>2
<1>4. CASE later # told
  <2>1. KindOf[x] = KindOf[o] /\ KindOf[o] \in synced
    BY <1>1, <1>4, AppendTold DEF MetricsTypeOK
  <2>2. PICK L \in Nat : /\ DOMAIN told = 1 .. L /\ DOMAIN later = 1 .. L + 1
                         /\ \A i \in 1 .. L : later[i] = told[i]
                         /\ later[L + 1] = n
    <3>1. InformersOK
      BY DEF MetricsTypeOK
    <3>2. QED
      BY <1>1, <2>1, <3>1, AppendTold
  <2> HIDE DEF told, later
  <2>3. \A i \in DOMAIN later : i # L + 1 => i \in DOMAIN told /\ later[i] = told[i] /\ i < L + 1
    BY <2>2
  <2>4. x = o /\ n[2] = "add" => /\ \A i \in DOMAIN told : told[i][1] # x
                                 /\ \A t \in Types : ~Dispatching(<<x, t>>)
    BY <1>1 DEF AddedOnce, told
  <2>5. AddedOnce(x)'
    <3>1. x \notin DOMAIN objects' \cup expired' =>
            /\ \A i \in DOMAIN later : later[i][1] # x
            /\ \A t \in Types : ~Dispatching(<<x, t>>)'
      <4>1. SUFFICES ASSUME x \notin DOMAIN objects' \cup expired'
                     PROVE  /\ \A i \in DOMAIN later : later[i][1] # x
                            /\ \A t \in Types : ~Dispatching(<<x, t>>)'
        OBVIOUS
      <4>2. x \notin DOMAIN objects \cup expired /\ x # o
        BY <4>1
      <4>3. /\ \A i \in DOMAIN told : told[i][1] # x
            /\ \A t \in Types : ~Dispatching(<<x, t>>)
        BY <1>1, <4>2 DEF AddedOnce, told
      <4>4. QED
        BY <1>2, <2>2, <2>3, <4>2, <4>3
    <3>2. \A i, j \in DOMAIN later : AddOf(later, x, i) /\ AddOf(later, x, j) => i = j
      <4>1. \A i, j \in DOMAIN told : AddOf(told, x, i) /\ AddOf(told, x, j) => i = j
        BY <1>1 DEF AddedOnce, told
      <4>2. QED
        BY <2>2, <2>3, <2>4, <4>1 DEF AddOf
    <3>3. \A i \in DOMAIN later : AddOf(later, x, i) => ~Dispatching(<<x, "add">>)'
      <4>1. \A i \in DOMAIN told : AddOf(told, x, i) => ~Dispatching(<<x, "add">>)
        BY <1>1 DEF AddedOnce, told
      <4>2. QED
        BY <1>2, <2>2, <2>3, <2>4, <4>1 DEF AddOf, Types
    <3>4. QED
      BY <1>1, <3>1, <3>2, <3>3 DEF AddedOnce, AddOf, later
  <2>6. ASSUME x \in DOMAIN objects'
        PROVE  AddedFirst(x)'
    <3>1. CASE x \in DOMAIN objects /\ ~(x = o /\ n[2] = "add")
      <4>1. AddedFirst(x)
        BY <1>1, <3>1
      <4>2. \A i, j \in DOMAIN later : AddOf(later, x, i) /\ UpdateOf(later, x, j) => i < j
        <5>1. \A i, j \in DOMAIN told : AddOf(told, x, i) /\ UpdateOf(told, x, j) => i < j
          BY <4>1 DEF AddedFirst, told
        <5>2. ~AddOf(later, x, L + 1)
          BY <2>2, <3>1 DEF AddOf
        <5>3. QED
          BY <2>3, <5>1, <5>2 DEF AddOf, UpdateOf
      <4>3. \A i \in DOMAIN later : AddOf(later, x, i) => ~Dispatching(<<x, "update">>)'
        <5>1. \A i \in DOMAIN told : AddOf(told, x, i) => ~Dispatching(<<x, "update">>)
          BY <4>1 DEF AddedFirst, told
        <5>2. ~AddOf(later, x, L + 1)
          BY <2>2, <3>1 DEF AddOf
        <5>3. QED
          BY <1>2, <2>3, <5>1, <5>2 DEF AddOf, Types
      <4>4. QED
        BY <4>1, <4>2, <4>3 DEF AddedFirst, AddOf, UpdateOf, later
    <3>2. CASE x = o /\ n[2] = "add"
      <4>1. /\ \A i \in DOMAIN told : told[i][1] # x
            /\ \A t \in Types : ~Dispatching(<<x, t>>)
        BY <2>4, <3>2
      <4>2. \A i \in DOMAIN queue : queue[i] # <<x, "add">>
        BY <4>1 DEF Dispatching, Range, Types
      <4>3. \A i \in DOMAIN queue : ~(queue[i][1] = x /\ queue[i][2] = "add")
        BY <4>2 DEF MetricsTypeOK, DispatcherOK, Dispatchable
      <4>4. \A j \in DOMAIN later : ~UpdateOf(later, x, j)
        BY <2>2, <2>3, <3>2, <4>1 DEF UpdateOf
      <4>5. QED
        BY <1>2, <4>1, <4>2, <4>3, <4>4 DEF AddedFirst, AddOf, UpdateOf, Dispatching, Types, later
    <3>3. QED
      BY <2>6, <3>1, <3>2
  <2>7. QED
    BY <2>5, <2>6
<1>5. QED
  BY <1>3, <1>4

\* One notification is delivered: its event enters the queue, unless it is a
\* tombstone.
LEMMA HandlerKeepsOrder ==
  ASSUME MetricsTypeOK, OrderOK, NEW kind \in Kinds, NEW type, Handler(kind, type),
         UNCHANGED delayed,
         \/ type \in Types /\ Enters(<<Head(notifications[kind])[1], type>>)
         \/ UNCHANGED <<queue, again>>,
         NEW x \in Events
  PROVE  AddedOnce(x)' /\ (x \in DOMAIN objects' => AddedFirst(x)')
<1> DEFINE n == Head(notifications[kind])
           told == ToldOf(x)
           later == ToldOf(x)'
           add == <<x, "add">>
           update == <<x, "update">>
<1>1. x \in Objects /\ AddedOnce(x) /\ (x \in DOMAIN objects => AddedFirst(x))
  BY DEF OrderOK, Events
<1>2. n[1] \in Objects /\ KindOf[n[1]] = kind /\ n[2] = type
  BY HandlerEffect
<1>3. UNCHANGED <<pc, current, objects, expired>> /\ pc # "panicked"
  BY DEF Handler, workerVars
<1>4. \A t \in Types : <<x, t>> \in Dispatchable
  BY <1>1 DEF Dispatchable
\* What can be dispatched now.
<1>5. /\ Range(queue') \subseteq Range(queue) \cup {<<n[1], type>>}
      /\ \A t \in Types : Dispatching(<<x, t>>)' => Dispatching(<<x, t>>) \/ (n[1] = x /\ n[2] = t)
      /\ queue' = queue \/ queue' = Append(queue, <<n[1], type>>)
      /\ add = current /\ again' => again \/ (n[1] = x /\ n[2] = "add")
  <2>1. CASE UNCHANGED <<queue, again>>
    BY <1>3, <2>1 DEF Dispatching
  <2>2. CASE type \in Types /\ Enters(<<n[1], type>>)
    <3>1. <<n[1], type>> \in Dispatchable
      BY <1>2, <2>2 DEF Dispatchable
    <3>2. /\ Range(queue') \subseteq Range(queue) \cup {<<n[1], type>>}
          /\ <<n[1], type>> # current => again' = again
      BY <1>3, <2>2, <3>1, EntersEffect DEF MetricsTypeOK
    <3>3. queue' = queue \/ queue' = Append(queue, <<n[1], type>>)
      BY <2>2 DEF Enters
    <3> HIDE DEF n
    <3>4. \A t \in Types : Dispatching(<<x, t>>)' => Dispatching(<<x, t>>) \/ <<x, t>> = <<n[1], type>>
      BY <1>3, <3>2 DEF Dispatching
    <3>5. QED
      BY <1>2, <3>2, <3>3, <3>4
  <2>3. QED
    BY <2>1, <2>2
\* What is still told.
<1>6. /\ \A i \in DOMAIN later : \E l \in DOMAIN told : later[i] = told[l]
      /\ \A i, j \in DOMAIN later : \E k, l \in DOMAIN told :
           later[i] = told[k] /\ later[j] = told[l] /\ (k = l <=> i = j) /\ (k < l <=> i < j)
      /\ n[1] = x => /\ 1 \in DOMAIN told /\ told[1] = n
                     /\ \A i \in DOMAIN later : \E l \in DOMAIN told : l > 1 /\ later[i] = told[l]
  <2>1. CASE KindOf[x] # kind
    <3>1. later = told
      BY <1>1, <2>1, TailTold
    <3>2. QED
      BY <1>2, <2>1, <3>1
  <2>2. CASE KindOf[x] = kind
    <3>1. PICK L \in Nat : L >= 1 /\ DOMAIN told = 1 .. L /\ DOMAIN later = 1 .. L - 1
      BY <1>1, <2>2, TailTold
    <3>2. /\ \A i \in 1 .. L - 1 : later[i] = told[i + 1]
          /\ told[1] = n
      BY <1>1, <2>2, <3>1, TailTold
    <3> HIDE DEF told, later, n
    <3>3. \A i \in 1 .. L - 1 : i + 1 \in DOMAIN told /\ i + 1 > 1 /\ later[i] = told[i + 1]
      BY <3>1, <3>2
    <3>4. \A i, j \in DOMAIN later :
            /\ later[i] = told[i + 1] /\ later[j] = told[j + 1]
            /\ i + 1 \in DOMAIN told /\ j + 1 \in DOMAIN told
            /\ (i + 1 = j + 1 <=> i = j) /\ (i + 1 < j + 1 <=> i < j)
      BY <3>1, <3>3
    <3>5. \A i, j \in DOMAIN later : \E k, l \in DOMAIN told :
            later[i] = told[k] /\ later[j] = told[l] /\ (k = l <=> i = j) /\ (k < l <=> i < j)
      BY <3>4
    <3>6. 1 \in DOMAIN told
      BY <3>1
    <3>7. QED
      BY <3>1, <3>2, <3>3, <3>5, <3>6
  <2>3. QED
    BY <2>1, <2>2
<1> HIDE DEF told, later, n
\* An add that is delivered was not dispatched, and its updates were not.
<1>7. n[1] = x /\ n[2] = "add" =>
        /\ ~Dispatching(add) /\ (x \in DOMAIN objects => ~Dispatching(update))
        /\ \A i \in DOMAIN later : ~AddOf(later, x, i)
  <2>1. SUFFICES ASSUME n[1] = x, n[2] = "add"
                 PROVE  /\ ~Dispatching(add) /\ (x \in DOMAIN objects => ~Dispatching(update))
                        /\ \A i \in DOMAIN later : ~AddOf(later, x, i)
    OBVIOUS
  <2>2. 1 \in DOMAIN told /\ AddOf(told, x, 1)
    BY <1>6, <2>1 DEF AddOf
  <2>3. ~Dispatching(add) /\ (x \in DOMAIN objects => ~Dispatching(update))
    BY <1>1, <2>2 DEF AddedOnce, AddedFirst, told
  <2>4. \A l \in DOMAIN told : AddOf(told, x, l) => l = 1
    BY <1>1, <2>2 DEF AddedOnce, told
  <2>5. \A l \in DOMAIN told : AddOf(told, x, l) => ~(l > 1)
    BY <2>4
  <2>6. QED
    BY <1>6, <2>1, <2>3, <2>5 DEF AddOf
<1>8. AddedOnce(x)'
  <2>1. x \notin DOMAIN objects \cup expired =>
          /\ \A i \in DOMAIN later : later[i][1] # x
          /\ \A t \in Types : ~Dispatching(<<x, t>>)'
    <3>1. x \notin DOMAIN objects \cup expired =>
            /\ \A i \in DOMAIN told : told[i][1] # x
            /\ \A t \in Types : ~Dispatching(<<x, t>>)
      BY <1>1 DEF AddedOnce, told
    <3>2. QED
      BY <1>5, <1>6, <3>1
  <2>2. \A i, j \in DOMAIN later : AddOf(later, x, i) /\ AddOf(later, x, j) => i = j
    <3>1. \A i, j \in DOMAIN told : AddOf(told, x, i) /\ AddOf(told, x, j) => i = j
      BY <1>1 DEF AddedOnce, told
    <3>2. QED
      BY <1>6, <3>1 DEF AddOf
  <2>3. \A i \in DOMAIN later : AddOf(later, x, i) => ~Dispatching(add)'
    <3>1. \A i \in DOMAIN told : AddOf(told, x, i) => ~Dispatching(add)
      BY <1>1 DEF AddedOnce, told
    <3>2. Dispatching(add)' => Dispatching(add) \/ (n[1] = x /\ n[2] = "add")
      BY <1>5 DEF Types
    <3>3. QED
      BY <1>6, <1>7, <3>1, <3>2 DEF AddOf
  <2>4. add \in delayed => add \notin Range(queue') \cup {current}
    <3>1. add \in Range(queue') => add \in Range(queue) \/ (n[1] = x /\ n[2] = "add")
      BY <1>2, <1>5
    <3>2. QED
      BY <1>1, <1>7, <3>1 DEF AddedOnce, Dispatching
  <2>5. current = add => ~again'
    BY <1>1, <1>5, <1>7 DEF AddedOnce, Dispatching
  <2>6. QED
    BY <1>3, <2>1, <2>2, <2>3, <2>4, <2>5 DEF AddedOnce, AddOf, later
<1>9. ASSUME x \in DOMAIN objects
      PROVE  AddedFirst(x)'
  <2>1. AddedFirst(x)
    BY <1>1, <1>9
  <2>2. \A i, j \in DOMAIN later : AddOf(later, x, i) /\ UpdateOf(later, x, j) => i < j
    <3>1. \A i, j \in DOMAIN told : AddOf(told, x, i) /\ UpdateOf(told, x, j) => i < j
      BY <2>1 DEF AddedFirst, told
    <3>2. QED
      BY <1>6, <3>1 DEF AddOf, UpdateOf
  <2>3. \A i \in DOMAIN later : AddOf(later, x, i) => ~Dispatching(update)'
    <3>1. /\ \A i \in DOMAIN told : AddOf(told, x, i) => ~Dispatching(update)
          /\ \A i, j \in DOMAIN told : AddOf(told, x, i) /\ UpdateOf(told, x, j) => i < j
      BY <2>1 DEF AddedFirst, told
    <3>2. Dispatching(update)' => Dispatching(update) \/ (n[1] = x /\ n[2] = "update")
      BY <1>5 DEF Types
    <3>3. ASSUME NEW i \in DOMAIN later, AddOf(later, x, i), n[1] = x, n[2] = "update"
          PROVE  FALSE
      <4>1. PICK l \in DOMAIN told : l > 1 /\ AddOf(told, x, l)
        BY <1>6, <3>3 DEF AddOf
      <4>2. 1 \in DOMAIN told /\ UpdateOf(told, x, 1)
        BY <1>6, <3>3 DEF UpdateOf
      <4>3. l < 1
        BY <3>1, <4>1, <4>2
      <4>4. l \in Nat
        <5>1. told \in Seq(Notification)
          BY <1>1 DEF told, ToldOf, MetricsTypeOK, InformersOK, Kinds
        <5>2. QED
          BY <5>1, <4>1
      <4>5. QED
        BY <4>1, <4>3, <4>4
    <3>4. QED
      BY <1>6, <3>1, <3>2, <3>3 DEF AddOf
  <2>4. \A i, j \in DOMAIN queue' : AddOf(queue', x, i) /\ UpdateOf(queue', x, j) => i < j
    <3>1. \A i, j \in DOMAIN queue : AddOf(queue, x, i) /\ UpdateOf(queue, x, j) => i < j
      BY <2>1 DEF AddedFirst
    <3>2. CASE queue' = queue
      BY <3>1, <3>2
    <3>3. CASE queue' = Append(queue, <<n[1], type>>) /\ queue' # queue
      <4>1. /\ DOMAIN queue = 1 .. Len(queue) /\ Len(queue) \in Nat
            /\ DOMAIN queue' = 1 .. Len(queue) + 1
            /\ \A i \in 1 .. Len(queue) : queue'[i] = queue[i]
            /\ queue'[Len(queue) + 1] = <<n[1], type>>
        <5>1. queue \in Seq(Dispatchable)
          BY DEF MetricsTypeOK, DispatcherOK
        <5>2. QED
          BY <3>3, <5>1
      <4>2. CASE n[1] = x /\ n[2] = "add"
        <5>1. \A j \in 1 .. Len(queue) : queue[j] # update
          BY <1>7, <1>9, <4>1, <4>2 DEF Dispatching, Range
        <5>2. \A j \in 1 .. Len(queue) : ~UpdateOf(queue, x, j)
          BY <4>1, <5>1 DEF UpdateOf, MetricsTypeOK, DispatcherOK, Dispatchable
        <5>3. \A j \in 1 .. Len(queue) + 1 : ~UpdateOf(queue', x, j)
          BY <1>2, <4>1, <4>2, <5>2 DEF UpdateOf
        <5>4. QED
          BY <4>1, <5>3
      <4>3. CASE ~(n[1] = x /\ n[2] = "add")
        <5>1. ~AddOf(queue', x, Len(queue) + 1)
          BY <1>2, <4>1, <4>3 DEF AddOf
        <5>2. QED
          BY <3>1, <4>1, <5>1 DEF AddOf, UpdateOf
      <4>4. QED
        BY <4>2, <4>3
    <3>4. QED
      BY <1>5, <3>2, <3>3
  <2>5. add \in Range(queue') => current # update
    <3>1. add \in Range(queue') => add \in Range(queue) \/ (n[1] = x /\ n[2] = "add")
      BY <1>2, <1>5
    <3>2. QED
      BY <1>7, <1>9, <2>1, <3>1 DEF AddedFirst, Dispatching
  <2>6. QED
    BY <1>3, <2>1, <2>2, <2>3, <2>4, <2>5 DEF AddedFirst, AddOf, UpdateOf, later
<1>10. QED
  BY <1>3, <1>8, <1>9

\* Nothing is told; what changes is who holds an event.
LEMMA QuietKeepsOrder ==
  ASSUME OrderOK, UNCHANGED <<notifications, expired>>, DOMAIN objects' = DOMAIN objects, NEW x \in Events,
         \A t \in Types : Dispatching(<<x, t>>)' => Dispatching(<<x, t>>),
         <<x, "add">> \in delayed' => <<x, "add">> \notin Range(queue') \cup {current'},
         current' = <<x, "add">> => ~again',
         x \in DOMAIN objects =>
           /\ \A t \in Types : <<x, t>> \notin delayed'
           /\ \A i, j \in DOMAIN queue' : AddOf(queue', x, i) /\ UpdateOf(queue', x, j) => i < j
           /\ <<x, "add">> \in Range(queue') => current' # <<x, "update">>
  PROVE  AddedOnce(x)' /\ (x \in DOMAIN objects' => AddedFirst(x)')
<1>1. AddedOnce(x) /\ (x \in DOMAIN objects => AddedFirst(x))
  BY DEF OrderOK
<1>2. ToldOf(x)' = ToldOf(x)
  BY DEF ToldOf
<1>3. AddedOnce(x)'
  BY <1>1, <1>2 DEF AddedOnce, AddOf, Types
<1>4. ASSUME x \in DOMAIN objects
      PROVE  AddedFirst(x)'
  BY <1>1, <1>2, <1>4 DEF AddedFirst, AddOf, UpdateOf, Types
<1>5. QED
  BY <1>3, <1>4

LEMMA DoneKeepsOrder ==
  ASSUME MetricsTypeOK, NoCopies, OrderOK, pc \in {"fetch", "handle"}, NEW retry \in BOOLEAN, Done(retry),
         retry => current[1] \notin DOMAIN objects,
         UNCHANGED <<objects, notifications, expired>>, NEW x \in Events
  PROVE  AddedOnce(x)' /\ (x \in DOMAIN objects' => AddedFirst(x)')
<1> DEFINE add == <<x, "add">>
           update == <<x, "update">>
<1>1. /\ current \in Dispatchable /\ current' = NoEvent /\ ~again'
      /\ queue' = IF again THEN Append(queue, current) ELSE queue
      /\ Range(queue') = Range(queue) \cup (IF again THEN {current} ELSE {})
      /\ delayed' = IF retry THEN delayed \cup {current} ELSE delayed
  BY DoneEffect DEF MetricsTypeOK
<1>2. /\ \A e \in Dispatchable : e # NoEvent
      /\ \A t \in Types : <<x, t>> \in Dispatchable
  BY ObjectsAssumption DEF Dispatchable, Events
<1>3. AddedOnce(x) /\ (x \in DOMAIN objects => AddedFirst(x))
  BY DEF OrderOK
<1>4. \A t \in Types : Dispatching(<<x, t>>)' => Dispatching(<<x, t>>)
  <2>1. \A e \in Dispatchable : Dispatching(e)' => Dispatching(e)
    BY <1>1, <1>2 DEF Dispatching
  <2>2. QED
    BY <1>2, <2>1
<1>5. add \in delayed' => add \notin Range(queue') \cup {current'}
  <2>1. /\ add \in Dispatchable /\ (current = add => ~again)
        /\ add \in delayed => add \notin Range(queue) \cup {current}
    BY <1>2, <1>3 DEF AddedOnce, Types
  <2>2. CASE current = add
    BY <1>1, <1>2, <2>1, <2>2 DEF NoCopies
  <2>3. CASE current # add
    BY <1>1, <1>2, <2>1, <2>3
  <2>4. QED
    BY <2>2, <2>3
<1>6. ASSUME x \in DOMAIN objects
      PROVE  /\ \A t \in Types : <<x, t>> \notin delayed'
             /\ \A i, j \in DOMAIN queue' : AddOf(queue', x, i) /\ UpdateOf(queue', x, j) => i < j
  <2>1. \A t \in Types : <<x, t>> \notin delayed'
    BY <1>1, <1>3, <1>6 DEF AddedFirst
  <2>2. \A i, j \in DOMAIN queue : AddOf(queue, x, i) /\ UpdateOf(queue, x, j) => i < j
    BY <1>3, <1>6 DEF AddedFirst
  <2>3. CASE ~again
    BY <1>1, <2>1, <2>2, <2>3
  <2>4. CASE again
    <3>1. /\ DOMAIN queue = 1 .. Len(queue) /\ Len(queue) \in Nat
          /\ DOMAIN queue' = 1 .. Len(queue) + 1
          /\ \A i \in 1 .. Len(queue) : queue'[i] = queue[i]
          /\ queue'[Len(queue) + 1] = current
      BY <1>1, <2>4, AppendElements DEF MetricsTypeOK, DispatcherOK
    <3>2. current # add
      BY <1>3, <2>4 DEF AddedOnce
    <3>3. ~AddOf(queue', x, Len(queue) + 1)
      BY <1>1, <3>1, <3>2 DEF AddOf, Dispatchable
    <3>4. \A i, j \in DOMAIN queue' : AddOf(queue', x, i) /\ UpdateOf(queue', x, j) => i < j
      BY <2>2, <3>1, <3>3 DEF AddOf, UpdateOf
    <3>5. QED
      BY <2>1, <3>4
  <2>5. QED
    BY <2>3, <2>4
<1>7. current' # add /\ current' # update
  BY <1>1, <1>2 DEF Types
<1>8. QED
  BY <1>4, <1>5, <1>6, <1>7, QuietKeepsOrder

LEMMA WorkerKeepsOrder ==
  ASSUME MetricsTypeOK, NoCopies, OrderOK, Worker, NEW x \in Events
  PROVE  AddedOnce(x)' /\ (x \in DOMAIN objects' => AddedFirst(x)')
<1> DEFINE add == <<x, "add">>
           update == <<x, "update">>
<1>1. AddedOnce(x) /\ (x \in DOMAIN objects => AddedFirst(x))
  BY DEF OrderOK
<1>2. ASSUME UNCHANGED <<objects, notifications, expired, queue, again, delayed, current>>
      PROVE  AddedOnce(x)' /\ (x \in DOMAIN objects' => AddedFirst(x)')
  <2>1. \A t \in Types : Dispatching(<<x, t>>)' => Dispatching(<<x, t>>)
    BY <1>2 DEF Dispatching
  <2>2. /\ add \in delayed => add \notin Range(queue) \cup {current}
        /\ current = add => ~again
    BY <1>1 DEF AddedOnce
  <2>3. x \in DOMAIN objects =>
          /\ \A t \in Types : <<x, t>> \notin delayed
          /\ \A i, j \in DOMAIN queue : AddOf(queue, x, i) /\ UpdateOf(queue, x, j) => i < j
          /\ add \in Range(queue) => current # update
    BY <1>1 DEF AddedFirst
  <2>4. QED
    BY <1>2, <2>1, <2>2, <2>3, QuietKeepsOrder
<1>3. CASE Get
  <2>1. /\ queue \in Seq(Dispatchable) /\ queue # << >> /\ ~again'
        /\ Range(queue) = Range(queue') \cup {current'} /\ queue' = Tail(queue) /\ current' = Head(queue)
        /\ UNCHANGED <<objects, notifications, expired, delayed>>
    BY <1>3, GetEffect DEF MetricsTypeOK
  <2>2. /\ current' = queue[1] /\ DOMAIN queue = 1 .. Len(queue) /\ Len(queue) \in Nat
        /\ Len(queue) >= 1 /\ DOMAIN queue' = 1 .. Len(queue) - 1
        /\ \A i \in 1 .. Len(queue) - 1 : queue'[i] = queue[i + 1]
    BY <2>1, TailElements
  <2>3. \A t \in Types : Dispatching(<<x, t>>)' => Dispatching(<<x, t>>)
    BY <2>1 DEF Dispatching
  <2>4. add \in delayed' => add \notin Range(queue') \cup {current'}
    BY <1>1, <2>1 DEF AddedOnce
  <2>5. ASSUME x \in DOMAIN objects
        PROVE  /\ \A t \in Types : <<x, t>> \notin delayed'
               /\ \A i, j \in DOMAIN queue' : AddOf(queue', x, i) /\ UpdateOf(queue', x, j) => i < j
               /\ add \in Range(queue') => current' # update
    <3>1. /\ \A t \in Types : <<x, t>> \notin delayed
          /\ \A i, j \in DOMAIN queue : AddOf(queue, x, i) /\ UpdateOf(queue, x, j) => i < j
      BY <1>1, <2>5 DEF AddedFirst
    <3>2. \A i \in DOMAIN queue' : i + 1 \in DOMAIN queue /\ queue'[i] = queue[i + 1] /\ ~(i + 1 < 1)
      BY <2>2
    <3>3. \A i, j \in DOMAIN queue' : AddOf(queue', x, i) /\ UpdateOf(queue', x, j) => i < j
      <4>1. SUFFICES ASSUME NEW i \in DOMAIN queue', NEW j \in DOMAIN queue',
                            AddOf(queue', x, i), UpdateOf(queue', x, j)
                     PROVE  i < j
        OBVIOUS
      <4>2. i + 1 < j + 1
        BY <3>1, <3>2, <4>1 DEF AddOf, UpdateOf
      <4>3. QED
        BY <2>2, <4>2
    <3>4. ASSUME add \in Range(queue'), current' = update
          PROVE  FALSE
      <4>1. PICK i \in DOMAIN queue' : queue'[i] = add
        BY <3>4 DEF Range
      <4>2. AddOf(queue, x, i + 1)
        BY <3>2, <4>1 DEF AddOf
      <4>3. 1 \in DOMAIN queue /\ UpdateOf(queue, x, 1)
        BY <2>2, <3>4 DEF UpdateOf
      <4>4. QED
        BY <3>1, <3>2, <4>2, <4>3
    <3>5. QED
      BY <2>1, <3>1, <3>3, <3>4
  <2>6. QED
    BY <2>1, <2>3, <2>4, <2>5, QuietKeepsOrder
<1>4. CASE FetchObj
  <2>1. CASE Found(current[1])
    BY <1>2, <1>4, <2>1, FetchObjCases
  <2>2. CASE ~Found(current[1])
    <3>1. /\ pc = "fetch" /\ Done(RetryAllowed(current)) /\ RetryAllowed(current) \in BOOLEAN
          /\ current[1] \notin DOMAIN objects /\ UNCHANGED <<objects, notifications, expired>>
      BY <1>4, <2>2, FetchObjCases DEF Found, RetryAllowed
    <3>2. QED
      BY <3>1, DoneKeepsOrder
  <2>3. QED
    BY <2>1, <2>2
<1>5. CASE Dispatch
  <2>1. pc = "handle" /\ Done(FALSE) /\ UNCHANGED <<objects, notifications, expired>>
    BY <1>5 DEF Dispatch, informerVars
  <2>2. QED
    BY <2>1, DoneKeepsOrder
<1>6. CASE Panic
  BY <1>2, <1>6 DEF Panic, informerVars, queueVars
<1>7. QED
  BY <1>3, <1>4, <1>5, <1>6 DEF Worker

LEMMA RequeuedKeepsOrder ==
  ASSUME MetricsTypeOK, OrderOK, Requeued, NEW x \in Events
  PROVE  AddedOnce(x)' /\ (x \in DOMAIN objects' => AddedFirst(x)')
<1> DEFINE add == <<x, "add">>
           update == <<x, "update">>
<1>1. PICK e \in Dispatchable : Requeue(e)
  BY DEF Requeued, Dispatchable
<1>2. /\ Enters(e) /\ pc # "panicked" /\ e \in delayed /\ delayed' = delayed \ {e}
      /\ UNCHANGED <<objects, notifications, expired, pc, current>>
  BY <1>1 DEF Requeue, Enters, informerVars, workerVars
<1>3. /\ e # current => again' = again
      /\ Range(queue') \subseteq Range(queue) \cup {e}
  BY <1>2, EntersEffect DEF MetricsTypeOK
<1>4. AddedOnce(x) /\ (x \in DOMAIN objects => AddedFirst(x))
  BY DEF OrderOK
<1>5. \A t \in Types : Dispatching(<<x, t>>)' => Dispatching(<<x, t>>)
  BY <1>2, <1>3 DEF Dispatching
<1>6. /\ add \in delayed => add \notin Range(queue) \cup {current}
      /\ current = add => ~again
  BY <1>4 DEF AddedOnce
<1>7. add \in delayed' => add \notin Range(queue') \cup {current'}
  BY <1>2, <1>3, <1>6
<1>8. current' = add => ~again'
  BY <1>2, <1>3, <1>6
<1>9. ASSUME x \in DOMAIN objects
      PROVE  /\ \A t \in Types : <<x, t>> \notin delayed'
             /\ \A i, j \in DOMAIN queue' : AddOf(queue', x, i) /\ UpdateOf(queue', x, j) => i < j
             /\ add \in Range(queue') => current' # update
  <2>1. /\ \A t \in Types : <<x, t>> \notin delayed
        /\ \A i, j \in DOMAIN queue : AddOf(queue, x, i) /\ UpdateOf(queue, x, j) => i < j
        /\ add \in Range(queue) => current # update
    BY <1>4, <1>9 DEF AddedFirst
  <2>2. e[1] # x /\ e # add
    BY <1>2, <2>1 DEF Dispatchable
  <2>3. \A i, j \in DOMAIN queue' : AddOf(queue', x, i) /\ UpdateOf(queue', x, j) => i < j
    <3>1. CASE queue' = queue
      BY <2>1, <3>1
    <3>2. CASE queue' = Append(queue, e)
      <4>1. /\ DOMAIN queue = 1 .. Len(queue) /\ Len(queue) \in Nat
            /\ DOMAIN queue' = 1 .. Len(queue) + 1
            /\ \A i \in 1 .. Len(queue) : queue'[i] = queue[i]
            /\ queue'[Len(queue) + 1] = e
        BY <3>2, AppendElements DEF MetricsTypeOK, DispatcherOK
      <4>2. QED
        BY <2>1, <2>2, <4>1 DEF AddOf, UpdateOf
    <3>3. QED
      BY <1>2, <3>1, <3>2 DEF Enters
  <2>4. QED
    BY <1>2, <1>3, <2>1, <2>2, <2>3
<1>10. QED
  BY <1>2, <1>5, <1>7, <1>8, <1>9, QuietKeepsOrder

LEMMA StartKeepsOrder ==
  ASSUME MetricsTypeOK, OrderOK, Start, NEW x \in Events
  PROVE  AddedOnce(x)' /\ (x \in DOMAIN objects' => AddedFirst(x)')
<1>1. UNCHANGED <<objects, queue, again, delayed, current, expired>>
  BY DEF Start, DispatcherStart, WatcherStart, informerVars, queueVars, workerVars
<1>2. x \in Objects /\ AddedOnce(x) /\ (x \in DOMAIN objects => AddedFirst(x))
  BY DEF OrderOK, Events
<1>3. \A t \in Types : Dispatching(<<x, t>>)' = Dispatching(<<x, t>>)
  BY <1>1 DEF Dispatching
<1>4. CASE ToldOf(x)' = ToldOf(x)
  <2>1. AddedOnce(x)'
    BY <1>1, <1>2, <1>3, <1>4 DEF AddedOnce, AddOf, Types
  <2>2. x \in DOMAIN objects => AddedFirst(x)'
    BY <1>1, <1>2, <1>3, <1>4 DEF AddedFirst, AddOf, UpdateOf, Types
  <2>3. QED
    BY <1>1, <2>1, <2>2
<1>5. CASE DispatcherStart
  BY <1>4, <1>5 DEF DispatcherStart, informerVars, ToldOf
<1>6. ASSUME NEW kind \in Kinds, WatcherStart(kind)
      PROVE  AddedOnce(x)' /\ (x \in DOMAIN objects' => AddedFirst(x)')
  <2> DEFINE s == SetToSeq(AddsOf(kind))
             later == ToldOf(x)'
  <2>1. notifications' = [notifications EXCEPT ![kind] = s] /\ kind \notin synced
    BY <1>6 DEF WatcherStart, AddsOf
  <2>2. /\ \A i \in DOMAIN s : s[i] \in AddsOf(kind)
        /\ \A i, j \in DOMAIN s : s[i] = s[j] => i = j
    BY AddsFinite, SetToSeqCounts DEF MetricsTypeOK
  <2>3. \A i \in DOMAIN s : s[i][1] \in DOMAIN objects /\ s[i] = <<s[i][1], "add">>
    BY <2>2 DEF AddsOf
  <2> HIDE DEF s
  <2>4. later = IF KindOf[x] = kind THEN s ELSE ToldOf(x)
    BY <1>2, <2>1 DEF ToldOf, Kinds, MetricsTypeOK, InformersOK
  <2>5. KindOf[x] = kind => \A t \in Types : ~Dispatching(<<x, t>>)'
    BY <1>2, <1>3, <2>1 DEF Dispatching, Dispatchable, MetricsTypeOK, DispatcherOK
  <2>6. CASE KindOf[x] = kind
    <3>1. /\ \A i, j \in DOMAIN later : later[i][1] = x /\ later[j][1] = x => i = j
          /\ \A i \in DOMAIN later : later[i][1] = x => x \in DOMAIN objects /\ later[i][2] = "add"
      BY <2>2, <2>3, <2>4, <2>6
    <3> HIDE DEF later
    <3>2. \A t \in Types : ~Dispatching(<<x, t>>)'
      BY <2>5, <2>6
    <3>3. <<x, "add">> \notin delayed' /\ <<x, "add">> # current'
      BY <3>2 DEF Dispatching, Types
    <3>4. AddedOnce(x)'
      <4>1. x \notin DOMAIN objects' \cup expired' => \A i \in DOMAIN later : later[i][1] # x
        BY <1>1, <3>1
      <4>2. \A i, j \in DOMAIN later : AddOf(later, x, i) /\ AddOf(later, x, j) => i = j
        BY <3>1 DEF AddOf
      <4>3. QED
        BY <3>2, <3>3, <4>1, <4>2 DEF AddedOnce, later, Types
    <3>5. AddedFirst(x)'
      <4>1. \A t \in Types : <<x, t>> \notin delayed' \cup Range(queue')
        BY <3>2 DEF Dispatching
      <4>2. \A i, j \in DOMAIN later : ~UpdateOf(later, x, j)
        BY <3>1 DEF UpdateOf
      <4>3. \A i \in DOMAIN queue' : queue'[i] # <<x, "add">>
        BY <4>1 DEF Range, Types
      <4>4. \A i \in DOMAIN queue' : ~AddOf(queue', x, i)
        BY <1>1, <4>3 DEF AddOf, MetricsTypeOK, DispatcherOK, Dispatchable
      <4>5. QED
        BY <3>2, <4>1, <4>2, <4>4 DEF AddedFirst, later, Types
    <3>6. QED
      BY <3>4, <3>5
  <2>7. QED
    BY <1>4, <2>4, <2>6
<1>7. QED
  BY <1>5, <1>6 DEF Start

\* A Kubernetes Event that has gone does not come back: its name has expired.
LEMMA ClusterKeepsOrder ==
  ASSUME MetricsTypeOK, OrderOK, Cluster
  PROVE  OrderOK'
<1>1. PICK o \in Objects : Appears(o) \/ Updates(o) \/ \E tombstone \in BOOLEAN : Disappears(o, tombstone)
  BY DEF Cluster
<1>2. UNCHANGED <<queue, again, delayed, current>>
  BY <1>1 DEF Appears, Updates, Disappears, Change, queueVars, workerVars
<1>3. expired \subseteq Events /\ expired \cap DOMAIN objects = {} /\ IsFiniteSet(expired)
  BY DEF OrderOK
<1>4. CASE Appears(o)
  <2> DEFINE n == <<o, "add">>
  <2>1. n \in Notification /\ n[1] = o /\ Notified1(o, n) /\ DOMAIN objects' = DOMAIN objects \cup {o}
        /\ o \notin DOMAIN objects \cup expired /\ expired' = expired /\ n[2] = "add"
    BY <1>4 DEF Appears, Notify, Notified1, Notification
  <2> HIDE DEF n
  <2>2. \A x \in Events : AddedOnce(x)' /\ (x \in DOMAIN objects' => AddedFirst(x)')
    BY <1>2, <2>1, NotifyKeepsOrder
  <2>3. QED
    BY <1>3, <2>1, <2>2 DEF OrderOK
<1>5. CASE Updates(o)
  <2> DEFINE n == <<o, "update">>
  <2>1. n \in Notification /\ n[1] = o /\ n[2] # "add" /\ Notified1(o, n)
        /\ DOMAIN objects' = DOMAIN objects /\ o \in DOMAIN objects /\ expired' = expired
    BY <1>5 DEF Updates, Notify, Notified1, Notification, MetricsTypeOK, InformersOK
  <2> HIDE DEF n
  <2>2. \A x \in Events : AddedOnce(x)' /\ (x \in DOMAIN objects' => AddedFirst(x)')
    BY <1>2, <2>1, NotifyKeepsOrder
  <2>3. QED
    BY <1>3, <2>1, <2>2 DEF OrderOK
<1>6. ASSUME NEW tombstone \in BOOLEAN, Disappears(o, tombstone)
      PROVE  OrderOK'
  <2> DEFINE n == IF tombstone THEN <<o, "tombstone">> ELSE <<o, "delete", objects[o]>>
  <2>1. /\ objects[o] \in State /\ o \in DOMAIN objects /\ DOMAIN objects' = DOMAIN objects \ {o}
        /\ expired' = IF KindOf[o] = "Event" THEN expired \cup {o} ELSE expired
    BY <1>6 DEF Disappears, MetricsTypeOK, InformersOK
  <2>2. n \in Notification /\ n[1] = o /\ n[2] # "add"
    BY <2>1 DEF Notification
  <2>3. Notified1(o, n)
    BY <1>6 DEF Disappears, Notified1
  <2> HIDE DEF n
  <2>4. CASE KindOf[o] = "Event"
    <3>1. \A x \in Events : AddedOnce(x)' /\ (x \in DOMAIN objects' => AddedFirst(x)')
      BY <1>2, <2>1, <2>2, <2>3, <2>4, NotifyKeepsOrder
    <3>2. IsFiniteSet(expired')
      BY <1>3, <2>1, <2>4, FS_AddElement
    <3>3. QED
      BY <1>3, <2>1, <2>4, <3>1, <3>2 DEF OrderOK, Events
  <2>5. CASE KindOf[o] # "Event"
    <3>1. \A x \in Events : x # o /\ x \in Objects /\ KindOf[x] # KindOf[o]
      BY <2>5 DEF Events
    <3>2. ASSUME NEW x \in Events
          PROVE  AddedOnce(x)' /\ (x \in DOMAIN objects' => AddedFirst(x)')
      <4>1. ToldOf(x)' = ToldOf(x)
        BY <2>2, <2>3, <3>1, AppendTold DEF MetricsTypeOK
      <4>2. AddedOnce(x) /\ (x \in DOMAIN objects => AddedFirst(x))
        BY DEF OrderOK
      <4>3. x \in DOMAIN objects' <=> x \in DOMAIN objects
        BY <2>1, <3>1
      <4>4. \A t \in Types : Dispatching(<<x, t>>)' = Dispatching(<<x, t>>)
        BY <1>2 DEF Dispatching
      <4>5. AddedOnce(x)'
        BY <1>2, <2>1, <2>5, <4>1, <4>2, <4>3, <4>4 DEF AddedOnce, AddOf, Types
      <4>6. x \in DOMAIN objects => AddedFirst(x)'
        BY <1>2, <4>1, <4>2, <4>4 DEF AddedFirst, AddOf, UpdateOf, Types
      <4>7. QED
        BY <4>3, <4>5, <4>6
    <3>3. QED
      BY <1>3, <2>1, <2>5, <3>2 DEF OrderOK, Events
  <2>6. QED
    BY <2>4, <2>5
<1>7. QED
  BY <1>1, <1>4, <1>5, <1>6

LEMMA FreshOrder ==
  Fresh /\ expired \subseteq Events /\ expired \cap DOMAIN objects = {} /\ IsFiniteSet(expired) => OrderOK
<1> SUFFICES ASSUME Fresh, NEW x \in Events
             PROVE  AddedOnce(x) /\ AddedFirst(x)
  BY DEF OrderOK
<1>1. x \in Objects /\ DOMAIN ToldOf(x) = {}
  BY DEF Fresh, ToldOf, Events, Kinds
<1>2. \A t \in Types : ~Dispatching(<<x, t>>) /\ <<x, t>> # current
  BY <1>1, ObjectsAssumption DEF Dispatching, Range, Fresh
<1>3. DOMAIN queue = {} /\ delayed = {}
  BY DEF Fresh
<1>4. QED
  BY <1>1, <1>2, <1>3 DEF AddedOnce, AddedFirst, Range, Types

LEMMA OrderInit == Init => OrderOK
<1>1. IsFiniteSet({})
  BY FS_EmptySet
<1>2. QED
  BY <1>1, FreshOrder DEF Init, Fresh

LEMMA OrderStep == MetricsTypeOK /\ NoCopies /\ OrderOK /\ [Next]_vars => OrderOK'
<1> SUFFICES ASSUME MetricsTypeOK, NoCopies, OrderOK, [Next]_vars
             PROVE  OrderOK'
  OBVIOUS
<1>1. expired \subseteq Events /\ expired \cap DOMAIN objects = {} /\ IsFiniteSet(expired)
  BY DEF OrderOK
<1>2. CASE Restart
  <2>1. Fresh' /\ DOMAIN objects' = DOMAIN objects /\ expired' = expired
    BY <1>2 DEF Restart, Fresh
  <2>2. (Fresh /\ expired \subseteq Events /\ expired \cap DOMAIN objects = {} /\ IsFiniteSet(expired))'
          => OrderOK'
    BY FreshOrder, PTL
  <2>3. QED
    BY <1>1, <2>1, <2>2
<1>3. ASSUME DOMAIN objects' = DOMAIN objects, expired' = expired,
             \A x \in Events : AddedOnce(x)' /\ (x \in DOMAIN objects' => AddedFirst(x)')
      PROVE  OrderOK'
  BY <1>1, <1>3 DEF OrderOK
<1>4. CASE Deliver
  <2>1. PICK kind \in Kinds : OnAdd(kind) \/ OnUpdate(kind) \/ OnDelete(kind) \/ OnDeleteUnknown(kind)
    BY <1>4 DEF Deliver
  <2>2. PICK type : /\ Handler(kind, type) /\ UNCHANGED delayed
                    /\ \/ type \in Types /\ Enters(<<Head(notifications[kind])[1], type>>)
                       \/ UNCHANGED <<queue, again>>
    BY <2>1 DEF OnAdd, OnUpdate, OnDelete, OnDeleteUnknown, AddAndCount, Add, Enters, Types, queueVars
  <2>3. UNCHANGED <<objects, expired>>
    BY <2>2 DEF Handler
  <2>4. QED
    BY <1>3, <2>2, <2>3, HandlerKeepsOrder
<1>5. CASE Start
  BY <1>3, <1>5, StartKeepsOrder DEF Start, WatcherStart, DispatcherStart, informerVars
<1>6. CASE Worker
  <2>1. UNCHANGED <<objects, expired>>
    BY <1>6 DEF Worker, Get, FetchObj, Dispatch, Panic, informerVars
  <2>2. QED
    BY <1>3, <1>6, <2>1, WorkerKeepsOrder
<1>7. CASE Requeued
  <2>1. UNCHANGED <<objects, expired>>
    BY <1>7 DEF Requeued, Requeue, informerVars
  <2>2. QED
    BY <1>3, <1>7, <2>1, RequeuedKeepsOrder
<1>8. CASE UNCHANGED vars
  <2>1. UNCHANGED <<objects, notifications, queue, again, delayed, current, expired>>
    BY <1>8 DEF vars, informerVars, queueVars, workerVars
  <2>2. ASSUME NEW x \in Events
        PROVE  AddedOnce(x)' /\ (x \in DOMAIN objects' => AddedFirst(x)')
    <3>1. AddedOnce(x) /\ (x \in DOMAIN objects => AddedFirst(x))
      BY DEF OrderOK
    <3>2. ToldOf(x)' = ToldOf(x) /\ \A e : Dispatching(e)' = Dispatching(e)
      BY <2>1 DEF ToldOf, Dispatching
    <3>3. AddedOnce(x)'
      BY <2>1, <3>1, <3>2 DEF AddedOnce
    <3>4. x \in DOMAIN objects' => AddedFirst(x)'
      BY <2>1, <3>1, <3>2 DEF AddedFirst
    <3>5. QED
      BY <3>3, <3>4
  <2>3. QED
    BY <1>3, <2>1, <2>2
<1>9. QED
  BY <1>2, <1>4, <1>5, <1>6, <1>7, <1>8, ClusterKeepsOrder DEF Next

----------------------------------------------------------------------------
(***************************************************************************)
(* The warnings.                                                           *)
(***************************************************************************)
LEMMA WarningSetsFinite ==
  MetricsTypeOK /\ OrderOK => /\ IsFiniteSet(RecentAdds) /\ Cardinality(RecentAdds) \in Nat
                              /\ IsFiniteSet(OvertakenUpdates) /\ Cardinality(OvertakenUpdates) \in Nat
<1> SUFFICES ASSUME MetricsTypeOK, OrderOK
             PROVE  IsFiniteSet(RecentAdds) /\ IsFiniteSet(OvertakenUpdates)
  BY FS_CardinalityType
<1>1. RecentAdds \subseteq DOMAIN objects \cup expired
  <2>1. ASSUME NEW x \in Events, AddUnderWay(x), x \notin DOMAIN objects \cup expired
        PROVE  FALSE
    <3>1. /\ \A i \in DOMAIN ToldOf(x) : ToldOf(x)[i][1] # x
          /\ \A type \in Types : ~Dispatching(<<x, type>>)
      BY <2>1 DEF OrderOK, AddedOnce
    <3>2. QED
      BY <2>1, <3>1 DEF AddUnderWay, Types
  <2>2. QED
    BY <2>1 DEF RecentAdds
<1>2. IsFiniteSet(DOMAIN objects \cup expired)
  BY FS_Union DEF MetricsTypeOK, InformersOK, OrderOK
<1>3. IsFiniteSet(OvertakenUpdates)
  <2>1. OvertakenUpdates \subseteq {current[1]}
    BY DEF OvertakenUpdates, Overtaken
  <2>2. IsFiniteSet({current[1]})
    BY FS_Singleton
  <2>3. QED
    BY <2>1, <2>2, FS_Subset
<1>4. QED
  BY <1>1, <1>2, <1>3, FS_Subset

\* Nothing is raised and nothing is counted.
LEMMA NothingCounted ==
  ASSUME MetricsTypeOK, OrderOK, WarningsOK,
         \A x \in Events : (AddUnderWay(x)' => AddUnderWay(x)) /\ (Recent(x)' => Recent(x)),
         \A x \in Events : Overtaken(x)' => Overtaken(x),
         \A m \in Metrics : counters'[m].errors = counters[m].errors, warnings' = warnings
  PROVE  WarningsOK'
<1>1. RecentAdds' \subseteq RecentAdds
  BY DEF RecentAdds
<1>2. OvertakenUpdates' \subseteq OvertakenUpdates
  BY DEF OvertakenUpdates
<1>3. /\ IsFiniteSet(RecentAdds) /\ Cardinality(RecentAdds) \in Nat
      /\ IsFiniteSet(OvertakenUpdates) /\ Cardinality(OvertakenUpdates) \in Nat
  BY WarningSetsFinite
<1>4. /\ Cardinality(RecentAdds') <= Cardinality(RecentAdds) /\ Cardinality(RecentAdds') \in Nat
      /\ Cardinality(OvertakenUpdates') <= Cardinality(OvertakenUpdates)
      /\ Cardinality(OvertakenUpdates') \in Nat
  BY <1>1, <1>2, <1>3, FS_Subset, FS_CardinalityType
<1>5. \A m \in Metrics : counters[m].errors \in Nat /\ warnings \in Nat
  BY DEF MetricsTypeOK, CountersOK, Counter
<1>6. \A m \in Metrics :
        counters[m].errors + Cardinality(RecentAdds) + Cardinality(OvertakenUpdates) <= warnings
  BY DEF WarningsOK
<1>7. \A m \in Metrics :
        counters'[m].errors + Cardinality(RecentAdds') + Cardinality(OvertakenUpdates') <= warnings'
  BY <1>3, <1>4, <1>5, <1>6
<1>8. QED
  BY <1>7 DEF WarningsOK

\* What a change of the cluster does to an event of another object.
LEMMA ElsewhereKept ==
  ASSUME MetricsTypeOK, NEW o \in Objects, NEW n \in Notification, n[1] = o, Notified1(o, n),
         UNCHANGED <<synced, deleted, queue, delayed, pc, current, fetched>>,
         NEW x \in Events,
         x # o => /\ x \in DOMAIN objects' <=> x \in DOMAIN objects
                  /\ x \in DOMAIN objects => objects'[x] = objects[x]
  PROVE  /\ x # o => /\ AddUnderWay(x)' => AddUnderWay(x)
                     /\ Recent(x)' => Recent(x)
                     /\ Overtaken(x)' => Overtaken(x)
         /\ \A i \in DOMAIN ToldOf(x)' :
              ToldOf(x)'[i] = n \/ \E j \in DOMAIN ToldOf(x) : ToldOf(x)'[i] = ToldOf(x)[j]
<1>1. x \in Objects
  BY DEF Events
<1>2. \A i \in DOMAIN ToldOf(x)' :
        ToldOf(x)'[i] = n \/ \E j \in DOMAIN ToldOf(x) : ToldOf(x)'[i] = ToldOf(x)[j]
  <2>1. CASE ToldOf(x)' = ToldOf(x)
    BY <2>1
  <2>2. CASE ToldOf(x)' # ToldOf(x)
    <3>1. PICK L \in Nat : /\ DOMAIN ToldOf(x) = 1 .. L /\ DOMAIN ToldOf(x)' = 1 .. L + 1
                           /\ \A i \in 1 .. L : ToldOf(x)'[i] = ToldOf(x)[i]
                           /\ ToldOf(x)'[L + 1] = n
      BY <1>1, <2>2, AppendTold DEF MetricsTypeOK
    <3>2. \A i \in 1 .. L + 1 : i \in 1 .. L \/ i = L + 1
      BY <3>1
    <3>3. QED
      BY <3>1, <3>2
  <2>3. QED
    BY <2>1, <2>2
<1>3. \A t \in Types : Dispatching(<<x, t>>)' = Dispatching(<<x, t>>)
  BY DEF Dispatching
<1>4. ASSUME x # o
      PROVE  /\ AddUnderWay(x)' => AddUnderWay(x)
             /\ Recent(x)' => Recent(x)
             /\ Overtaken(x)' => Overtaken(x)
  <2>1. \A i \in DOMAIN ToldOf(x)' : ToldOf(x)'[i][1] = x =>
          \E j \in DOMAIN ToldOf(x) : ToldOf(x)'[i] = ToldOf(x)[j]
    BY <1>2, <1>4
  <2>2. AddUnderWay(x)' => AddUnderWay(x)
    BY <1>3, <1>4, <2>1 DEF AddUnderWay, Types
  <2>3. Recent(x)' => Recent(x)
    BY <1>4, <2>1 DEF Recent
  <2>4. Overtaken(x)' => Overtaken(x)
    BY <1>4 DEF Overtaken
  <2>5. QED
    BY <2>2, <2>3, <2>4
<1>5. QED
  BY <1>2, <1>4

\* The add of an Event that is under way excludes that its update is with the
\* worker: so a warning is owed to one of them only.
LEMMA AddOrUpdate ==
  ASSUME MetricsTypeOK, OrderOK, NEW o \in Events, o \in DOMAIN objects, AddUnderWay(o)
  PROVE  current # <<o, "update">>
<1>1. AddedFirst(o) /\ o \in Objects /\ KindOf[o] = "Event"
  BY DEF OrderOK, Events
<1>2. SUFFICES ASSUME current = <<o, "update">>
               PROVE  FALSE
  OBVIOUS
<1>3. Dispatching(<<o, "update">>) /\ <<o, "update">> \in Dispatchable
  BY <1>1, <1>2 DEF Dispatching, Dispatchable, Types
<1>4. "Event" \in synced
  BY <1>1, <1>2, <1>3 DEF MetricsTypeOK, DispatcherOK
<1>5. CASE \E i \in DOMAIN ToldOf(o) : ToldOf(o)[i][1] = o /\ ToldOf(o)[i][2] = "add"
  BY <1>1, <1>3, <1>5 DEF AddedFirst, AddOf
<1>6. CASE Dispatching(<<o, "add">>)
  BY <1>1, <1>2, <1>6 DEF AddedFirst, Dispatching, Types
<1>7. QED
  BY <1>4, <1>5, <1>6 DEF AddUnderWay

\* A warning is raised; what is owed grows by one event at most.
LEMMA WarningRaised ==
  ASSUME MetricsTypeOK, OrderOK, WarningsOK, NEW o \in Events,
         \/ RecentAdds' \subseteq RecentAdds /\ OvertakenUpdates' \subseteq OvertakenUpdates \cup {o}
         \/ RecentAdds' \subseteq RecentAdds \cup {o} /\ OvertakenUpdates' \subseteq OvertakenUpdates,
         counters' = counters, warnings' = warnings + 1
  PROVE  WarningsOK'
<1>1. /\ IsFiniteSet(RecentAdds) /\ Cardinality(RecentAdds) \in Nat
      /\ IsFiniteSet(OvertakenUpdates) /\ Cardinality(OvertakenUpdates) \in Nat
  BY WarningSetsFinite
<1>2. ASSUME NEW S, IsFiniteSet(S), NEW T, T \subseteq S
      PROVE  Cardinality(T) \in Nat /\ Cardinality(T) <= Cardinality(S)
  BY <1>2, FS_Subset, FS_CardinalityType
<1>3. ASSUME NEW S, IsFiniteSet(S), NEW T, T \subseteq S \cup {o}
      PROVE  Cardinality(T) \in Nat /\ Cardinality(T) <= Cardinality(S) + 1
  <2>1. IsFiniteSet(S \cup {o}) /\ Cardinality(S) \in Nat
        /\ Cardinality(S \cup {o}) = IF o \in S THEN Cardinality(S) ELSE Cardinality(S) + 1
    BY <1>3, FS_AddElement, FS_CardinalityType
  <2>2. Cardinality(T) \in Nat /\ Cardinality(T) <= Cardinality(S \cup {o})
    BY <1>2, <1>3, <2>1
  <2>3. QED
    BY <2>1, <2>2
<1>4. /\ Cardinality(RecentAdds') \in Nat /\ Cardinality(OvertakenUpdates') \in Nat
      /\ Cardinality(RecentAdds') + Cardinality(OvertakenUpdates')
           <= Cardinality(RecentAdds) + Cardinality(OvertakenUpdates) + 1
  <2>1. CASE RecentAdds' \subseteq RecentAdds /\ OvertakenUpdates' \subseteq OvertakenUpdates \cup {o}
    <3>1. /\ Cardinality(RecentAdds') \in Nat /\ Cardinality(RecentAdds') <= Cardinality(RecentAdds)
          /\ Cardinality(OvertakenUpdates') \in Nat
          /\ Cardinality(OvertakenUpdates') <= Cardinality(OvertakenUpdates) + 1
      BY <1>1, <1>2, <1>3, <2>1
    <3>2. QED
      BY <1>1, <3>1
  <2>2. CASE RecentAdds' \subseteq RecentAdds \cup {o} /\ OvertakenUpdates' \subseteq OvertakenUpdates
    <3>1. /\ Cardinality(RecentAdds') \in Nat /\ Cardinality(RecentAdds') <= Cardinality(RecentAdds) + 1
          /\ Cardinality(OvertakenUpdates') \in Nat
          /\ Cardinality(OvertakenUpdates') <= Cardinality(OvertakenUpdates)
      BY <1>1, <1>2, <1>3, <2>2
    <3>2. QED
      BY <1>1, <3>1
  <2>3. QED
    BY <2>1, <2>2
<1>5. \A m \in Metrics :
        /\ counters[m].errors \in Nat /\ warnings \in Nat
        /\ counters[m].errors + Cardinality(RecentAdds) + Cardinality(OvertakenUpdates) <= warnings
  BY DEF MetricsTypeOK, CountersOK, Counter, WarningsOK
<1>6. \A m \in Metrics :
        counters'[m].errors + Cardinality(RecentAdds') + Cardinality(OvertakenUpdates') <= warnings'
  BY <1>1, <1>4, <1>5
<1>7. QED
  BY <1>6 DEF WarningsOK

LEMMA ClusterKeepsWarnings ==
  ASSUME MetricsTypeOK, OrderOK, WarningsOK, Cluster
  PROVE  WarningsOK'
<1>1. PICK o \in Objects : Appears(o) \/ Updates(o) \/ \E tombstone \in BOOLEAN : Disappears(o, tombstone)
  BY DEF Cluster
<1>2. UNCHANGED <<synced, deleted, queue, delayed, pc, current, fetched, counters>>
  BY <1>1 DEF Appears, Updates, Disappears, Change, queueVars, workerVars
<1>3. PICK n \in Notification :
        /\ n[1] = o /\ Notified1(o, n)
        /\ Appears(o) => n[2] = "add"
        /\ Updates(o) => n[2] = "update"
        /\ (\E t \in BOOLEAN : Disappears(o, t)) => /\ n[2] \in {"tombstone", "delete"}
                                                    /\ n[2] = "delete" => n[3] = objects[o]
  <2>1. CASE Appears(o)
    <3>1. <<o, "add">> \in Notification /\ Notified1(o, <<o, "add">>)
      BY <2>1 DEF Appears, Notify, Notified1, Notification
    <3>2. ~Updates(o) /\ \A t \in BOOLEAN : ~Disappears(o, t)
      BY <2>1 DEF Appears, Updates, Disappears
    <3>3. QED
      BY <3>1, <3>2
  <2>2. CASE Updates(o)
    <3>1. <<o, "update">> \in Notification /\ Notified1(o, <<o, "update">>)
      BY <2>2 DEF Updates, Notify, Notified1, Notification
    <3>2. ~Appears(o)
      BY <2>2 DEF Appears, Updates
    <3>3. \A t \in BOOLEAN : ~Disappears(o, t)
      <4>1. o \in DOMAIN objects'
        BY <2>2 DEF Updates, MetricsTypeOK, InformersOK
      <4>2. \A t \in BOOLEAN : Disappears(o, t) => o \notin DOMAIN objects'
        BY DEF Disappears
      <4>3. QED
        BY <4>1, <4>2
    <3>4. QED
      BY <3>1, <3>2, <3>3
  <2>3. ASSUME NEW t \in BOOLEAN, Disappears(o, t)
        PROVE  \E n \in Notification :
                 /\ n[1] = o /\ Notified1(o, n)
                 /\ n[2] \in {"tombstone", "delete"} /\ (n[2] = "delete" => n[3] = objects[o])
    <3>1. o \in DOMAIN objects /\ objects[o] \in State
      BY <2>3 DEF Disappears, MetricsTypeOK, InformersOK
    <3>2. CASE t
      <4>1. <<o, "tombstone">> \in Notification /\ Notified1(o, <<o, "tombstone">>)
        BY <2>3, <3>2 DEF Disappears, Notified1, Notification
      <4>2. QED
        BY <4>1
    <3>3. CASE ~t
      <4>1. /\ <<o, "delete", objects[o]>> \in Notification
            /\ Notified1(o, <<o, "delete", objects[o]>>)
        BY <2>3, <3>1, <3>3 DEF Disappears, Notified1, Notification
      <4>2. QED
        BY <4>1
    <3>4. QED
      BY <3>2, <3>3
  <2>4. CASE ~Appears(o) /\ ~Updates(o)
    BY <1>1, <2>3, <2>4
  <2>5. QED
    BY <2>1, <2>2, <2>4
<1>4. \A x \in Events : x # o =>
        /\ AddUnderWay(x)' => AddUnderWay(x)
        /\ Recent(x)' => Recent(x)
        /\ Overtaken(x)' => Overtaken(x)
  <2>1. \A x \in Events : x # o => /\ x \in DOMAIN objects' <=> x \in DOMAIN objects
                                   /\ x \in DOMAIN objects => objects'[x] = objects[x]
    <3>1. CASE Appears(o)
      BY <3>1 DEF Appears
    <3>2. CASE Updates(o)
      <4>1. objects' = [objects EXCEPT ![o].recent = TRUE, ![o].count = @ + 1]
        BY <3>2 DEF Updates
      <4>2. objects = [x \in DOMAIN objects |-> objects[x]]
        BY DEF MetricsTypeOK, InformersOK
      <4>3. QED
        BY <4>1, <4>2
    <3>3. ASSUME NEW t \in BOOLEAN, Disappears(o, t)
          PROVE  \A x \in Events : x # o => /\ x \in DOMAIN objects' <=> x \in DOMAIN objects
                                            /\ x \in DOMAIN objects => objects'[x] = objects[x]
      BY <3>3 DEF Disappears
    <3>4. QED
      BY <1>1, <3>1, <3>2, <3>3
  <2>2. QED
    BY <1>2, <1>3, <2>1, ElsewhereKept
<1>5. o \in Events =>
        /\ \A i \in DOMAIN ToldOf(o)' :
             ToldOf(o)'[i] = n \/ \E j \in DOMAIN ToldOf(o) : ToldOf(o)'[i] = ToldOf(o)[j]
        /\ \A t \in Types : Dispatching(<<o, t>>)' = Dispatching(<<o, t>>)
        /\ o \in Objects /\ KindOf[o] = "Event"
  BY <1>2, <1>3, ElsewhereKept DEF Dispatching, Events
<1>6. CASE o \notin Events
  <2>1. warnings' = warnings
    BY <1>1, <1>6 DEF Appears, Updates, Disappears, Warn, Events
  <2>2. QED
    BY <1>2, <1>4, <1>6, <2>1, NothingCounted
<1>7. CASE o \in Events /\ Appears(o)
  <2>1. warnings' = warnings + 1 /\ o \notin DOMAIN objects \cup expired
    BY <1>7 DEF Appears, Warn, Events
  <2>2. ~Overtaken(o)'
    <3>1. ~Dispatching(<<o, "update">>)
      BY <1>7, <2>1 DEF OrderOK, AddedOnce, Types
    <3>2. QED
      BY <1>2, <3>1 DEF Overtaken, Dispatching
  <2>3. RecentAdds' \subseteq RecentAdds \cup {o} /\ OvertakenUpdates' \subseteq OvertakenUpdates
    BY <1>4, <2>2 DEF RecentAdds, OvertakenUpdates
  <2>4. QED
    BY <1>2, <1>7, <2>1, <2>3, WarningRaised
<1>8. CASE o \in Events /\ Updates(o)
  <2>1. /\ warnings' = warnings + 1 /\ o \in DOMAIN objects /\ n[2] = "update"
        /\ DOMAIN objects' = DOMAIN objects
    BY <1>3, <1>8 DEF Updates, Warn, Events
  <2>2. AddUnderWay(o)' => AddUnderWay(o)
    BY <1>2, <1>5, <1>8, <2>1 DEF AddUnderWay, Types
  <2>3. CASE AddUnderWay(o)
    <3>1. ~Overtaken(o)'
      BY <1>2, <1>8, <2>1, <2>3, AddOrUpdate DEF Overtaken
    <3>2. RecentAdds' \subseteq RecentAdds \cup {o} /\ OvertakenUpdates' \subseteq OvertakenUpdates
      BY <1>4, <3>1 DEF RecentAdds, OvertakenUpdates
    <3>3. QED
      BY <1>2, <1>8, <2>1, <3>2, WarningRaised
  <2>4. CASE ~AddUnderWay(o)
    <3>1. RecentAdds' \subseteq RecentAdds /\ OvertakenUpdates' \subseteq OvertakenUpdates \cup {o}
      BY <1>4, <2>2, <2>4 DEF RecentAdds, OvertakenUpdates
    <3>2. QED
      BY <1>2, <1>8, <2>1, <3>1, WarningRaised
  <2>5. QED
    BY <2>3, <2>4
<1>9. CASE o \in Events /\ \E t \in BOOLEAN : Disappears(o, t)
  <2>1. /\ warnings' = warnings /\ o \in DOMAIN objects /\ o \notin DOMAIN objects'
        /\ n[2] \in {"tombstone", "delete"} /\ (n[2] = "delete" => n[3] = objects[o])
    BY <1>3, <1>9 DEF Disappears
  <2>2. AddUnderWay(o)' => AddUnderWay(o)
    BY <1>2, <1>5, <1>9, <2>1 DEF AddUnderWay, Types
  <2>3. Recent(o)' => Recent(o)
    BY <1>2, <1>5, <1>9, <2>1 DEF Recent
  <2>4. Overtaken(o)' => Overtaken(o)
    BY <2>1 DEF Overtaken
  <2>5. QED
    BY <1>2, <1>4, <2>1, <2>2, <2>3, <2>4, NothingCounted
<1>10. QED
  BY <1>1, <1>6, <1>7, <1>8, <1>9

LEMMA DeliverKeepsWarnings ==
  ASSUME MetricsTypeOK, OrderOK, WarningsOK, Deliver
  PROVE  WarningsOK'
<1>1. PICK kind \in Kinds : OnAdd(kind) \/ OnUpdate(kind) \/ OnDelete(kind) \/ OnDeleteUnknown(kind)
  BY DEF Deliver
<1> DEFINE n == Head(notifications[kind])
<1>2. PICK type : /\ Handler(kind, type) /\ UNCHANGED delayed
                  /\ OnDelete(kind) => type = "delete"
                  /\ \/ type \in Types /\ Enters(<<n[1], type>>)
                     \/ UNCHANGED <<queue, again>>
  BY <1>1 DEF OnAdd, OnUpdate, OnDelete, OnDeleteUnknown, AddAndCount, Add, Enters, Types, queueVars
<1>3. /\ n[1] \in Objects /\ KindOf[n[1]] = kind /\ n[2] = type
      /\ n[2] = "delete" => n[3] \in State /\ n[3].kind = kind
  BY <1>2, HandlerEffect
<1>4. UNCHANGED <<pc, current, fetched, objects, synced, counters, warnings>> /\ pc # "panicked"
  BY <1>2 DEF Handler, workerVars
<1>5. Range(queue') \subseteq Range(queue) \cup {<<n[1], type>>}
  <2>1. CASE UNCHANGED <<queue, again>>
    BY <2>1
  <2>2. CASE type \in Types /\ Enters(<<n[1], type>>)
    <3>1. <<n[1], type>> \in Dispatchable
      BY <1>3, <2>2 DEF Dispatchable
    <3>2. QED
      BY <1>4, <2>2, <3>1, EntersEffect DEF MetricsTypeOK
  <2>3. QED
    BY <1>2, <2>1, <2>2
<1>6. ASSUME NEW x \in Events
      PROVE  (AddUnderWay(x)' => AddUnderWay(x)) /\ (Recent(x)' => Recent(x))
  <2>1. x \in Objects /\ KindOf[x] = "Event"
    BY DEF Events
  <2>2. /\ \A i \in DOMAIN ToldOf(x)' : \E l \in DOMAIN ToldOf(x) : ToldOf(x)'[i] = ToldOf(x)[l]
        /\ n[1] = x => 1 \in DOMAIN ToldOf(x) /\ ToldOf(x)[1] = n
    <3>1. CASE KindOf[x] # kind
      <4>1. ToldOf(x)' = ToldOf(x)
        BY <1>2, <2>1, <3>1, TailTold
      <4>2. QED
        BY <1>3, <3>1, <4>1
    <3>2. CASE KindOf[x] = kind
      <4>1. PICK L \in Nat : L >= 1 /\ DOMAIN ToldOf(x) = 1 .. L /\ DOMAIN ToldOf(x)' = 1 .. L - 1
        BY <1>2, <2>1, <3>2, TailTold
      <4>2. /\ \A i \in 1 .. L - 1 : ToldOf(x)'[i] = ToldOf(x)[i + 1]
            /\ ToldOf(x)[1] = n
        BY <1>2, <2>1, <3>2, <4>1, TailTold
      <4>3. /\ 1 \in 1 .. L /\ \A i \in 1 .. L - 1 : i + 1 \in 1 .. L
        BY <4>1
      <4> HIDE DEF n
      <4>4. QED
        BY <4>1, <4>2, <4>3
    <3>3. QED
      BY <3>1, <3>2
  <2> HIDE DEF n
  <2>3. AddUnderWay(x)' => AddUnderWay(x)
    <3>1. Dispatching(<<x, "add">>)' =>
            \/ Dispatching(<<x, "add">>)
            \/ \E i \in DOMAIN ToldOf(x) : ToldOf(x)[i][1] = x /\ ToldOf(x)[i][2] = "add"
      <4>1. Dispatching(<<x, "add">>)' => Dispatching(<<x, "add">>) \/ (n[1] = x /\ n[2] = "add")
        BY <1>2, <1>3, <1>4, <1>5 DEF Dispatching
      <4>2. QED
        BY <2>2, <4>1
    <3>2. QED
      BY <1>4, <2>2, <3>1 DEF AddUnderWay
  <2>4. Recent(x)' => Recent(x)
    <3>1. CASE deleted' = deleted
      BY <1>4, <2>2, <3>1 DEF Recent
    <3>2. CASE OnDelete(kind)
      <4>1. /\ deleted' = [k \in DOMAIN deleted \cup {KeyOf[n[1]]} |->
                             IF k = KeyOf[n[1]] THEN n[3] ELSE deleted[k]]
            /\ n[2] = "delete"
        BY <1>2, <1>3, <3>2 DEF OnDelete, n
      <4>2. ASSUME KeyOf[x] \in DOMAIN deleted', deleted'[KeyOf[x]].kind = "Event",
                   deleted'[KeyOf[x]].recent
            PROVE  Recent(x)
        <5>1. CASE KeyOf[x] = KeyOf[n[1]]
          <6>1. deleted'[KeyOf[x]] = n[3]
            BY <4>1, <5>1
          <6>2. n[1] = x
            BY <1>3, <2>1, <4>1, <4>2, <5>1, <6>1, ObjectsAssumption
          <6>3. QED
            BY <2>2, <4>1, <4>2, <6>1, <6>2 DEF Recent
        <5>2. CASE KeyOf[x] # KeyOf[n[1]]
          BY <4>1, <4>2, <5>2 DEF Recent
        <5>3. QED
          BY <5>1, <5>2
      <4>3. QED
        BY <1>4, <2>2, <4>2 DEF Recent
    <3>3. QED
      BY <1>1, <3>1, <3>2 DEF OnAdd, OnUpdate, OnDeleteUnknown
  <2>5. QED
    BY <2>3, <2>4
<1>7. \A x \in Events : Overtaken(x)' => Overtaken(x)
  BY <1>4 DEF Overtaken
<1>8. QED
  BY <1>4, <1>6, <1>7, NothingCounted

LEMMA StartKeepsWarnings ==
  ASSUME MetricsTypeOK, OrderOK, WarningsOK, Start
  PROVE  WarningsOK'
<1>1. /\ UNCHANGED <<objects, deleted, queue, delayed, current, fetched, counters, warnings>>
      /\ pc = "starting" /\ pc' \in {"starting", "idle"} /\ synced \subseteq synced'
  BY DEF Start, DispatcherStart, WatcherStart, informerVars, queueVars, workerVars
<1>2. ASSUME NEW x \in Events
      PROVE  \A i \in DOMAIN ToldOf(x)' :
               \/ \E j \in DOMAIN ToldOf(x) : ToldOf(x)'[i] = ToldOf(x)[j]
               \/ /\ ToldOf(x)'[i] = <<ToldOf(x)'[i][1], "add">> /\ ToldOf(x)'[i][1] \in DOMAIN objects
                  /\ "Event" \notin synced
  <2>1. x \in Objects /\ KindOf[x] = "Event" /\ "Event" \in Kinds
    BY DEF Events, Kinds
  <2>2. CASE DispatcherStart
    <3>1. ToldOf(x)' = ToldOf(x)
      BY <2>2 DEF DispatcherStart, informerVars, ToldOf
    <3>2. QED
      BY <3>1
  <2>3. ASSUME NEW kind \in Kinds, WatcherStart(kind)
        PROVE  \A i \in DOMAIN ToldOf(x)' :
                 \/ \E j \in DOMAIN ToldOf(x) : ToldOf(x)'[i] = ToldOf(x)[j]
                 \/ /\ ToldOf(x)'[i] = <<ToldOf(x)'[i][1], "add">> /\ ToldOf(x)'[i][1] \in DOMAIN objects
                    /\ "Event" \notin synced
    <3> DEFINE s == SetToSeq(AddsOf(kind))
    <3>1. notifications' = [notifications EXCEPT ![kind] = s] /\ kind \notin synced
      BY <2>3 DEF WatcherStart, AddsOf
    <3>2. \A i \in DOMAIN s : s[i] \in AddsOf(kind)
      BY AddsFinite, SetToSeqCounts DEF MetricsTypeOK
    <3>3. \A i \in DOMAIN s : s[i][1] \in DOMAIN objects /\ s[i] = <<s[i][1], "add">>
      BY <3>2 DEF AddsOf
    <3> HIDE DEF s
    <3>4. ToldOf(x)' = IF kind = "Event" THEN s ELSE ToldOf(x)
      BY <2>1, <3>1 DEF ToldOf, MetricsTypeOK, InformersOK
    <3>5. QED
      BY <3>1, <3>3, <3>4
  <2>4. QED
    BY <2>2, <2>3 DEF Start
<1>3. ASSUME NEW x \in Events
      PROVE  (AddUnderWay(x)' => AddUnderWay(x)) /\ (Recent(x)' => Recent(x))
  <2>1. Dispatching(<<x, "add">>)' => Dispatching(<<x, "add">>)
    BY <1>1 DEF Dispatching
  <2>2. AddUnderWay(x)' => AddUnderWay(x)
    BY <1>1, <1>2, <2>1 DEF AddUnderWay
  <2>3. Recent(x)' => Recent(x)
    <3>1. \A i \in DOMAIN ToldOf(x)' : ToldOf(x)'[i][2] = "delete" =>
            \E j \in DOMAIN ToldOf(x) : ToldOf(x)'[i] = ToldOf(x)[j]
      BY <1>2
    <3>2. QED
      BY <1>1, <3>1 DEF Recent
  <2>4. QED
    BY <2>2, <2>3
<1>4. \A x \in Events : Overtaken(x)' => Overtaken(x)
  BY <1>1 DEF Overtaken
<1>5. QED
  BY <1>1, <1>3, <1>4, NothingCounted

\* Events are only taken from the queue and put back.
LEMMA QuietKeepsWarnings ==
  ASSUME UNCHANGED <<objects, synced, notifications, deleted>>,
         \A e \in Dispatchable : Dispatching(e)' => Dispatching(e),
         NEW x \in Events
  PROVE  /\ AddUnderWay(x)' => AddUnderWay(x)
         /\ pc' # "handle" \/ UNCHANGED <<pc, current, fetched>> =>
              (Recent(x)' => Recent(x)) /\ (Overtaken(x)' => Overtaken(x))
<1>1. <<x, "add">> \in Dispatchable /\ ToldOf(x)' = ToldOf(x)
  BY DEF Dispatchable, Types, Events, ToldOf
<1>2. AddUnderWay(x)' => AddUnderWay(x)
  BY <1>1 DEF AddUnderWay
<1>3. pc' # "handle" => (Recent(x)' => Recent(x)) /\ (Overtaken(x)' => Overtaken(x))
  BY <1>1 DEF Recent, Overtaken
<1>4. UNCHANGED <<pc, current, fetched>> => (Recent(x)' => Recent(x)) /\ (Overtaken(x)' => Overtaken(x))
  BY <1>1 DEF Recent, Overtaken
<1>5. QED
  BY <1>2, <1>3, <1>4

\* A warning that is counted was owed: to an add that was under way, or to an
\* update that was overtaken.
LEMMA DispatchCountsOwed ==
  ASSUME MetricsTypeOK, NoCopies, OrderOK, Dispatch, NEW o \in Objects, NEW t \in Types,
         current = <<o, t>>, KindOf[o] = "Event", IsNews(o, t, fetched)
  PROVE  /\ o \in Events
         /\ \/ o \in RecentAdds /\ ~AddUnderWay(o)'
            \/ o \in OvertakenUpdates
<1>1. /\ pc = "handle" /\ ~WrongKind /\ ~NoOldObject /\ Done(FALSE)
      /\ UNCHANGED <<objects, synced, notifications, deleted>>
  BY DEF Dispatch, informerVars
<1>2. /\ current \in Dispatchable /\ current' = NoEvent /\ NoEvent \notin Dispatchable
      /\ queue' = IF again THEN Append(queue, current) ELSE queue
      /\ Range(queue') = Range(queue) \cup (IF again THEN {current} ELSE {})
      /\ delayed' = delayed
  BY <1>1, DoneEffect, ObjectsAssumption DEF MetricsTypeOK, Dispatchable
<1>3. current[1] = o /\ current[2] = t
  OBVIOUS
<1>4. /\ o \in Events /\ KindOf[o] = "Event" /\ fetched.kind = "Event" /\ t # "delete"
      /\ fetched.recent /\ o \notin Filtered /\ (t = "update" => objects[o].count # fetched.count)
  BY <1>1, <1>3 DEF IsNews, WrongKind, Events
<1>5. AddedOnce(o) /\ "Event" \in synced
  BY <1>2, <1>3, <1>4 DEF OrderOK, MetricsTypeOK, DispatcherOK
<1>6. CASE t = "add"
  <2>1. Dispatching(<<o, "add">>)
    BY <1>3, <1>6 DEF Dispatching
  <2>2. o \in RecentAdds
    BY <1>1, <1>3, <1>4, <1>6, <2>1 DEF RecentAdds, AddUnderWay, Recent
  <2>3. /\ \A i \in DOMAIN ToldOf(o) : ~(ToldOf(o)[i][1] = o /\ ToldOf(o)[i][2] = "add")
        /\ ~again /\ <<o, "add">> \notin delayed /\ <<o, "add">> \notin Range(queue)
    BY <1>3, <1>5, <1>6, <2>1 DEF AddedOnce, AddOf, NoCopies
  <2>4. ~Dispatching(<<o, "add">>)'
    BY <1>2, <1>3, <1>6, <2>3 DEF Dispatching
  <2>5. ToldOf(o)' = ToldOf(o)
    BY <1>1 DEF ToldOf
  <2>6. ~AddUnderWay(o)'
    BY <1>1, <1>5, <2>3, <2>4, <2>5 DEF AddUnderWay
  <2>7. QED
    BY <1>3, <1>4, <2>2, <2>6
<1>7. CASE t = "update"
  <2>1. o \in DOMAIN objects
    BY <1>1, <1>3, <1>4, <1>7 DEF NoOldObject
  <2>2. o \in OvertakenUpdates
    BY <1>1, <1>3, <1>4, <1>7, <2>1 DEF OvertakenUpdates, Overtaken
  <2>3. QED
    BY <1>3, <1>4, <2>2
<1>8. QED
  BY <1>4, <1>6, <1>7 DEF Types

\* Only a warning is counted as an error, and only once.
LEMMA ErrorsFollow ==
  ASSUME MetricsTypeOK, NEW m \in Metrics, NEW o \in Objects, NEW type \in Types, NEW object
  PROVE  /\ Counting(o, type, object)[m].errors \in {counters[m].errors, counters[m].errors + 1}
         /\ ~(KindOf[o] = "Event" /\ IsNews(o, type, object)) =>
              Counting(o, type, object)[m].errors = counters[m].errors
<1>1. counters \in [Metrics -> Counter]
  BY DEF MetricsTypeOK, CountersOK
<1>2. \A c \in Counter : Error(c).errors = c.errors + 1
  BY CounterSteps
<1>3. \A c \in Counter : translate(type, c, object).errors = c.errors
  BY TranslateSteps
<1>4. CASE KindOf[o] = "Event" /\ IsNews(o, type, object)
  <2>1. Counting(o, type, object) = [counters EXCEPT ![MetricOf(RefOf[o])] = Error(@)]
    BY <1>4 DEF Counting
  <2>2. Counting(o, type, object)[m] = IF m = MetricOf(RefOf[o]) THEN Error(counters[m]) ELSE counters[m]
    BY <1>1, <2>1
  <2>3. QED
    BY <1>1, <1>2, <1>4, <2>2
<1>5. CASE KindOf[o] # "Event" /\ Counted(o)
  <2>1. Counting(o, type, object) = [counters EXCEPT ![MetricOf(o)] = translate(type, @, object)]
    BY <1>5 DEF Counting
  <2>2. Counting(o, type, object)[m]
          = IF m = MetricOf(o) THEN translate(type, counters[m], object) ELSE counters[m]
    BY <1>1, <2>1
  <2>3. QED
    BY <1>1, <1>3, <1>5, <2>2
<1>6. CASE ~(KindOf[o] = "Event" /\ IsNews(o, type, object)) /\ ~(KindOf[o] # "Event" /\ Counted(o))
  BY <1>6 DEF Counting
<1>7. QED
  BY <1>4, <1>5, <1>6

LEMMA DispatchKeepsWarnings ==
  ASSUME MetricsTypeOK, NoCopies, OrderOK, WarningsOK, Dispatch
  PROVE  WarningsOK'
<1>1. /\ pc = "handle" /\ Done(FALSE) /\ counters' = Counting(current[1], current[2], fetched)
      /\ UNCHANGED <<objects, synced, notifications, deleted, warnings>>
  BY DEF Dispatch, informerVars
<1>2. /\ current \in Dispatchable /\ current' = NoEvent /\ pc' = "idle"
      /\ Range(queue') \subseteq Range(queue) \cup {current} /\ delayed' = delayed
      /\ \A e \in Dispatchable : e # NoEvent
  BY <1>1, DoneEffect, ObjectsAssumption DEF MetricsTypeOK, Dispatchable
<1>3. PICK o \in Objects, t \in Types : current = <<o, t>>
  BY <1>2 DEF Dispatchable
<1>4. \A e \in Dispatchable : Dispatching(e)' => Dispatching(e)
  BY <1>2 DEF Dispatching
<1>5. \A x \in Events : (AddUnderWay(x)' => AddUnderWay(x)) /\ (Recent(x)' => Recent(x))
  BY <1>1, <1>2, <1>4, QuietKeepsWarnings
<1>6. \A x \in Events : ~Overtaken(x)'
  BY <1>2 DEF Overtaken
<1>7. \A m \in Metrics :
        /\ counters'[m].errors \in {counters[m].errors, counters[m].errors + 1}
        /\ ~(KindOf[o] = "Event" /\ IsNews(o, t, fetched)) => counters'[m].errors = counters[m].errors
  BY <1>1, <1>3, ErrorsFollow
<1>8. CASE ~(KindOf[o] = "Event" /\ IsNews(o, t, fetched))
  BY <1>1, <1>5, <1>6, <1>7, <1>8, NothingCounted
<1>9. CASE KindOf[o] = "Event" /\ IsNews(o, t, fetched)
  <2>1. /\ IsFiniteSet(RecentAdds) /\ Cardinality(RecentAdds) \in Nat
        /\ IsFiniteSet(OvertakenUpdates) /\ Cardinality(OvertakenUpdates) \in Nat
    BY WarningSetsFinite
  <2>2. Cardinality(OvertakenUpdates') = 0
    <3>1. OvertakenUpdates' = {}
      BY <1>6 DEF OvertakenUpdates
    <3>2. QED
      BY <3>1, FS_EmptySet
  <2>3. RecentAdds' \subseteq RecentAdds
    BY <1>5 DEF RecentAdds
  <2>4. /\ Cardinality(RecentAdds') \in Nat
        /\ Cardinality(RecentAdds') + 1 <= Cardinality(RecentAdds) + Cardinality(OvertakenUpdates)
    <3>1. \/ o \in RecentAdds /\ ~AddUnderWay(o)'
          \/ o \in OvertakenUpdates
      BY <1>3, <1>9, DispatchCountsOwed
    <3>2. CASE o \in RecentAdds /\ ~AddUnderWay(o)'
      <4>1. RecentAdds' \subseteq RecentAdds \ {o}
        BY <2>3, <3>2 DEF RecentAdds
      <4>2. /\ IsFiniteSet(RecentAdds \ {o})
            /\ Cardinality(RecentAdds \ {o}) = Cardinality(RecentAdds) - 1
        BY <2>1, <3>2, FS_RemoveElement
      <4>3. Cardinality(RecentAdds') \in Nat /\ Cardinality(RecentAdds') <= Cardinality(RecentAdds \ {o})
        BY <4>1, <4>2, FS_Subset, FS_CardinalityType
      <4>4. QED
        BY <2>1, <4>2, <4>3
    <3>3. CASE o \in OvertakenUpdates
      <4>1. Cardinality(OvertakenUpdates) # 0
        BY <2>1, <3>3, FS_EmptySet
      <4>2. Cardinality(RecentAdds') \in Nat /\ Cardinality(RecentAdds') <= Cardinality(RecentAdds)
        BY <2>1, <2>3, FS_Subset, FS_CardinalityType
      <4>3. QED
        BY <2>1, <4>1, <4>2
    <3>4. QED
      BY <3>1, <3>2, <3>3
  <2>5. \A m \in Metrics :
          /\ counters[m].errors \in Nat /\ warnings \in Nat
          /\ counters[m].errors + Cardinality(RecentAdds) + Cardinality(OvertakenUpdates) <= warnings
    BY DEF MetricsTypeOK, CountersOK, Counter, WarningsOK
  <2>6. \A m \in Metrics :
          counters'[m].errors + Cardinality(RecentAdds') + Cardinality(OvertakenUpdates') <= warnings'
    BY <1>1, <1>7, <2>1, <2>2, <2>4, <2>5
  <2>7. QED
    BY <2>6 DEF WarningsOK
<1>10. QED
  BY <1>8, <1>9

LEMMA WorkerKeepsWarnings ==
  ASSUME MetricsTypeOK, NoCopies, OrderOK, WarningsOK, Worker
  PROVE  WarningsOK'
<1>1. ASSUME UNCHANGED <<objects, synced, notifications, deleted, counters, warnings>>,
             \A e \in Dispatchable : Dispatching(e)' => Dispatching(e), pc' # "handle"
      PROVE  WarningsOK'
  <2>1. \A x \in Events : /\ AddUnderWay(x)' => AddUnderWay(x)
                          /\ (Recent(x)' => Recent(x)) /\ (Overtaken(x)' => Overtaken(x))
    BY <1>1, QuietKeepsWarnings
  <2>2. QED
    BY <1>1, <2>1, NothingCounted
<1>2. CASE Get
  <2>1. /\ Range(queue) = Range(queue') \cup {current'} /\ pc' = "fetch"
        /\ UNCHANGED <<objects, synced, notifications, deleted, delayed, counters, warnings>>
    BY <1>2, GetEffect DEF MetricsTypeOK
  <2>2. \A e \in Dispatchable : Dispatching(e)' => Dispatching(e)
    BY <2>1 DEF Dispatching
  <2>3. QED
    BY <1>1, <2>1, <2>2
<1>3. CASE FetchObj
  <2>1. UNCHANGED <<objects, synced, notifications, deleted, counters, warnings>> /\ pc = "fetch"
    BY <1>3, FetchObjCases
  <2>2. CASE ~Found(current[1])
    <3>1. Done(RetryAllowed(current)) /\ RetryAllowed(current) \in BOOLEAN
      BY <1>3, <2>2, FetchObjCases DEF RetryAllowed
    <3>2. /\ current \in Dispatchable /\ current' = NoEvent /\ pc' = "idle"
          /\ Range(queue') \subseteq Range(queue) \cup {current}
          /\ delayed' \subseteq delayed \cup {current}
          /\ \A e \in Dispatchable : e # NoEvent
      BY <2>1, <3>1, DoneEffect, ObjectsAssumption DEF MetricsTypeOK, Dispatchable
    <3>3. \A e \in Dispatchable : Dispatching(e)' => Dispatching(e)
      BY <3>2 DEF Dispatching
    <3>4. QED
      BY <1>1, <2>1, <3>2, <3>3
  <2>3. CASE Found(current[1])
    <3>1. /\ UNCHANGED <<queue, again, delayed, current>> /\ pc' = "handle"
          /\ fetched' = IF current[1] \in DOMAIN objects THEN objects[current[1]]
                        ELSE deleted[KeyOf[current[1]]]
      BY <1>3, <2>3, FetchObjCases
    <3>2. \A e \in Dispatchable : Dispatching(e)' => Dispatching(e)
      BY <3>1 DEF Dispatching
    <3>3. ASSUME NEW x \in Events
          PROVE  /\ AddUnderWay(x)' => AddUnderWay(x)
                 /\ (Recent(x)' => Recent(x)) /\ (Overtaken(x)' => Overtaken(x))
      <4>1. AddUnderWay(x)' => AddUnderWay(x)
        BY <2>1, <3>2, QuietKeepsWarnings
      <4>2. ToldOf(x)' = ToldOf(x)
        BY <2>1 DEF ToldOf
      <4>3. Recent(x)' => Recent(x)
        <5>1. ASSUME current' = <<x, "add">>, fetched'.kind = "Event", fetched'.recent
              PROVE  Recent(x)
          <6>1. current[1] = x
            BY <3>1, <5>1
          <6>2. QED
            BY <2>3, <3>1, <5>1, <6>1 DEF Recent, Found
        <5>2. QED
          BY <2>1, <4>2, <5>1 DEF Recent
      <4>4. ~Overtaken(x)'
        BY <2>1, <3>1 DEF Overtaken
      <4>5. QED
        BY <4>1, <4>3, <4>4
    <3>4. QED
      BY <2>1, <3>3, NothingCounted
  <2>4. QED
    BY <2>2, <2>3
<1>4. CASE Panic
  <2>1. /\ UNCHANGED <<objects, synced, notifications, deleted, queue, delayed, current, counters, warnings>>
        /\ pc' = "panicked"
    BY <1>4 DEF Panic, informerVars, queueVars
  <2>2. \A e \in Dispatchable : Dispatching(e)' => Dispatching(e)
    BY <2>1 DEF Dispatching
  <2>3. QED
    BY <1>1, <2>1, <2>2
<1>5. QED
  BY <1>2, <1>3, <1>4, DispatchKeepsWarnings DEF Worker

LEMMA RequeuedKeepsWarnings ==
  ASSUME MetricsTypeOK, OrderOK, WarningsOK, Requeued
  PROVE  WarningsOK'
<1>1. PICK e \in Dispatchable : Requeue(e)
  BY DEF Requeued, Dispatchable
<1>2. /\ Enters(e) /\ pc # "panicked" /\ e \in delayed /\ delayed' = delayed \ {e}
      /\ UNCHANGED <<objects, synced, notifications, deleted, pc, current, fetched, counters, warnings>>
  BY <1>1 DEF Requeue, Enters, informerVars, workerVars
<1>3. Range(queue') \subseteq Range(queue) \cup {e}
  BY <1>2, EntersEffect DEF MetricsTypeOK
<1>4. \A x \in Dispatchable : Dispatching(x)' => Dispatching(x)
  BY <1>2, <1>3 DEF Dispatching
<1>5. \A x \in Events : /\ AddUnderWay(x)' => AddUnderWay(x)
                        /\ (Recent(x)' => Recent(x)) /\ (Overtaken(x)' => Overtaken(x))
  BY <1>2, <1>4, QuietKeepsWarnings
<1>6. QED
  BY <1>2, <1>5, NothingCounted

\* The process starts: what there is to be added is older.
LEMMA FreshWarnings ==
  Fresh /\ deleted = << >> /\ pc = "starting" /\ warnings = 0
    /\ (\A o \in DOMAIN objects : ~objects[o].recent) => WarningsOK
<1> SUFFICES ASSUME Fresh, deleted = << >>, pc = "starting", warnings = 0,
                    \A o \in DOMAIN objects : ~objects[o].recent
             PROVE  WarningsOK
  OBVIOUS
<1>1. ASSUME NEW x \in Events
      PROVE  ~Recent(x) /\ ~Overtaken(x)
  <2>1. DOMAIN ToldOf(x) = {}
    BY DEF Fresh, ToldOf, Events, Kinds
  <2>2. QED
    BY <2>1 DEF Recent, Overtaken
<1>2. RecentAdds = {} /\ OvertakenUpdates = {} /\ Cardinality({}) = 0
  BY <1>1, FS_EmptySet DEF RecentAdds, OvertakenUpdates
<1>3. \A m \in Metrics : counters[m].errors = 0
  BY DEF Fresh
<1>4. \A m \in Metrics :
        counters[m].errors + Cardinality(RecentAdds) + Cardinality(OvertakenUpdates) <= warnings
  BY <1>2, <1>3
<1>5. QED
  BY <1>4 DEF WarningsOK

LEMMA WarningsInit == Init => WarningsOK
BY FreshWarnings DEF Init, Fresh, StateOf

LEMMA WarningsStep ==
  MetricsTypeOK /\ NoCopies /\ OrderOK /\ WarningsOK /\ [Next]_vars => WarningsOK'
<1> SUFFICES ASSUME MetricsTypeOK, NoCopies, OrderOK, WarningsOK, [Next]_vars
             PROVE  WarningsOK'
  OBVIOUS
<1>1. CASE Restart
  <2>1. /\ Fresh' /\ deleted' = << >> /\ pc' = "starting" /\ warnings' = 0
        /\ \A o \in DOMAIN objects' : ~objects'[o].recent
    BY <1>1 DEF Restart, Fresh, StateOf
  <2>2. (Fresh /\ deleted = << >> /\ pc = "starting" /\ warnings = 0
           /\ (\A o \in DOMAIN objects : ~objects[o].recent))' => WarningsOK'
    BY FreshWarnings, PTL
  <2>3. QED
    BY <2>1, <2>2
<1>2. CASE UNCHANGED vars
  <2>1. UNCHANGED <<objects, synced, notifications, deleted, queue, delayed, pc, current, fetched,
                    counters, warnings>>
    BY <1>2 DEF vars, informerVars, queueVars, workerVars
  <2>2. \A e \in Dispatchable : Dispatching(e)' => Dispatching(e)
    BY <2>1 DEF Dispatching
  <2>3. \A x \in Events : /\ AddUnderWay(x)' => AddUnderWay(x)
                          /\ (Recent(x)' => Recent(x)) /\ (Overtaken(x)' => Overtaken(x))
    BY <2>1, <2>2, QuietKeepsWarnings
  <2>4. QED
    BY <2>1, <2>3, NothingCounted
<1>3. QED
  BY <1>1, <1>2, ClusterKeepsWarnings, DeliverKeepsWarnings, StartKeepsWarnings, WorkerKeepsWarnings,
     RequeuedKeepsWarnings DEF Next

\* Theorem: the errors of a metric never exceed the warnings raised since the
\* process started, although every update of a Kubernetes Event and every
\* restart delivers the old ones again.
THEOREM WarningsCountedOnce == Spec => []WarningsNotOvercounted
<1> DEFINE Inv == MetricsTypeOK /\ NoCopies /\ OrderOK /\ WarningsOK
<1>1. Init => Inv
  <2>1. Init => NoCopies
    BY DEF Init, NoCopies, Range
  <2>2. QED
    BY <2>1, MetricsTypeInit, OrderInit, WarningsInit
<1>2. Inv /\ [Next]_vars => Inv'
  BY MetricsTypeStep, NoCopiesStep, OrderStep, WarningsStep
<1>3. Inv => WarningsNotOvercounted
  <2>1. SUFFICES ASSUME Inv, NEW m \in Metrics
                 PROVE  counters[m].errors <= warnings
    BY DEF WarningsNotOvercounted
  <2>2. Cardinality(RecentAdds) \in Nat /\ Cardinality(OvertakenUpdates) \in Nat
    BY <2>1, WarningSetsFinite
  <2>3. /\ counters[m].errors \in Nat /\ warnings \in Nat
        /\ counters[m].errors + Cardinality(RecentAdds) + Cardinality(OvertakenUpdates) <= warnings
    BY <2>1 DEF MetricsTypeOK, CountersOK, Counter, WarningsOK
  <2>4. QED
    BY <2>2, <2>3
<1>4. QED
  BY <1>1, <1>2, <1>3, PTL DEF Spec
============================================================================
