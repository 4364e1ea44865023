------------------------- MODULE EventDispatchProofs -------------------------
(***************************************************************************)
(* Proofs about the event library (EventDispatch.tla): an event's loop is  *)
(* not reentered, the list it runs is stable, holds the actions the event  *)
(* has, and has the order that was asked for.                              *)
(***************************************************************************)
EXTENDS EventDispatch, TopologicalSort, FiniteSetTheorems, SequenceTheorems, TLAPS

-----------------------------------------------------------------------------
(* The inductive invariant *)

\* The tables as records and sequences.
Sets(S) == UNION {[A -> SUBSET S] : A \in SUBSET Actions}

Event == [
  nodes : Sets(Actions), sortedActions : Seq(Actions) \cup {None}, areActionsSorted : BOOLEAN,
  coroDepends : Sets(CoroutineActions), runOnce : SUBSET Actions, inDispatch : BOOLEAN,
  actionsToRemove : SUBSET Actions]

Frame == [
  kind : FrameKind, thread : CoroutineActions \cup {None}, event : Events \cup {None},
  action : Actions \cup {None}, i : Nat, n : Nat]

\* The list has no action twice, none the event does not have, and all of them while it
\* counts as sorted; there is one while the event is dispatched, and only then is there
\* something that is yet to be removed.
ListInv(ev) ==
  /\ IsFiniteSet(added(ev))
  /\ ev.sortedActions # None =>
       IsInjective(ev.sortedActions) /\ Range(ev.sortedActions) \subseteq added(ev)
  /\ ev.areActionsSorted =>
       ev.sortedActions # None /\ Range(ev.sortedActions) = added(ev)
  /\ ev.inDispatch => ev.sortedActions # None
  /\ ~ev.inDispatch => ev.actionsToRemove = {}

\* What all of it rests on: nobody adds an action to an event that has it.
AddedOnce == "addedTwice" \notin Usage

EventInv(ev) == ev \in Event /\ EventOK(ev) /\ ListInv(ev)

EventsInv ==
  /\ event \in [Events -> Event]
  /\ \A e \in Events : EventInv(event[e])

\* A loop over the actions of an event is one of an event in dispatch and does not go
\* past its list; no two loops are over the same event; the queue is processed by the
\* outermost code only.
IsLoop(frame, e) == frame.kind = "dispatch" /\ frame.event = e

FramesInv ==
  /\ frames \in Seq(Frame)
  /\ \A k \in DOMAIN frames : frames[k].kind = "process" => k = 1
  /\ \A k \in DOMAIN frames : frames[k].kind = "dispatch" =>
       /\ frames[k].event \in Events
       /\ event[frames[k].event].inDispatch
       /\ frames[k].i >= 1
       /\ frames[k].n <= Len(event[frames[k].event].sortedActions)
  /\ \A k, l \in DOMAIN frames :
       frames[k].kind = "dispatch" /\ IsLoop(frames[l], frames[k].event) => k = l
  /\ \A e \in Events :
       event[e].inDispatch => \E k \in DOMAIN frames : IsLoop(frames[k], e)

ThreadsInv ==
  /\ enabled \subseteq Actions
  /\ threadOf \in [CoroutineActions -> {"none", "waiting", "running"}]
  /\ waitsFor \in [CoroutineActions -> SUBSET CoroutineActions]
  /\ WaitsForRunningOnly

QueueInv ==
  /\ DOMAIN dispatchQueue \subseteq 1..MaxQueued
  /\ \A i \in DOMAIN dispatchQueue : dispatchQueue[i] \in Events
  /\ queueMin \in 0..MaxQueued + 1 /\ queueMax \in 0..MaxQueued
  /\ scheduled \in BOOLEAN

CountersInv == calls \in 0..MaxCalls /\ edits \in 0..MaxEdits

IInv == EventsInv /\ FramesInv /\ ThreadsInv /\ QueueInv /\ CountersInv

\* What OrderRespected says of one event.
InOrder(ev) ==
  ev.areActionsSorted =>
    LET list == ev.sortedActions IN
    \A i, j \in DOMAIN list : list[j] \in ev.nodes[list[i]] => j < i

-----------------------------------------------------------------------------
(* Lemmas about lists *)

LEMMA Interval ==
  ASSUME NEW n \in Nat
  PROVE  IsFiniteSet(1..n) /\ Cardinality(1..n) = n
<1>1. IsFiniteSet(1..n) /\ Cardinality(1..n) = IF 1 > n THEN 0 ELSE n - 1 + 1
  BY FS_Interval
<1> QED
  BY <1>1

LEMMA FrontLast ==
  ASSUME NEW S, NEW s \in Seq(S), s # <<>>
  PROVE  /\ Len(s) \in Nat \ {0} /\ Len(s) \in DOMAIN s /\ DOMAIN s = 1..Len(s)
         /\ Front(s) \in Seq(S) /\ Len(Front(s)) = Len(s) - 1
         /\ DOMAIN Front(s) = 1..(Len(s) - 1)
         /\ \A k \in DOMAIN Front(s) : Front(s)[k] = s[k]
         /\ Last(s) = s[Len(s)] /\ Last(s) \in S
<1>1. /\ Len(s) \in Nat \ {0} /\ DOMAIN s = 1..Len(s) /\ \A k \in 1..Len(s) : s[k] \in S
  OBVIOUS
<1>2. Len(s) \in 1..Len(s)
  BY <1>1
<1>3. Front(s) = [k \in 1..(Len(s) - 1) |-> s[k]]
  BY <1>1 DEF Front
<1>4. Front(s) \in Seq(S) /\ Len(Front(s)) = Len(s) - 1
  BY <1>1, <1>3
<1> QED
  BY <1>1, <1>2, <1>3, <1>4 DEF Last

LEMMA Appended ==
  ASSUME NEW S, NEW s \in Seq(S), NEW x \in S
  PROVE  /\ Append(s, x) \in Seq(S) /\ Len(Append(s, x)) = Len(s) + 1
         /\ DOMAIN s = 1..Len(s) /\ Len(s) \in Nat
         /\ DOMAIN Append(s, x) = 1..(Len(s) + 1)
         /\ \A k \in DOMAIN s : Append(s, x)[k] = s[k]
         /\ Append(s, x)[Len(s) + 1] = x
         /\ Last(Append(s, x)) = x
BY DEF Last

\* What Remaining(list, A) leaves is what is not in A, in the order it had, if the list
\* has nothing twice.
LEMMA RemainingKeeps ==
  ASSUME NEW S, NEW list \in Seq(S), IsInjective(list), NEW A
  PROVE  /\ Remaining(list, A) \in Seq(S)
         /\ Range(Remaining(list, A)) = Range(list) \ A
         /\ \A k, l \in DOMAIN Remaining(list, A) : k < l =>
              \E i, j \in DOMAIN list :
                i < j /\ list[i] = Remaining(list, A)[k] /\ list[j] = Remaining(list, A)[l]
<1> DEFINE kept == {i \in DOMAIN list :
                      list[i] \in A => \E j \in DOMAIN list : j > i /\ list[j] = list[i]}
           upTo(i) == {j \in kept : j <= i}
           position == [i \in kept |-> Cardinality(upTo(i))]
           n == Cardinality(kept)
           chosen(k) == CHOOSE i \in kept : Cardinality(upTo(i)) = k
           result == [k \in 1..n |-> list[chosen(k)]]
<1>0. kept = {i \in DOMAIN list : list[i] \notin A}
  BY DEF IsInjective
<1>1. Remaining(list, A) = result
  BY DEF Remaining
<1> HIDE DEF kept
<1>2. DOMAIN list = 1..Len(list) /\ Len(list) \in Nat /\ kept \subseteq 1..Len(list)
  BY <1>0
<1>3. IsFiniteSet(kept) /\ n \in Nat
  <2>1. IsFiniteSet(1..Len(list))
    BY <1>2, Interval
  <2>2. IsFiniteSet(kept)
    BY <1>2, <2>1, FS_Subset
  <2> QED
    BY <2>2, FS_CardinalityType
<1>4. \A i \in kept : IsFiniteSet(upTo(i)) /\ position[i] \in 1..n
  <2> TAKE i \in kept
  <2>1. upTo(i) \in SUBSET kept /\ i \in upTo(i)
    BY <1>2
  <2> HIDE DEF upTo, n
  <2>2. /\ IsFiniteSet(upTo(i)) /\ Cardinality(upTo(i)) <= n
        /\ Cardinality(upTo(i)) \in Nat /\ Cardinality(upTo(i)) # 0
    BY <1>3, <2>1, FS_Subset, FS_CardinalityType, FS_EmptySet DEF n
  <2> QED
    BY <1>3, <2>2
<1>5. \A i, j \in kept : i < j => position[i] < position[j]
  <2> TAKE i, j \in kept
  <2> HAVE i < j
  <2>0. \A k \in kept : k \in Int
    BY <1>2
  <2>1. upTo(i) \in SUBSET upTo(j) /\ j \in upTo(j) /\ j \notin upTo(i)
    BY <2>0
  <2> HIDE DEF upTo
  <2>2. /\ Cardinality(upTo(i)) <= Cardinality(upTo(j))
        /\ Cardinality(upTo(i)) # Cardinality(upTo(j))
    BY <1>4, <2>1, FS_Subset
  <2> QED
    BY <1>3, <1>4, <2>2
<1>6. position \in Injection(kept, 1..n)
  <2>1. \A i, j \in kept : position[i] = position[j] => i = j
    <3> SUFFICES ASSUME NEW i \in kept, NEW j \in kept, position[i] = position[j]
                 PROVE  i = j
      OBVIOUS
    <3> HIDE DEF position, n, upTo
    <3>1. i \in Int /\ j \in Int
      BY <1>2
    <3>2. position[i] \in 1..n /\ position[j] \in 1..n /\ n \in Nat
      BY <1>3, <1>4
    <3> QED
      BY <1>5, <3>1, <3>2
  <2>2. position \in [kept -> 1..n]
    BY <1>4
  <2> HIDE DEF position
  <2> QED
    BY <2>1, <2>2 DEF Injection, IsInjective
<1>7. position \in Surjection(kept, 1..n)
  <2>1. IsFiniteSet(1..n) /\ Cardinality(1..n) = n
    BY <1>3, Interval
  <2> HIDE DEF position
  <2> QED
    BY <1>6, <2>1, FS_Injection
<1> HIDE DEF position, n
<1>8. \A k \in 1..n : chosen(k) \in kept /\ position[chosen(k)] = k
  <2> TAKE k \in 1..n
  <2>1. \E i \in kept : position[i] = k
    BY <1>7 DEF Surjection
  <2>2. \A i \in kept : position[i] = Cardinality(upTo(i))
    BY DEF position
  <2>3. \E i \in kept : Cardinality(upTo(i)) = k
    BY <2>1, <2>2
  <2>4. chosen(k) \in kept /\ Cardinality(upTo(chosen(k))) = k
    BY <2>3
  <2> QED
    BY <2>2, <2>4
<1>9. \A i \in kept : position[i] \in 1..n /\ chosen(position[i]) = i
  BY <1>4, <1>6, <1>8 DEF Injection, IsInjective
<1> HIDE DEF chosen
<1>10. \A k \in 1..n : chosen(k) \in DOMAIN list /\ list[chosen(k)] \notin A
  BY <1>0, <1>8
<1>11. result \in Seq(S)
  BY <1>3, <1>10
<1>12. Range(result) = Range(list) \ A
  <2>1. ASSUME NEW k \in 1..n PROVE result[k] \in Range(list) \ A
    BY <1>10 DEF Range
  <2>2. ASSUME NEW i \in DOMAIN list, list[i] \notin A
        PROVE  \E k \in 1..n : result[k] = list[i]
    <3>1. i \in kept
      BY <1>0, <2>2
    <3> QED
      BY <1>9, <3>1
  <2>3. DOMAIN result = 1..n
    OBVIOUS
  <2> HIDE DEF result
  <2> QED
    BY <2>1, <2>2, <2>3 DEF Range
<1>13. ASSUME NEW k \in 1..n, NEW l \in 1..n, k < l
       PROVE  \E i, j \in DOMAIN list : i < j /\ list[i] = result[k] /\ list[j] = result[l]
  <2>1. /\ chosen(k) \in kept /\ chosen(l) \in kept
        /\ position[chosen(k)] = k /\ position[chosen(l)] = l
    BY <1>8
  <2>2. chosen(k) \in 1..Len(list) /\ chosen(l) \in 1..Len(list)
    BY <1>2, <2>1
  <2>3. ~(chosen(l) < chosen(k)) /\ chosen(k) # chosen(l)
    BY <1>3, <1>5, <1>13, <2>1
  <2>4. chosen(k) < chosen(l)
    BY <1>2, <2>2, <2>3
  <2> QED
    BY <1>2, <2>2, <2>4
<1> QED
  BY <1>1, <1>11, <1>12, <1>13

\* A list that has no action twice is as long as the set of its actions.
LEMMA InjectiveLength ==
  ASSUME NEW S, NEW list \in Seq(S), IsInjective(list)
  PROVE  IsFiniteSet(Range(list)) /\ Len(list) = Cardinality(Range(list))
<1>1. DOMAIN list = 1..Len(list) /\ Len(list) \in Nat
  OBVIOUS
<1>2. IsFiniteSet(1..Len(list)) /\ Cardinality(1..Len(list)) = Len(list)
  BY <1>1, Interval
<1>3. list \in Surjection(1..Len(list), Range(list)) /\ list \in Injection(1..Len(list), Range(list))
  <2>1. list \in [1..Len(list) -> Range(list)]
    BY <1>1 DEF Range
  <2>2. \A a \in Range(list) : \E k \in 1..Len(list) : list[k] = a
    BY <1>1 DEF Range
  <2> QED
    BY <2>1, <2>2, <1>1 DEF Surjection, Injection
<1> QED
  BY <1>2, <1>3, FS_Surjection

LEMMA AppendedPrefix ==
  ASSUME NEW S, NEW list \in Seq(S), NEW a \in S
  PROVE  IsPrefix(list, list) /\ IsPrefix(list, Append(list, a))
<1>1. SubSeq(Append(list, a), 1, Len(list)) = list /\ SubSeq(list, 1, Len(list)) = list
  OBVIOUS
<1>2. Len(list) \in Nat /\ Len(Append(list, a)) = Len(list) + 1
  OBVIOUS
<1>3. Len(list) <= Len(list) /\ Len(list) <= Len(Append(list, a))
  BY <1>2
<1> QED
  BY <1>1, <1>3 DEF IsPrefix

\* An order of the nodes holds each of them once.
LEMMA OrdersList ==
  ASSUME NEW edges, IsFiniteSet(DOMAIN edges), NEW s \in Orders(edges)
  PROVE  /\ s \in Seq(DOMAIN edges) /\ IsInjective(s) /\ Range(s) = DOMAIN edges
         /\ \A i, j \in DOMAIN s : s[j] \in edges[s[i]] => j < i
<1> DEFINE D == DOMAIN edges
           n == Cardinality(D)
<1>1. n \in Nat /\ IsFiniteSet(1..n) /\ Cardinality(1..n) = n
  BY FS_CardinalityType, Interval
<1>2. /\ s \in [1..n -> D] /\ \A i, j \in 1..n : i # j => s[i] # s[j]
      /\ \A i, j \in DOMAIN s : s[j] \in edges[s[i]] => j < i
  BY DEF Orders, SetToSeqs
<1> HIDE DEF D, n
<1>3. s \in Seq(D)
  BY <1>1, <1>2
<1>4. s \in Injection(1..n, D) /\ IsInjective(s)
  BY <1>2 DEF Injection, IsInjective
<1>5. s \in Surjection(1..n, D)
  BY <1>1, <1>4, FS_Injection DEF D, n
<1>6. Range(s) = D
  BY <1>2, <1>5 DEF Surjection, Range
<1> QED
  BY <1>2, <1>3, <1>4, <1>6 DEF D

-----------------------------------------------------------------------------
(* Lemmas about one event: what is done to it keeps this much of the invariant *)

\* What a change leaves alone while the event is being dispatched.
Extends(ev, new) ==
  /\ new.inDispatch = ev.inDispatch
  /\ ev.inDispatch => IsPrefix(ev.sortedActions, new.sortedActions)

LEMMA SetsMember ==
  ASSUME NEW S, NEW f
  PROVE  f \in Sets(S) <=> DOMAIN f \subseteq Actions /\ f \in [DOMAIN f -> SUBSET S]
BY DEF Sets

LEMMA EventFields ==
  ASSUME NEW ev \in Event
  PROVE  /\ DOMAIN ev.nodes \subseteq Actions /\ ev.nodes \in [DOMAIN ev.nodes -> SUBSET Actions]
         /\ DOMAIN ev.coroDepends \subseteq Actions
         /\ ev.coroDepends \in [DOMAIN ev.coroDepends -> SUBSET CoroutineActions]
         /\ ev.sortedActions \in Seq(Actions) \cup {None} /\ ev.areActionsSorted \in BOOLEAN
         /\ ev.runOnce \subseteq Actions /\ ev.inDispatch \in BOOLEAN
         /\ ev.actionsToRemove \subseteq Actions /\ None \notin Seq(Actions)
<1>1. ev.nodes \in Sets(Actions) /\ ev.coroDepends \in Sets(CoroutineActions)
  BY DEF Event
<1>2. /\ DOMAIN ev.nodes \subseteq Actions /\ ev.nodes \in [DOMAIN ev.nodes -> SUBSET Actions]
      /\ DOMAIN ev.coroDepends \subseteq Actions
      /\ ev.coroDepends \in [DOMAIN ev.coroDepends -> SUBSET CoroutineActions]
  BY <1>1, SetsMember
<1> QED
  BY <1>2, EventAssumption DEF Event

\* The fields that EventInv is about, one by one.
LEMMA EventInvFields ==
  ASSUME NEW ev \in Event
  PROVE  EventInv(ev) <=>
           /\ DOMAIN ev.coroDepends = added(ev)
           /\ ev.runOnce \subseteq added(ev) /\ ev.actionsToRemove \subseteq added(ev)
           /\ ListInv(ev)
<1>1. \A a \in DOMAIN ev.nodes : ev.nodes[a] \subseteq Actions
  BY EventFields
<1>2. \A a \in DOMAIN ev.coroDepends : ev.coroDepends[a] \subseteq CoroutineActions
  BY EventFields
<1> QED
  BY <1>1, <1>2, EventFields DEF EventInv, EventOK, added

LEMMA SameList ==
  ASSUME NEW ev, EventInv(ev),
         NEW new, new.inDispatch = ev.inDispatch, new.sortedActions = ev.sortedActions
  PROVE  Extends(ev, new)
<1>1. SUFFICES ASSUME ev.inDispatch
               PROVE  IsPrefix(ev.sortedActions, ev.sortedActions)
  BY DEF Extends
<1>2. ev.sortedActions \in Seq(Actions)
  BY <1>1, EventFields DEF EventInv, ListInv
<1>3. /\ SubSeq(ev.sortedActions, 1, Len(ev.sortedActions)) = ev.sortedActions
      /\ Len(ev.sortedActions) \in Nat
  BY <1>2
<1> QED
  BY <1>3 DEF IsPrefix

\* Ordered and Unordered
LEMMA OrderedEvent ==
  ASSUME NEW ev, EventInv(ev), NEW new \in Ordered(ev)
  PROVE  /\ EventInv(new) /\ new.areActionsSorted /\ Extends(ev, new)
         /\ InOrder(ev) => InOrder(new)
<1>0. ev \in Event /\ ListInv(ev)
  BY DEF EventInv
<1>1. CASE ev.areActionsSorted
  <2>1. new = ev
    BY <1>1 DEF Ordered
  <2> QED
    BY <1>1, <2>1, SameList
<1>2. CASE ~ev.areActionsSorted
  <2>1. PICK s \in Orders(ev.nodes) :
          new = [ev EXCEPT !.nodes = Pruned(@), !.sortedActions = s, !.areActionsSorted = TRUE]
    BY <1>2 DEF Ordered
  <2>2. ~ev.inDispatch
    BY <1>2 DEF Ordered, Sortable
  <2>3. /\ s \in Seq(added(ev)) /\ IsInjective(s) /\ Range(s) = added(ev)
        /\ \A i, j \in DOMAIN s : s[j] \in ev.nodes[s[i]] => j < i
    BY <1>0, OrdersList DEF ListInv, added
  <2>4. s \in Seq(Actions)
    BY <1>0, <2>3, EventFields DEF added
  <2>5. /\ DOMAIN Pruned(ev.nodes) = added(ev) /\ Pruned(ev.nodes) \in Sets(Actions)
        /\ \A a \in added(ev) : Pruned(ev.nodes)[a] \subseteq ev.nodes[a]
    BY <1>0, EventFields, SetsMember DEF Pruned, added
  <2> HIDE DEF Pruned
  <2>6. /\ new \in Event /\ new.nodes = Pruned(ev.nodes) /\ new.sortedActions = s
        /\ new.areActionsSorted = TRUE /\ new.coroDepends = ev.coroDepends
        /\ new.runOnce = ev.runOnce /\ new.inDispatch = ev.inDispatch
        /\ new.actionsToRemove = ev.actionsToRemove
    BY <1>0, <2>1, <2>4, <2>5 DEF Event
  <2>7. added(new) = added(ev)
    BY <2>5, <2>6 DEF added
  <2>8. None # s
    BY <2>4, EventAssumption
  <2>9. ListInv(new)
    BY <1>0, <2>2, <2>3, <2>6, <2>7, <2>8 DEF ListInv
  <2>10. EventInv(new)
    BY <1>0, <2>6, <2>7, <2>9, EventInvFields
  <2>11. InOrder(new)
    <3>1. \A i \in DOMAIN s : s[i] \in added(ev)
      BY <2>3
    <3> QED
      BY <2>3, <2>5, <2>6, <3>1 DEF InOrder
  <2> QED
    BY <2>2, <2>6, <2>10, <2>11 DEF Extends
<1> QED
  BY <1>1, <1>2

LEMMA UnorderedEvent ==
  ASSUME NEW ev, EventInv(ev), NEW new \in Unordered(ev)
  PROVE  EventInv(new) /\ Extends(ev, new) /\ (InOrder(ev) => InOrder(new))
<1>0. ev \in Event /\ ListInv(ev)
  BY DEF EventInv
<1>1. CASE ~SortFails(ev)
  <2>1. new = ev
    BY <1>1 DEF Unordered
  <2> QED
    BY <2>1, SameList
<1>2. CASE SortFails(ev)
  <2>1. PICK kept \in [added(ev) -> SUBSET Actions] :
          new = [ev EXCEPT !.sortedActions = None, !.nodes = kept]
    BY <1>2 DEF Unordered
  <2>2. ~ev.inDispatch /\ ~ev.areActionsSorted
    BY <1>2 DEF SortFails, Sortable
  <2>3. kept \in Sets(Actions)
    BY <1>0, <2>1, EventFields, SetsMember DEF added
  <2>4. /\ new \in Event /\ new.nodes = kept /\ new.sortedActions = None
        /\ new.areActionsSorted = ev.areActionsSorted /\ new.coroDepends = ev.coroDepends
        /\ new.runOnce = ev.runOnce /\ new.inDispatch = ev.inDispatch
        /\ new.actionsToRemove = ev.actionsToRemove
    BY <1>0, <2>1, <2>3 DEF Event
  <2>5. added(new) = added(ev)
    BY <2>1, <2>4 DEF added
  <2>6. ListInv(new)
    BY <1>0, <2>2, <2>4, <2>5 DEF ListInv
  <2>7. EventInv(new)
    BY <1>0, <2>4, <2>5, <2>6, EventInvFields
  <2> QED
    BY <2>2, <2>4, <2>7 DEF Extends, InOrder
<1> QED
  BY <1>1, <1>2

\* addAction
LEMMA AddedEvent ==
  ASSUME NEW ev, EventInv(ev), NEW a \in Actions \ added(ev), NEW once,
         NEW new,
         new = [ev EXCEPT !.nodes = Put(@, a, {}), !.coroDepends = Put(@, a, {}),
                          !.sortedActions = Listed(ev, a), !.runOnce = once],
         once \in {ev.runOnce, ev.runOnce \cup {a}}
  PROVE  /\ EventInv(new) /\ Extends(ev, new)
         /\ (\A b \in added(ev) : a \notin ev.nodes[b]) /\ InOrder(ev) => InOrder(new)
<1> DEFINE edges == Put(ev.nodes, a, {})
           depends == Put(ev.coroDepends, a, {})
           list == Listed(ev, a)
<1>0. ev \in Event /\ ListInv(ev) /\ DOMAIN ev.coroDepends = added(ev)
  BY EventInvFields DEF EventInv
<1>1. /\ DOMAIN edges = added(ev) \cup {a} /\ edges[a] = {}
      /\ \A b \in added(ev) : edges[b] = ev.nodes[b]
  BY DEF added, Put
<1>2. /\ DOMAIN depends = added(ev) \cup {a} /\ depends[a] = {}
      /\ \A b \in added(ev) : depends[b] = ev.coroDepends[b]
  BY <1>0 DEF added, Put
<1>3. edges \in Sets(Actions)
  <2>1. edges \in [DOMAIN edges -> SUBSET Actions]
    <3>1. edges = [b \in DOMAIN edges |-> edges[b]]
      BY DEF Put
    <3>2. \A b \in DOMAIN edges : edges[b] \in SUBSET Actions
      BY <1>0, <1>1, EventFields DEF added
    <3> HIDE DEF edges
    <3> QED
      BY <3>1, <3>2
  <2>2. DOMAIN edges \subseteq Actions
    BY <1>0, <1>1, EventFields DEF added
  <2> HIDE DEF edges
  <2> QED
    BY <2>1, <2>2, SetsMember
<1>4. depends \in Sets(CoroutineActions)
  <2>1. depends \in [DOMAIN depends -> SUBSET CoroutineActions]
    <3>1. depends = [b \in DOMAIN depends |-> depends[b]]
      BY DEF Put
    <3>2. \A b \in DOMAIN depends : depends[b] \in SUBSET CoroutineActions
      BY <1>0, <1>2, EventFields
    <3> HIDE DEF depends
    <3> QED
      BY <3>1, <3>2
  <2>2. DOMAIN depends \subseteq Actions
    BY <1>0, <1>2, EventFields DEF added
  <2> HIDE DEF depends
  <2> QED
    BY <2>1, <2>2, SetsMember
<1>5. /\ list \in Seq(Actions) \cup {None}
      /\ ~ev.areActionsSorted => list = ev.sortedActions
      /\ ev.areActionsSorted => list = Append(ev.sortedActions, a)
                                /\ ev.sortedActions \in Seq(Actions)
                                /\ list \in Seq(Actions) /\ list # None
  BY <1>0, EventFields DEF Listed, ListInv
<1> HIDE DEF edges, depends, list
<1>6. once \subseteq Actions
  BY <1>0, EventFields
<1>7. /\ new \in Event /\ new.nodes = edges /\ new.sortedActions = list
      /\ new.areActionsSorted = ev.areActionsSorted /\ new.coroDepends = depends
      /\ new.runOnce = once /\ new.inDispatch = ev.inDispatch
      /\ new.actionsToRemove = ev.actionsToRemove
  BY <1>0, <1>3, <1>4, <1>5, <1>6 DEF Event, edges, depends, list
<1>8. added(new) = added(ev) \cup {a}
  BY <1>1, <1>7 DEF added
<1>9. ev.areActionsSorted =>
        LET old == ev.sortedActions IN
        /\ DOMAIN old = 1..Len(old) /\ DOMAIN list = 1..(Len(old) + 1) /\ Len(old) \in Nat
        /\ \A k \in DOMAIN old : list[k] = old[k] /\ old[k] \in added(ev)
        /\ list[Len(old) + 1] = a
  BY <1>0, <1>5, Appended DEF ListInv, Range
<1>10. ListInv(new)
  <2>1. IsFiniteSet(added(new))
    BY <1>0, <1>8, FS_AddElement DEF ListInv
  <2>2. ev.areActionsSorted => IsInjective(list)
    <3> HAVE ev.areActionsSorted
    <3>1. IsInjective(ev.sortedActions)
      BY <1>0 DEF ListInv
    <3>2. SUFFICES ASSUME NEW k \in DOMAIN list, NEW l \in DOMAIN list, list[k] = list[l]
                   PROVE  k = l
      BY DEF IsInjective
    <3>3. CASE k \in DOMAIN ev.sortedActions /\ l \in DOMAIN ev.sortedActions
      BY <1>9, <3>1, <3>2, <3>3 DEF IsInjective
    <3>4. CASE k \notin DOMAIN ev.sortedActions \/ l \notin DOMAIN ev.sortedActions
      BY <1>9, <3>2, <3>4
    <3> QED
      BY <3>3, <3>4
  <2>3. ev.areActionsSorted => Range(list) = Range(ev.sortedActions) \cup {a}
    <3> HAVE ev.areActionsSorted
    <3>1. \A k \in DOMAIN list : list[k] \in Range(ev.sortedActions) \cup {a}
      BY <1>9 DEF Range
    <3>2. \A k \in DOMAIN ev.sortedActions : k \in DOMAIN list
      BY <1>9
    <3>3. Len(ev.sortedActions) + 1 \in DOMAIN list
      BY <1>9
    <3> QED
      BY <1>9, <3>1, <3>2, <3>3 DEF Range
  <2>4. ev.areActionsSorted => Range(list) = added(new) /\ list # None
    BY <1>0, <1>5, <1>8, <2>3 DEF ListInv
  <2>5. ~ev.areActionsSorted /\ list # None =>
          IsInjective(list) /\ Range(list) \subseteq added(new)
    BY <1>0, <1>5, <1>8 DEF ListInv
  <2>6. ev.inDispatch => list # None
    BY <1>0, <1>5 DEF ListInv
  <2> QED
    BY <1>0, <1>7, <2>1, <2>2, <2>4, <2>5, <2>6 DEF ListInv
<1>11. EventInv(new)
  <2>1. DOMAIN new.coroDepends = added(new)
    BY <1>2, <1>7, <1>8
  <2>2. new.runOnce \subseteq added(new) /\ new.actionsToRemove \subseteq added(new)
    BY <1>0, <1>7, <1>8, EventInvFields
  <2> QED
    BY <1>7, <1>10, <2>1, <2>2, EventInvFields
<1>12. Extends(ev, new)
  <2>1. CASE ev.areActionsSorted
    <3>1. IsPrefix(ev.sortedActions, Append(ev.sortedActions, a))
      BY <1>5, <2>1, AppendedPrefix
    <3> QED
      BY <1>5, <1>7, <2>1, <3>1 DEF Extends
  <2>2. CASE ~ev.areActionsSorted
    BY <1>5, <1>7, <2>2, SameList
  <2> QED
    BY <2>1, <2>2
<1>13. (\A b \in added(ev) : a \notin ev.nodes[b]) /\ InOrder(ev) => InOrder(new)
  <2> HAVE (\A b \in added(ev) : a \notin ev.nodes[b]) /\ InOrder(ev)
  <2>1. SUFFICES ASSUME ev.areActionsSorted,
                        NEW k \in DOMAIN list, NEW l \in DOMAIN list, list[l] \in edges[list[k]]
                 PROVE  l < k
    BY <1>7 DEF InOrder
  <2> DEFINE old == ev.sortedActions
  <2>2. k \in DOMAIN old
    BY <1>1, <1>9, <2>1
  <2>3. list[k] = old[k] /\ list[k] \in added(ev) /\ list[l] \in ev.nodes[old[k]]
    BY <1>1, <1>9, <2>1, <2>2
  <2>4. l \in DOMAIN old
    BY <1>9, <2>1, <2>3
  <2> QED
    BY <1>9, <2>1, <2>2, <2>3, <2>4 DEF InOrder
<1> QED
  BY <1>11, <1>12, <1>13

\* Without, while the event is not dispatched
LEMMA WithoutEvent ==
  ASSUME NEW ev, EventInv(ev), ~ev.inDispatch, ev.sortedActions # None, NEW A
  PROVE  /\ EventInv(Without(ev, A)) /\ ~Without(ev, A).inDispatch
         /\ InOrder(ev) => InOrder(Without(ev, A))
<1> DEFINE new == Without(ev, A)
           list == Remaining(ev.sortedActions, A)
           edges == [a \in added(ev) \ A |-> ev.nodes[a]]
           depends == [a \in added(ev) \ A |-> ev.coroDepends[a]]
<1>0. ev \in Event /\ ListInv(ev) /\ DOMAIN ev.coroDepends = added(ev)
  BY EventInvFields DEF EventInv
<1>1. ev.sortedActions \in Seq(Actions)
  BY <1>0, EventFields
<1>2. /\ list \in Seq(Actions) /\ Range(list) = Range(ev.sortedActions) \ A
      /\ \A k, l \in DOMAIN list : k < l =>
           \E i, j \in DOMAIN ev.sortedActions :
             i < j /\ ev.sortedActions[i] = list[k] /\ ev.sortedActions[j] = list[l]
  BY <1>0, <1>1, RemainingKeeps DEF ListInv
<1>3. edges \in Sets(Actions) /\ depends \in Sets(CoroutineActions)
  <2>1. edges \in [added(ev) \ A -> SUBSET Actions]
    BY <1>0, EventFields DEF added
  <2>2. depends \in [added(ev) \ A -> SUBSET CoroutineActions]
    BY <1>0, EventFields DEF added
  <2>3. added(ev) \ A \subseteq Actions
    BY <1>0, EventFields DEF added
  <2> HIDE DEF edges, depends
  <2> QED
    BY <2>1, <2>2, <2>3, SetsMember
<1>4. new = [ev EXCEPT !.sortedActions = list, !.nodes = edges, !.coroDepends = depends,
                       !.runOnce = @ \ A]
  BY <1>0 DEF Without, added
<1>5. DOMAIN edges = added(ev) \ A /\ DOMAIN depends = added(ev) \ A
      /\ \A a \in added(ev) \ A : edges[a] = ev.nodes[a]
  OBVIOUS
<1> HIDE DEF new, list, edges, depends
<1>6. ev.runOnce \ A \subseteq Actions
  BY <1>0, EventFields
<1>7. /\ new \in Event /\ new.nodes = edges /\ new.sortedActions = list
      /\ new.areActionsSorted = ev.areActionsSorted /\ new.coroDepends = depends
      /\ new.runOnce = ev.runOnce \ A /\ new.inDispatch = ev.inDispatch
      /\ new.actionsToRemove = ev.actionsToRemove
  BY <1>0, <1>2, <1>3, <1>4, <1>6 DEF Event
<1>8. added(new) = added(ev) \ A
  BY <1>5, <1>7 DEF added
<1>9. list # None /\ DOMAIN list = 1..Len(list) /\ Len(list) \in Nat
      /\ DOMAIN ev.sortedActions = 1..Len(ev.sortedActions) /\ Len(ev.sortedActions) \in Nat
  BY <1>1, <1>2, EventAssumption
<1>10. IsInjective(list)
  <2>1. IsInjective(ev.sortedActions)
    BY <1>0 DEF ListInv
  <2>2. ASSUME NEW k \in DOMAIN list, NEW l \in DOMAIN list, k < l PROVE list[k] # list[l]
    <3>1. PICK i \in DOMAIN ev.sortedActions, j \in DOMAIN ev.sortedActions :
            i < j /\ ev.sortedActions[i] = list[k] /\ ev.sortedActions[j] = list[l]
      BY <1>2, <2>2
    <3>2. i # j
      BY <1>9, <3>1
    <3> QED
      BY <2>1, <3>1, <3>2 DEF IsInjective
  <2>3. SUFFICES ASSUME NEW k \in DOMAIN list, NEW l \in DOMAIN list, list[k] = list[l]
                 PROVE  k = l
    BY DEF IsInjective
  <2>4. k \in Int /\ l \in Int
    BY <1>9
  <2> QED
    BY <2>2, <2>3, <2>4
<1>11. ListInv(new)
  <2>1. IsFiniteSet(added(new))
    BY <1>0, <1>8, FS_Subset DEF ListInv
  <2>2. Range(list) \subseteq added(new)
    BY <1>0, <1>2, <1>8 DEF ListInv
  <2>3. ev.areActionsSorted => Range(list) = added(new)
    BY <1>0, <1>2, <1>8 DEF ListInv
  <2> QED
    BY <1>0, <1>7, <1>9, <1>10, <2>1, <2>2, <2>3 DEF ListInv
<1>12. EventInv(new)
  <2>1. ev.actionsToRemove = {}
    BY <1>0 DEF ListInv
  <2>2. new.runOnce \subseteq added(new) /\ DOMAIN new.coroDepends = added(new)
    BY <1>0, <1>5, <1>7, <1>8, EventInvFields
  <2> QED
    BY <1>7, <1>11, <2>1, <2>2, EventInvFields
<1>13. InOrder(ev) => InOrder(new)
  <2> HAVE InOrder(ev)
  <2>1. SUFFICES ASSUME ev.areActionsSorted,
                        NEW k \in DOMAIN list, NEW l \in DOMAIN list,
                        list[l] \in edges[list[k]], ~(l < k)
                 PROVE  FALSE
    BY <1>7 DEF InOrder
  <2>2. list[k] \in added(ev) \ A
    BY <1>0, <1>2 DEF ListInv, Range
  <2>3. list[l] \in ev.nodes[list[k]]
    BY <1>5, <2>1, <2>2
  <2>4. list[k] \in Range(ev.sortedActions)
    BY <1>2 DEF Range
  <2>5. CASE k < l
    <3>1. PICK i \in DOMAIN ev.sortedActions, j \in DOMAIN ev.sortedActions :
            i < j /\ ev.sortedActions[i] = list[k] /\ ev.sortedActions[j] = list[l]
      BY <1>2, <2>5
    <3>2. j < i
      BY <2>1, <2>3, <3>1 DEF InOrder
    <3> QED
      BY <1>9, <3>1, <3>2
  <2>6. CASE k = l
    <3>1. PICK i \in DOMAIN ev.sortedActions : ev.sortedActions[i] = list[k]
      BY <2>4 DEF Range
    <3>2. i < i
      BY <2>1, <2>3, <2>6, <3>1 DEF InOrder
    <3> QED
      BY <1>9, <3>2
  <2> QED
    BY <1>9, <2>1, <2>5, <2>6
<1> QED
  BY <1>7, <1>12, <1>13 DEF new

\* removeAction
LEMMA RemovedEvent ==
  ASSUME NEW ev, EventInv(ev), NEW a \in added(ev)
  PROVE  /\ EventInv(Removed(ev, a)) /\ Extends(ev, Removed(ev, a))
         /\ InOrder(ev) => InOrder(Removed(ev, a))
<1>0. ev \in Event /\ ListInv(ev)
  BY DEF EventInv
<1>1. CASE ev.inDispatch
  <2> DEFINE new == [ev EXCEPT !.actionsToRemove = @ \cup {a}]
  <2>1. ev.actionsToRemove \cup {a} \subseteq Actions
    BY <1>0, EventFields DEF added
  <2>2. /\ new \in Event /\ new.nodes = ev.nodes /\ new.sortedActions = ev.sortedActions
        /\ new.areActionsSorted = ev.areActionsSorted /\ new.coroDepends = ev.coroDepends
        /\ new.runOnce = ev.runOnce /\ new.inDispatch = ev.inDispatch
        /\ new.actionsToRemove = ev.actionsToRemove \cup {a}
    BY <1>0, <2>1 DEF Event
  <2>3. new = Removed(ev, a)
    BY <1>1 DEF Removed
  <2> HIDE DEF new
  <2>4. ListInv(new)
    BY <1>0, <1>1, <2>2 DEF ListInv, added
  <2>5. EventInv(new)
    BY <1>0, <2>2, <2>4, EventInvFields DEF added
  <2> QED
    BY <2>2, <2>3, <2>5, SameList DEF InOrder
<1>2. CASE ~ev.inDispatch
  <2>1. CASE ev.sortedActions = None
    BY <1>2, <2>1, SameList DEF Removed
  <2>2. CASE ev.sortedActions # None
    <3>1. Removed(ev, a) = Without(ev, {a})
      BY <1>2, <2>2 DEF Removed
    <3> QED
      BY <1>0, <1>2, <2>2, <3>1, WithoutEvent, EventFields DEF Extends, EventInv
  <2> QED
    BY <2>1, <2>2
<1> QED
  BY <1>1, <1>2

\* setActionOrder
LEMMA ReorderedEvent ==
  ASSUME NEW ev, EventInv(ev),
         NEW edges \in [added(ev) -> SUBSET Actions],
         NEW depends \in [added(ev) -> SUBSET CoroutineActions],
         NEW stays \in BOOLEAN, stays => ev.areActionsSorted,
         NEW new,
         new = [ev EXCEPT !.nodes = edges, !.coroDepends = depends, !.areActionsSorted = stays]
  PROVE  EventInv(new) /\ Extends(ev, new) /\ (~stays => InOrder(new))
<1>0. ev \in Event /\ ListInv(ev)
  BY DEF EventInv
<1>1. edges \in Sets(Actions) /\ depends \in Sets(CoroutineActions)
  BY <1>0, EventFields, SetsMember DEF added
<1>2. /\ new \in Event /\ new.nodes = edges /\ new.sortedActions = ev.sortedActions
      /\ new.areActionsSorted = stays /\ new.coroDepends = depends
      /\ new.runOnce = ev.runOnce /\ new.inDispatch = ev.inDispatch
      /\ new.actionsToRemove = ev.actionsToRemove
  BY <1>0, <1>1 DEF Event
<1>3. added(new) = added(ev) /\ DOMAIN new.coroDepends = added(new)
  BY <1>2 DEF added
<1>4. ListInv(new)
  BY <1>0, <1>2, <1>3 DEF ListInv
<1>5. EventInv(new)
  BY <1>0, <1>2, <1>3, <1>4, EventInvFields
<1> QED
  BY <1>2, <1>5, SameList DEF InOrder

\* The beginning of a dispatch, its turns, and its end
Started(ev) == [ev EXCEPT !.inDispatch = TRUE, !.actionsToRemove = {}]

LEMMA StartedEvent ==
  ASSUME NEW ev, EventInv(ev), ev.sortedActions # None
  PROVE  /\ EventInv(Started(ev)) /\ Started(ev).inDispatch
         /\ Started(ev).sortedActions = ev.sortedActions
         /\ InOrder(ev) => InOrder(Started(ev))
<1> DEFINE new == Started(ev)
<1>0. ev \in Event /\ ListInv(ev)
  BY DEF EventInv
<1>1. /\ new \in Event /\ new.nodes = ev.nodes /\ new.sortedActions = ev.sortedActions
      /\ new.areActionsSorted = ev.areActionsSorted /\ new.coroDepends = ev.coroDepends
      /\ new.runOnce = ev.runOnce /\ new.inDispatch = TRUE /\ new.actionsToRemove = {}
  BY <1>0 DEF Event, Started
<1> HIDE DEF new
<1>2. ListInv(new)
  BY <1>0, <1>1 DEF ListInv, added
<1>3. EventInv(new)
  BY <1>0, <1>1, <1>2, EventInvFields DEF added
<1> QED
  BY <1>1, <1>3 DEF InOrder, new

Turned(ev, A) == [ev EXCEPT !.actionsToRemove = @ \cup A]

LEMMA TurnedEvent ==
  ASSUME NEW ev, EventInv(ev), ev.inDispatch, NEW A \in SUBSET ev.runOnce
  PROVE  /\ EventInv(Turned(ev, A)) /\ Extends(ev, Turned(ev, A))
         /\ InOrder(ev) => InOrder(Turned(ev, A))
<1> DEFINE new == Turned(ev, A)
<1>0. ev \in Event /\ ListInv(ev)
  BY DEF EventInv
<1>1. ev.actionsToRemove \cup A \subseteq Actions
  BY <1>0, EventFields
<1>2. /\ new \in Event /\ new.nodes = ev.nodes /\ new.sortedActions = ev.sortedActions
      /\ new.areActionsSorted = ev.areActionsSorted /\ new.coroDepends = ev.coroDepends
      /\ new.runOnce = ev.runOnce /\ new.inDispatch = ev.inDispatch
      /\ new.actionsToRemove = ev.actionsToRemove \cup A
  BY <1>0, <1>1 DEF Event, Turned
<1> HIDE DEF new
<1>3. ListInv(new)
  BY <1>0, <1>2 DEF ListInv, added
<1>4. EventInv(new)
  BY <1>0, <1>2, <1>3, EventInvFields DEF added
<1> QED
  BY <1>2, <1>4, SameList DEF InOrder, new

LEMMA EndedEvent ==
  ASSUME NEW ev, EventInv(ev), ev.inDispatch, NEW A,
         NEW new,
         new = Without([ev EXCEPT !.inDispatch = FALSE, !.actionsToRemove = {}], A)
  PROVE  /\ EventInv(new) /\ ~new.inDispatch
         /\ InOrder(ev) => InOrder(new)
<1> DEFINE over == [ev EXCEPT !.inDispatch = FALSE, !.actionsToRemove = {}]
<1>0. ev \in Event /\ ListInv(ev)
  BY DEF EventInv
<1>1. /\ over \in Event /\ over.nodes = ev.nodes /\ over.sortedActions = ev.sortedActions
      /\ over.areActionsSorted = ev.areActionsSorted /\ over.coroDepends = ev.coroDepends
      /\ over.runOnce = ev.runOnce /\ over.inDispatch = FALSE /\ over.actionsToRemove = {}
  BY <1>0 DEF Event
<1>2. new = Without(over, A)
  OBVIOUS
<1> HIDE DEF over
<1>3. ListInv(over)
  BY <1>0, <1>1 DEF ListInv, added
<1>4. EventInv(over)
  BY <1>0, <1>1, <1>3, EventInvFields DEF added
<1>5. over.sortedActions # None
  BY <1>0, <1>1 DEF ListInv
<1>6. InOrder(ev) => InOrder(over)
  BY <1>1 DEF InOrder
<1> QED
  BY <1>1, <1>2, <1>4, <1>5, <1>6, WithoutEvent

-----------------------------------------------------------------------------
(* Lemmas about the parts of the invariant *)

\* What a step may do to the events: a list that is being run only grows at its end,
\* and the lists keep their order unless the API is misused.
EventsChange ==
  /\ event' \in [Events -> Event]
  /\ \A e \in Events :
       /\ EventInv(event'[e])
       /\ event[e].inDispatch /\ event'[e].inDispatch
            => IsPrefix(event[e].sortedActions, event'[e].sortedActions)
       /\ Usage = {} /\ InOrder(event[e]) => InOrder(event'[e])

\* In addition, no dispatch begins or ends.
EventsExtend == \A e \in Events : Extends(event[e], event'[e])

LEMMA EventsSame ==
  ASSUME EventsInv, event' = event
  PROVE  EventsChange /\ EventsExtend
<1>1. \A e \in Events : Extends(event[e], event'[e])
  BY SameList DEF EventsInv
<1> QED
  BY <1>1 DEF EventsInv, EventsChange, EventsExtend, Extends

LEMMA EventChanged ==
  ASSUME EventsInv, NEW e \in Events, NEW new, event' = [event EXCEPT ![e] = new],
         EventInv(new), Extends(event[e], new),
         Usage = {} /\ InOrder(event[e]) => InOrder(new)
  PROVE  EventsChange /\ EventsExtend
<1>1. event' \in [Events -> Event] /\ event'[e] = new
      /\ \A d \in Events : d # e => event'[d] = event[d]
  BY DEF EventsInv, EventInv
<1>2. ASSUME NEW d \in Events PROVE Extends(event[d], event'[d])
  <2>1. CASE d = e
    BY <1>1, <2>1
  <2>2. CASE d # e
    BY <1>1, <2>2, SameList DEF EventsInv
  <2> QED
    BY <2>1, <2>2
<1>3. ASSUME NEW d \in Events
      PROVE  EventInv(event'[d]) /\ (Usage = {} /\ InOrder(event[d]) => InOrder(event'[d]))
  BY <1>1 DEF EventsInv
<1> QED
  BY <1>1, <1>2, <1>3 DEF EventsChange, EventsExtend, Extends

LEMMA ChangedEvents == EventsChange => EventsInv'
BY DEF EventsChange, EventsInv

\* The loops are those there were, further on; the rest is other code.
LEMMA FramesKept ==
  ASSUME EventsInv, FramesInv, EventsChange, EventsExtend, frames' \in Seq(Frame),
         \A k \in DOMAIN frames' : frames'[k].kind = "process" => k = 1,
         \A k \in DOMAIN frames' : frames'[k].kind = "dispatch" =>
           /\ k \in DOMAIN frames
           /\ IsLoop(frames[k], frames'[k].event)
           /\ frames'[k].n = frames[k].n /\ frames'[k].i >= frames[k].i,
         \A k \in DOMAIN frames : frames[k].kind = "dispatch" =>
           k \in DOMAIN frames' /\ IsLoop(frames'[k], frames[k].event)
  PROVE  FramesInv'
<1>1. \A e \in Events : event'[e].inDispatch = event[e].inDispatch
  BY DEF EventsExtend, Extends
<1>2. \A e \in Events : event[e].inDispatch =>
        Len(event[e].sortedActions) <= Len(event'[e].sortedActions)
  BY DEF EventsExtend, Extends, IsPrefix
<1>3. ASSUME NEW e \in Events, event[e].inDispatch
      PROVE  Len(event[e].sortedActions) \in Nat /\ Len(event'[e].sortedActions) \in Nat
  <2>1. event[e].sortedActions \in Seq(Actions)
    BY <1>3, EventFields DEF EventsInv, EventInv, ListInv
  <2>2. event'[e].sortedActions \in Seq(Actions)
    BY <1>1, <1>3, EventFields DEF EventsChange, EventInv, ListInv
  <2> QED
    BY <2>1, <2>2
<1>4. ASSUME NEW k \in DOMAIN frames', frames'[k].kind = "dispatch"
      PROVE  /\ frames'[k].event \in Events /\ event'[frames'[k].event].inDispatch
             /\ frames'[k].i >= 1
             /\ frames'[k].n <= Len(event'[frames'[k].event].sortedActions)
  <2> DEFINE e == frames'[k].event
  <2>1. /\ k \in DOMAIN frames /\ frames[k].kind = "dispatch" /\ frames[k].event = e
        /\ frames'[k].n = frames[k].n /\ frames'[k].i >= frames[k].i
    BY <1>4 DEF IsLoop
  <2>2. /\ e \in Events /\ event[e].inDispatch /\ frames[k].i >= 1
        /\ frames[k].n <= Len(event[e].sortedActions)
    BY <2>1 DEF FramesInv
  <2>3. frames[k].i \in Nat /\ frames'[k].i \in Nat /\ frames[k].n \in Nat
    <3>1. frames[k] \in Frame
      BY <2>1 DEF FramesInv
    <3>2. frames'[k] \in Frame
      BY <1>4
    <3> QED
      BY <3>1, <3>2 DEF Frame
  <2> HIDE DEF e
  <2>4. event'[e].inDispatch
    BY <1>1, <2>2
  <2>5. frames'[k].i >= 1
    BY <2>1, <2>2, <2>3
  <2>6. frames'[k].n <= Len(event'[e].sortedActions)
    BY <1>2, <1>3, <2>1, <2>2, <2>3
  <2> QED
    BY <2>2, <2>4, <2>5, <2>6 DEF e
<1>5. ASSUME NEW k \in DOMAIN frames', NEW l \in DOMAIN frames',
             frames'[k].kind = "dispatch", IsLoop(frames'[l], frames'[k].event)
      PROVE  k = l
  <2>1. k \in DOMAIN frames /\ IsLoop(frames[k], frames'[k].event)
    BY <1>5
  <2>2. l \in DOMAIN frames /\ IsLoop(frames[l], frames'[k].event)
    BY <1>5 DEF IsLoop
  <2> QED
    BY <2>1, <2>2 DEF FramesInv, IsLoop
<1>6. ASSUME NEW e \in Events, event'[e].inDispatch
      PROVE  \E k \in DOMAIN frames' : IsLoop(frames'[k], e)
  <2>1. PICK k \in DOMAIN frames : IsLoop(frames[k], e)
    BY <1>1, <1>6 DEF FramesInv
  <2> QED
    BY <2>1 DEF IsLoop
<1> QED
  BY <1>4, <1>5, <1>6 DEF FramesInv, IsLoop

LEMMA ThreadsKept ==
  ASSUME ThreadsInv, UNCHANGED <<enabled, threadVars>>
  PROVE  ThreadsInv'
BY DEF ThreadsInv, threadVars, WaitsForRunningOnly

LEMMA QueueKept ==
  ASSUME QueueInv, UNCHANGED queueVars
  PROVE  QueueInv'
BY DEF QueueInv, queueVars

LEMMA CountersKept ==
  ASSUME CountersInv, Calling \/ Editing \/ UNCHANGED <<calls, edits>>
  PROVE  CountersInv'
BY EventAssumption DEF CountersInv, Calling, Editing

-----------------------------------------------------------------------------
(* The actions: each keeps the invariant and changes the events as it may       *)

LEMMA InitKept == Init => IInv /\ \A e \in Events : InOrder(event[e])
<1> SUFFICES ASSUME Init PROVE IInv /\ \A e \in Events : InOrder(event[e])
  OBVIOUS
<1>1. ASSUME NEW e \in Events
      PROVE  EventInv(event[e]) /\ ~event[e].inDispatch /\ InOrder(event[e])
  <2> DEFINE list == InitialList[e]
             empty == [a \in Range(list) |-> {}]
             new == NewEvent(list)
  <2>1. list \in Seq(Actions) /\ IsInjective(list) /\ list # None
    BY EventAssumption
  <2>2. Range(list) \subseteq Actions /\ IsFiniteSet(Range(list))
    BY <2>1, InjectiveLength DEF Range
  <2>3. empty \in Sets(Actions) /\ empty \in Sets(CoroutineActions)
    BY <2>2, SetsMember
  <2>4. event[e] = new
    BY DEF Init
  <2>5. /\ new \in Event /\ new.nodes = empty /\ new.sortedActions = list
        /\ new.areActionsSorted = TRUE /\ new.coroDepends = empty
        /\ new.runOnce = {} /\ new.inDispatch = FALSE /\ new.actionsToRemove = {}
    <3> HIDE DEF list
    <3> QED
      BY <2>1, <2>3 DEF Event, NewEvent
  <2>6. DOMAIN empty = Range(list) /\ \A a \in Range(list) : empty[a] = {}
    OBVIOUS
  <2>7. \A k \in DOMAIN list : list[k] \in Range(list)
    BY DEF Range
  <2> HIDE DEF new, list, empty
  <2>8. ListInv(new)
    BY <2>1, <2>2, <2>5, <2>6 DEF ListInv, added
  <2>9. EventInv(new)
    BY <2>5, <2>6, <2>8, EventInvFields DEF added
  <2>10. InOrder(new)
    BY <2>5, <2>6, <2>7 DEF InOrder
  <2> QED
    BY <2>4, <2>5, <2>9, <2>10
<1>2. EventsInv
  <2>1. event = [e \in Events |-> NewEvent(InitialList[e])]
    BY DEF Init
  <2> QED
    BY <1>1, <2>1 DEF EventsInv, EventInv
<1>3. FramesInv
  BY <1>1 DEF Init, FramesInv
<1>4. ThreadsInv
  BY DEF Init, ThreadsInv, WaitsForRunningOnly
<1>5. QueueInv /\ CountersInv
  <2>1. DOMAIN dispatchQueue = {} /\ queueMin = 1 /\ queueMax = 0 /\ scheduled = FALSE
    BY DEF Init
  <2>2. calls = 0 /\ edits = 0
    BY DEF Init
  <2>3. MaxQueued \in Nat /\ MaxCalls \in Nat /\ MaxEdits \in Nat
    BY EventAssumption
  <2>4. QueueInv
    <3>1. queueMin \in 0..MaxQueued + 1 /\ queueMax \in 0..MaxQueued
      BY <2>1, <2>3
    <3> QED
      BY <2>1, <3>1, Zenon DEF QueueInv
  <2> QED
    BY <2>2, <2>3, <2>4 DEF CountersInv
<1> QED
  BY <1>1, <1>2, <1>3, <1>4, <1>5 DEF IInv

LEMMA EditKept ==
  ASSUME IInv, EventsChange, EventsExtend,
         Editing \/ Calling \/ UNCHANGED <<calls, edits>>,
         UNCHANGED <<enabled, threadVars, frames, queueVars>>
  PROVE  IInv'
<1>1. FramesInv'
  <2>1. \A k \in DOMAIN frames : frames[k] \in Frame
    BY DEF IInv, FramesInv
  <2>2. \A k \in DOMAIN frames : frames[k].i >= frames[k].i
    BY <2>1 DEF Frame
  <2> QED
    BY <2>2, FramesKept DEF IInv, FramesInv, IsLoop
<1> QED
  BY <1>1, ChangedEvents, ThreadsKept, QueueKept, CountersKept DEF IInv

LEMMA AddActionKept ==
  ASSUME AddedOnce, IInv, NEW e \in Edited, NEW a \in Actions, NEW once \in BOOLEAN,
         addAction(e, a, once)
  PROVE  IInv' /\ EventsChange
<1> DEFINE ev == event[e]
           ones == IF once THEN ev.runOnce \cup {a} ELSE ev.runOnce
           new == [ev EXCEPT !.nodes = Put(@, a, {}), !.coroDepends = Put(@, a, {}),
                             !.sortedActions = Listed(ev, a), !.runOnce = ones]
<1>1. e \in Events /\ EventsInv /\ EventInv(ev) /\ a \in Actions \ added(ev)
  BY EventAssumption DEF IInv, EventsInv, addAction, AddedOnce
<1>2. event' = [event EXCEPT ![e] = new]
  BY <1>1 DEF addAction, EventsInv, EventInv, Event
<1>3. Usage = {} => \A b \in added(ev) : a \notin ev.nodes[b]
  BY DEF addAction
<1>4. ones \in {ev.runOnce, ev.runOnce \cup {a}}
  OBVIOUS
<1> HIDE DEF ev, ones
<1>5. /\ EventInv(new) /\ Extends(ev, new)
      /\ (\A b \in added(ev) : a \notin ev.nodes[b]) /\ InOrder(ev) => InOrder(new)
  BY <1>1, <1>4, AddedEvent
<1> HIDE DEF new
<1>6. EventsChange /\ EventsExtend
  BY <1>1, <1>2, <1>3, <1>5, EventChanged DEF ev
<1> QED
  BY <1>6, EditKept DEF addAction

LEMMA RemoveActionKept ==
  ASSUME IInv, NEW e \in Edited, NEW a \in Actions, removeAction(e, a)
  PROVE  IInv' /\ EventsChange
<1>1. e \in Events /\ EventsInv /\ EventInv(event[e]) /\ a \in added(event[e])
  BY EventAssumption DEF IInv, EventsInv, removeAction
<1>2. event' = [event EXCEPT ![e] = Removed(event[e], a)]
  BY DEF removeAction
<1>3. EventsChange /\ EventsExtend
  BY <1>1, <1>2, RemovedEvent, EventChanged
<1> QED
  BY <1>3, EditKept DEF removeAction

LEMMA GetActionsKept ==
  ASSUME IInv, NEW e \in Edited, getActions(e)
  PROVE  IInv' /\ EventsChange
<1>1. e \in Events /\ EventsInv /\ EventInv(event[e])
  BY EventAssumption DEF IInv, EventsInv
<1>2. PICK new \in Ordered(event[e]) \cup Unordered(event[e]) :
        event' = [event EXCEPT ![e] = new]
  BY DEF getActions
<1>3. EventInv(new) /\ Extends(event[e], new) /\ (InOrder(event[e]) => InOrder(new))
  BY <1>1, OrderedEvent, UnorderedEvent
<1>4. EventsChange /\ EventsExtend
  BY <1>1, <1>2, <1>3, EventChanged
<1> QED
  BY <1>4, EditKept DEF getActions

LEMMA SetActionOrderKept ==
  ASSUME IInv, NEW e \in Edited, NEW anchor \in Actions, NEW others \in SUBSET Actions,
         NEW front \in BOOLEAN, NEW wait \in BOOLEAN,
         setActionOrder(e, anchor, others, front, wait)
  PROVE  IInv' /\ EventsChange
<1> DEFINE ev == event[e]
           later(o)   == IF front THEN o ELSE anchor
           earlier(o) == IF front THEN anchor ELSE o
           waits(o)   == wait /\ earlier(o) \in CoroutineActions
           foreign    == {o \in others : later(o) \notin added(ev)}
           bad        == {o \in others : waits(o) /\ later(o) \notin CoroutineActions}
           before(done, a)   == {earlier(o) : o \in {p \in done : later(p) = a}}
           awaited(done, a) ==
             {earlier(o) : o \in {p \in done \ bad : later(p) = a /\ waits(p)}}
           edges(done)   == [a \in added(ev) |-> ev.nodes[a] \cup before(done, a)]
           depends(done) == [a \in DOMAIN ev.coroDepends |->
                               ev.coroDepends[a] \cup awaited(done, a)]
           stays == ev.areActionsSorted /\ foreign \cup bad # {}
           new(done) == [ev EXCEPT !.nodes = edges(done), !.coroDepends = depends(done),
                                   !.areActionsSorted = stays]
<1>1. e \in Events /\ EventsInv /\ EventInv(ev)
  BY EventAssumption DEF IInv, EventsInv
<1>2. PICK done \in SUBSET others : event' = [event EXCEPT ![e] = new(done)]
  <2>1. PICK done \in SUBSET others : event' = [event EXCEPT
                ![e].nodes = [a \in added(event[e]) |-> @[a] \cup before(done, a)],
                ![e].coroDepends = [a \in DOMAIN @ |-> @[a] \cup awaited(done, a)],
                ![e].areActionsSorted = @ /\ foreign \cup bad # {}]
    BY DEF setActionOrder
  <2> HIDE DEF before, awaited, foreign, bad
  <2>2. event' = [event EXCEPT ![e] = new(done)]
    BY <1>1, <2>1 DEF EventsInv, EventInv, Event
  <2> QED
    BY <2>2
<1>3. foreign \cup bad # {} => Usage # {}
  BY DEF setActionOrder
<1>4. /\ edges(done) \in [added(ev) -> SUBSET Actions]
      /\ depends(done) \in [added(ev) -> SUBSET CoroutineActions]
      /\ stays \in BOOLEAN /\ (stays => ev.areActionsSorted)
  <2>1. ev \in Event /\ DOMAIN ev.coroDepends = added(ev)
    BY <1>1, EventInvFields DEF EventInv
  <2>2. \A a : before(done, a) \subseteq Actions
    OBVIOUS
  <2>3. \A a : awaited(done, a) \subseteq CoroutineActions
    OBVIOUS
  <2> HIDE DEF before, awaited, foreign, bad, ev
  <2> QED
    BY <2>1, <2>2, <2>3, EventFields DEF added
<1> HIDE DEF edges, depends, foreign, bad
<1>5. /\ EventInv(new(done)) /\ Extends(ev, new(done))
      /\ ~stays => InOrder(new(done))
  BY <1>1, <1>4, ReorderedEvent
<1> HIDE DEF new
<1>6. Usage = {} => InOrder(new(done))
  BY <1>3, <1>5
<1> HIDE DEF ev
<1>7. EventsChange /\ EventsExtend
  BY <1>1, <1>2, <1>5, <1>6, EventChanged DEF ev
<1>8. Editing /\ UNCHANGED <<enabled, threadVars, frames, queueVars>>
  BY DEF setActionOrder
<1> QED
  BY <1>7, <1>8, EditKept

LEMMA SetEnabledKept ==
  ASSUME IInv, NEW a \in Disabled, setEnabled(a)
  PROVE  IInv' /\ EventsChange
<1>1. EventsChange /\ EventsExtend
  BY EventsSame DEF IInv, setEnabled
<1>2. ThreadsInv'
  BY EventAssumption DEF IInv, ThreadsInv, WaitsForRunningOnly, setEnabled, threadVars
<1>3. FramesInv' /\ EventsInv'
  BY <1>1, ChangedEvents DEF IInv, FramesInv, setEnabled
<1> QED
  BY <1>1, <1>2, <1>3, QueueKept, CountersKept DEF IInv, setEnabled

\* Whoever waits for a coroutine that has ended does so no more.
LEMMA EndThreadKept ==
  ASSUME ThreadsInv, NEW a \in CoroutineActions, EndThread(a), enabled' = enabled
  PROVE  ThreadsInv'
<1>1. /\ threadOf' \in [CoroutineActions -> {"none", "waiting", "running"}]
      /\ threadOf'[a] = "none"
      /\ \A b \in CoroutineActions : b # a => threadOf'[b] = threadOf[b]
  BY DEF ThreadsInv, EndThread
<1>2. /\ waitsFor' \in [CoroutineActions -> SUBSET CoroutineActions]
      /\ waitsFor'[a] = {}
      /\ \A b \in CoroutineActions : b # a => waitsFor'[b] = waitsFor[b] \ {a}
  BY DEF ThreadsInv, EndThread
<1>3. ASSUME NEW b \in CoroutineActions
      PROVE  /\ \A d \in waitsFor'[b] : threadOf'[d] # "none"
             /\ waitsFor'[b] # {} => threadOf'[b] = "waiting"
  BY <1>1, <1>2 DEF ThreadsInv, WaitsForRunningOnly
<1> QED
  BY <1>1, <1>2, <1>3 DEF ThreadsInv, WaitsForRunningOnly

LEMMA StopCurrentThreadKept ==
  ASSUME IInv, NEW a \in CoroutineActions, stopCurrentThread(a)
  PROVE  IInv' /\ EventsChange
<1>1. EventsChange /\ EventsExtend
  BY EventsSame DEF IInv, stopCurrentThread
<1>2. ThreadsInv'
  BY EndThreadKept DEF IInv, stopCurrentThread
<1>3. FramesInv' /\ EventsInv'
  BY <1>1, ChangedEvents DEF IInv, FramesInv, stopCurrentThread
<1> QED
  BY <1>1, <1>2, <1>3, QueueKept, CountersKept DEF IInv, stopCurrentThread

LEMMA TopFrame ==
  ASSUME FramesInv, NEW kind, Executing(kind)
  PROVE  /\ Len(frames) \in Nat \ {0} /\ DOMAIN frames = 1..Len(frames)
         /\ Top = frames[Len(frames)] /\ Top \in Frame /\ Top.kind = kind
         /\ Front(frames) \in Seq(Frame) /\ DOMAIN Front(frames) = 1..(Len(frames) - 1)
         /\ \A k \in 1..(Len(frames) - 1) : Front(frames)[k] = frames[k]
BY FrontLast DEF FramesInv, Executing, Top

\* A step of other code: it returns, or is called by the main loop.
LEMMA CodePopped ==
  ASSUME IInv, EventsChange, EventsExtend, Executing("code"), frames' = Front(frames)
  PROVE  FramesInv'
<1>1. /\ Len(frames) \in Nat \ {0} /\ DOMAIN frames = 1..Len(frames)
      /\ frames[Len(frames)].kind = "code"
      /\ frames' \in Seq(Frame) /\ DOMAIN frames' = 1..(Len(frames) - 1)
      /\ \A k \in 1..(Len(frames) - 1) : frames'[k] = frames[k]
  BY TopFrame DEF IInv
<1>2. \A k \in DOMAIN frames' : k \in DOMAIN frames /\ frames'[k] = frames[k]
  BY <1>1
<1>3. \A k \in DOMAIN frames : frames[k].kind # "code" => k \in DOMAIN frames'
  BY <1>1
<1>4. \A k \in DOMAIN frames' : frames'[k].i >= frames[k].i
  <2>1. \A k \in DOMAIN frames' : frames[k] \in Frame
    BY <1>2 DEF IInv, FramesInv
  <2> QED
    BY <1>2, <2>1 DEF Frame
<1> QED
  BY <1>1, <1>2, <1>3, <1>4, FramesKept DEF IInv, FramesInv, IsLoop

LEMMA FirstCalled ==
  ASSUME IInv, EventsChange, EventsExtend, frames = <<>>,
         NEW frame \in Frame, frame.kind # "dispatch", frames' = <<frame>>
  PROVE  FramesInv'
<1>1. DOMAIN frames' = {1} /\ frames'[1] = frame /\ frames' \in Seq(Frame)
  OBVIOUS
<1> QED
  BY <1>1, FramesKept DEF IInv

LEMMA CodeFrame ==
  ASSUME NEW x \in CoroutineActions \cup {None}
  PROVE  Code(x) \in Frame /\ Code(x).kind = "code"
BY DEF Code, Frame, FrameKind

LEMMA YieldKept ==
  ASSUME IInv, Yield
  PROVE  IInv' /\ EventsChange
<1>1. EventsChange /\ EventsExtend
  BY EventsSame DEF IInv, Yield
<1>2. FramesInv'
  BY <1>1, CodePopped DEF Yield
<1> QED
  BY <1>1, <1>2, ChangedEvents, ThreadsKept, QueueKept, CountersKept DEF IInv, Yield

LEMMA ReturnKept ==
  ASSUME IInv, Return
  PROVE  IInv' /\ EventsChange
<1>1. EventsChange /\ EventsExtend
  BY EventsSame DEF IInv, Return
<1>2. FramesInv'
  BY <1>1, CodePopped DEF Return
<1>3. ThreadsInv'
  <2>1. Top.thread \in CoroutineActions \cup {None}
    BY TopFrame DEF IInv, Return, Frame
  <2>2. CASE Top.thread = None
    BY <2>2, ThreadsKept DEF IInv, Return
  <2>3. CASE Top.thread # None
    BY <2>1, <2>3, EndThreadKept DEF IInv, Return
  <2> QED
    BY <2>2, <2>3
<1> QED
  BY <1>1, <1>2, <1>3, ChangedEvents, QueueKept, CountersKept DEF IInv, Return

LEMMA ResumeKept ==
  ASSUME IInv, NEW a \in CoroutineActions, Resume(a)
  PROVE  IInv' /\ EventsChange
<1>1. EventsChange /\ EventsExtend
  BY EventsSame DEF IInv, Resume
<1>2. FramesInv'
  BY <1>1, CodeFrame, FirstCalled DEF Resume
<1>3. ThreadsInv'
  <2>1. /\ threadOf' \in [CoroutineActions -> {"none", "waiting", "running"}]
        /\ threadOf'[a] = "running"
        /\ \A b \in CoroutineActions : b # a => threadOf'[b] = threadOf[b]
    BY DEF IInv, ThreadsInv, Resume
  <2> QED
    BY <2>1 DEF IInv, ThreadsInv, WaitsForRunningOnly, Resume
<1> QED
  BY <1>1, <1>2, <1>3, ChangedEvents, QueueKept, CountersKept DEF IInv, Resume

LEMMA OnEventKept ==
  ASSUME IInv, OnEvent
  PROVE  IInv' /\ EventsChange
<1>1. EventsChange /\ EventsExtend
  BY EventsSame DEF IInv, OnEvent
<1>2. FramesInv'
  BY <1>1, CodeFrame, FirstCalled DEF OnEvent
<1> QED
  BY <1>1, <1>2, ChangedEvents, ThreadsKept, QueueKept, CountersKept DEF IInv, OnEvent

LEMMA ProcessQueueKept ==
  ASSUME IInv, ProcessQueue
  PROVE  IInv' /\ EventsChange
<1>1. EventsChange /\ EventsExtend
  BY EventsSame DEF IInv, ProcessQueue
<1>2. FramesInv'
  <2>1. queueMin \in Nat /\ queueMax \in Nat
    BY EventAssumption DEF IInv, QueueInv
  <2>2. Processing(queueMin, queueMax) \in Frame
        /\ Processing(queueMin, queueMax).kind # "dispatch"
    BY <2>1 DEF Processing, Frame, FrameKind
  <2> QED
    BY <1>1, <2>2, FirstCalled DEF ProcessQueue
<1> QED
  BY <1>1, <1>2, ChangedEvents, ThreadsKept, QueueKept, CountersKept DEF IInv, ProcessQueue

\* A loop goes on, and may call other code.
LEMMA TopSet ==
  ASSUME FramesInv, NEW kind, Executing(kind), NEW frame \in Frame
  PROVE  /\ SetTop(frame) \in Seq(Frame) /\ Len(SetTop(frame)) = Len(frames)
         /\ DOMAIN SetTop(frame) = 1..Len(frames)
         /\ SetTop(frame)[Len(frames)] = frame
         /\ \A k \in 1..(Len(frames) - 1) : SetTop(frame)[k] = frames[k]
<1> DEFINE front == Front(frames)
           n == Len(frames)
<1>1. /\ n \in Nat \ {0} /\ front \in Seq(Frame) /\ DOMAIN front = 1..(n - 1)
      /\ \A k \in 1..(n - 1) : front[k] = frames[k]
  BY TopFrame
<1> HIDE DEF front, n
<1>2. /\ Len(front) = n - 1
  BY <1>1
<1>3. /\ Append(front, frame) \in Seq(Frame) /\ Len(Append(front, frame)) = n
      /\ DOMAIN Append(front, frame) = 1..n /\ Append(front, frame)[n] = frame
      /\ \A k \in 1..(n - 1) : Append(front, frame)[k] = front[k]
  BY <1>1, <1>2, Appended
<1> QED
  BY <1>1, <1>3 DEF SetTop, front, n

LEMMA LoopGoesOn ==
  ASSUME IInv, EventsChange, EventsExtend, Executing("dispatch"),
         NEW frame \in Frame, IsLoop(frame, Top.event), frame.n = Top.n, frame.i >= Top.i,
         NEW code \in Frame, code.kind = "code",
         frames' \in {SetTop(frame), Append(SetTop(frame), code)}
  PROVE  FramesInv'
<1> DEFINE n == Len(frames)
<1>1. /\ n \in Nat \ {0} /\ DOMAIN frames = 1..n
      /\ Top = frames[n] /\ frames[n].kind = "dispatch"
  BY TopFrame DEF IInv
<1>2. /\ SetTop(frame) \in Seq(Frame) /\ DOMAIN SetTop(frame) = 1..n
      /\ Len(SetTop(frame)) = n /\ SetTop(frame)[n] = frame
      /\ \A k \in 1..(n - 1) : SetTop(frame)[k] = frames[k]
  BY TopSet DEF IInv
<1> HIDE DEF n
<1>3. /\ Append(SetTop(frame), code) \in Seq(Frame)
      /\ DOMAIN Append(SetTop(frame), code) = 1..(n + 1)
      /\ Append(SetTop(frame), code)[n + 1] = code
      /\ \A k \in 1..n : Append(SetTop(frame), code)[k] = SetTop(frame)[k]
  BY <1>2, Appended
<1>4. /\ frames' \in Seq(Frame) /\ DOMAIN frames' \in {1..n, 1..(n + 1)}
      /\ \A k \in 1..n : frames'[k] = SetTop(frame)[k]
      /\ \A k \in DOMAIN frames' : k \notin 1..n => frames'[k].kind = "code"
  <2>1. CASE frames' = SetTop(frame)
    BY <1>2, <2>1
  <2>2. CASE frames' = Append(SetTop(frame), code)
    BY <1>1, <1>3, <2>2
  <2> QED
    BY <2>1, <2>2
<1>5. ASSUME NEW k \in 1..n
      PROVE  /\ k \in DOMAIN frames /\ k \in DOMAIN frames'
             /\ frames'[k].kind = frames[k].kind
             /\ frames[k].kind = "dispatch" => frames'[k].event = frames[k].event
             /\ frames'[k].n = frames[k].n /\ frames'[k].i >= frames[k].i
  <2>1. k \in DOMAIN frames /\ k \in DOMAIN frames'
    BY <1>1, <1>4
  <2>2. CASE k = n
    BY <1>1, <1>2, <1>4, <2>1, <2>2 DEF IsLoop
  <2>3. CASE k # n
    <3>1. frames'[k] = frames[k] /\ frames[k] \in Frame
      BY <1>1, <1>2, <1>4, <2>1, <2>3 DEF IInv, FramesInv
    <3> QED
      BY <2>1, <3>1 DEF Frame
  <2> QED
    BY <2>2, <2>3
<1>6. \A k \in DOMAIN frames' : frames'[k].kind = "process" => k = 1
  BY <1>4, <1>5 DEF IInv, FramesInv
<1>7. ASSUME NEW k \in DOMAIN frames', frames'[k].kind = "dispatch"
      PROVE  /\ k \in DOMAIN frames
             /\ IsLoop(frames[k], frames'[k].event)
             /\ frames'[k].n = frames[k].n /\ frames'[k].i >= frames[k].i
  BY <1>4, <1>5, <1>7 DEF IsLoop
<1>8. ASSUME NEW k \in DOMAIN frames, frames[k].kind = "dispatch"
      PROVE  k \in DOMAIN frames' /\ IsLoop(frames'[k], frames[k].event)
  BY <1>1, <1>5, <1>8 DEF IsLoop
<1> QED
  BY <1>4, <1>6, <1>7, <1>8, FramesKept DEF IInv

\* The loop that executes, and the list it is at.
LEMMA TopLoop ==
  ASSUME IInv, Executing("dispatch")
  PROVE  /\ Top \in Frame /\ Top.event \in Events /\ event[Top.event].inDispatch
         /\ EventInv(event[Top.event]) /\ event[Top.event].sortedActions \in Seq(Actions)
         /\ Range(event[Top.event].sortedActions) \subseteq added(event[Top.event])
         /\ Top.i \in Nat /\ Top.n \in Nat /\ Top.i >= 1
         /\ Top.n <= Len(event[Top.event].sortedActions)
<1> DEFINE n == Len(frames)
           e == Top.event
<1>1. /\ n \in Nat \ {0} /\ n \in DOMAIN frames /\ Top = frames[n] /\ Top \in Frame
      /\ frames[n].kind = "dispatch"
  BY TopFrame DEF IInv
<1>2. /\ e \in Events /\ event[e].inDispatch /\ Top.i >= 1
      /\ Top.n <= Len(event[e].sortedActions)
  BY <1>1 DEF IInv, FramesInv
<1>3. EventInv(event[e])
  BY <1>2 DEF IInv, EventsInv
<1>4. event[e].sortedActions \in Seq(Actions)
      /\ Range(event[e].sortedActions) \subseteq added(event[e])
  BY <1>2, <1>3, EventFields DEF EventInv, ListInv
<1> QED
  BY <1>1, <1>2, <1>3, <1>4 DEF Frame

\* The action a loop is at is one the event has.
LEMMA TurnsListed ==
  ASSUME IInv, Executing("dispatch"), Top.i <= Top.n
  PROVE  LET e == Top.event
             a == event[e].sortedActions[Top.i]
         IN  /\ e \in Events /\ EventInv(event[e])
             /\ a \in added(event[e]) /\ a \in Actions /\ a \in DOMAIN event[e].coroDepends
<1> DEFINE e == Top.event
           list == event[e].sortedActions
<1>1. /\ e \in Events /\ EventInv(event[e]) /\ list \in Seq(Actions)
      /\ Range(list) \subseteq added(event[e])
      /\ Top.i \in Nat /\ Top.n \in Nat /\ Top.i >= 1 /\ Top.n <= Len(list)
  BY TopLoop
<1> HIDE DEF list
<1>2. Top.i \in 1..Len(list) /\ DOMAIN list = 1..Len(list)
  BY <1>1
<1>3. list[Top.i] \in Range(list) /\ list[Top.i] \in Actions
  BY <1>1, <1>2 DEF Range
<1>4. DOMAIN event[e].coroDepends = added(event[e])
  BY <1>1, EventInvFields DEF EventInv
<1> QED
  BY <1>1, <1>3, <1>4 DEF list

LEMMA RunActionKept ==
  ASSUME IInv, RunAction
  PROVE  IInv' /\ EventsChange
<1> DEFINE e == Top.event
           a == event[e].sortedActions[Top.i]
           frame == [Top EXCEPT !.action = a]
<1>1. EventsChange /\ EventsExtend
  BY EventsSame DEF IInv, RunAction
<1>2. /\ Executing("dispatch") /\ Top.i <= Top.n
      /\ \/ frames' = SetTop(frame) /\ UNCHANGED threadVars
         \/ /\ a \in CoroutineActions /\ threadOf[a] = "none"
            /\ InitNewThread(e, a, SetTop(frame))
         \/ frames' = Append(SetTop(frame), Code(None)) /\ UNCHANGED threadVars
  <2>1. /\ Executing("dispatch") /\ Top.i <= Top.n
        /\ \/ frames' = SetTop(frame) /\ UNCHANGED threadVars
           \/ /\ a \in CoroutineActions /\ threadOf[a] = "none"
              /\ IF a \in DOMAIN event[e].coroDepends THEN InitNewThread(e, a, SetTop(frame))
                 ELSE TurnFails
           \/ frames' = Append(SetTop(frame), Code(None)) /\ UNCHANGED threadVars
    BY DEF RunAction
  <2>2. a \in DOMAIN event[e].coroDepends
    BY <2>1, TurnsListed
  <2> HIDE DEF a, e, frame
  <2> QED
    BY <2>1, <2>2
<1>3. e \in Events /\ EventInv(event[e]) /\ a \in added(event[e]) /\ a \in Actions
  BY <1>2, TurnsListed
<1>4. /\ frame \in Frame /\ frame.kind = Top.kind /\ frame.event = Top.event
      /\ frame.n = Top.n /\ frame.i = Top.i
  <2>1. Top \in Frame
    BY <1>2, TopLoop
  <2> HIDE DEF a
  <2> QED
    BY <1>3, <2>1 DEF Frame
<1> HIDE DEF a
<1>5. IsLoop(frame, Top.event) /\ frame.i >= Top.i
  <2>1. Top.i \in Nat /\ Top.kind = "dispatch"
    BY <1>2, TopLoop DEF Executing
  <2> QED
    BY <1>4, <2>1 DEF IsLoop
<1>6. FramesInv' /\ ThreadsInv'
  <2>1. CASE frames' \in {SetTop(frame), Append(SetTop(frame), Code(None))}
             /\ UNCHANGED threadVars
    <3>1. FramesInv'
      BY <1>1, <1>2, <1>4, <1>5, <2>1, CodeFrame, LoopGoesOn
    <3> QED
      BY <2>1, <3>1, ThreadsKept DEF IInv, RunAction
  <2>2. CASE /\ a \in CoroutineActions /\ threadOf[a] = "none"
             /\ InitNewThread(e, a, SetTop(frame))
    <3> DEFINE ds == RunningDependencies(e, a)
    <3>1. frames' \in {SetTop(frame), Append(SetTop(frame), Code(a))}
      BY <2>2 DEF InitNewThread
    <3>2. FramesInv'
      BY <1>1, <1>2, <1>4, <1>5, <2>2, <3>1, CodeFrame, LoopGoesOn
    <3>3. ds \subseteq CoroutineActions /\ \A d \in ds : d = a \/ threadOf[d] # "none"
      <4>1. event[e].coroDepends[a] \subseteq CoroutineActions
        BY <1>3, EventInvFields, EventFields DEF EventInv
      <4> QED
        BY <4>1 DEF RunningDependencies
    <3>4. /\ waitsFor' = [waitsFor EXCEPT ![a] = ds]
          /\ threadOf' = [threadOf EXCEPT ![a] = IF ds = {} THEN "running" ELSE "waiting"]
      BY <2>2 DEF InitNewThread
    <3> HIDE DEF ds
    <3>5. /\ threadOf' \in [CoroutineActions -> {"none", "waiting", "running"}]
          /\ waitsFor' \in [CoroutineActions -> SUBSET CoroutineActions]
          /\ waitsFor'[a] = ds /\ (ds # {} => threadOf'[a] = "waiting") /\ threadOf'[a] # "none"
          /\ \A b \in CoroutineActions :
               b # a => threadOf'[b] = threadOf[b] /\ waitsFor'[b] = waitsFor[b]
      BY <2>2, <3>3, <3>4 DEF IInv, ThreadsInv
    <3>6. ASSUME NEW b \in CoroutineActions
          PROVE  /\ \A d \in waitsFor'[b] : threadOf'[d] # "none"
                 /\ waitsFor'[b] # {} => threadOf'[b] = "waiting"
      <4>1. \A d \in CoroutineActions : threadOf[d] # "none" => threadOf'[d] # "none"
        BY <3>5
      <4>2. CASE b = a
        BY <3>3, <3>5, <4>1, <4>2
      <4>3. CASE b # a
        BY <3>5, <4>1, <4>3 DEF IInv, ThreadsInv, WaitsForRunningOnly
      <4> QED
        BY <4>2, <4>3
    <3>7. enabled' = enabled
      BY DEF RunAction
    <3> QED
      BY <3>2, <3>5, <3>6, <3>7 DEF IInv, ThreadsInv, WaitsForRunningOnly
  <2> QED
    BY <1>2, <2>1, <2>2
<1> QED
  BY <1>1, <1>6, ChangedEvents, QueueKept, CountersKept DEF IInv, RunAction

LEMMA NextActionKept ==
  ASSUME IInv, NextAction
  PROVE  IInv' /\ EventsChange
<1> DEFINE e == Top.event
           ones == {Top.action} \cap event[e].runOnce
           new == Turned(event[e], ones)
           frame == [Top EXCEPT !.action = None, !.i = @ + 1]
<1>1. Executing("dispatch") /\ frames' = SetTop(frame)
      /\ event' = [event EXCEPT ![e].actionsToRemove = @ \cup ones]
  BY DEF NextAction
<1>2. e \in Events /\ EventInv(event[e]) /\ event[e].inDispatch
      /\ Top \in Frame /\ Top.i \in Nat /\ Top.kind = "dispatch"
  BY <1>1, TopLoop DEF Executing
<1>3. event' = [event EXCEPT ![e] = new]
  BY <1>1 DEF Turned
<1>4. EventInv(new) /\ Extends(event[e], new) /\ (InOrder(event[e]) => InOrder(new))
  <2>1. ones \in SUBSET event[e].runOnce
    OBVIOUS
  <2> HIDE DEF ones
  <2> QED
    BY <1>2, <2>1, TurnedEvent
<1> HIDE DEF new
<1>5. EventsChange /\ EventsExtend
  BY <1>2, <1>3, <1>4, EventChanged DEF IInv
<1>6. /\ frame \in Frame /\ IsLoop(frame, e) /\ frame.n = Top.n /\ frame.i = Top.i + 1
  <2>1. Top.i + 1 \in Nat
    BY <1>2
  <2>2. /\ frame \in Frame /\ frame.kind = Top.kind /\ frame.event = e
        /\ frame.n = Top.n /\ frame.i = Top.i + 1
    BY <1>2, <2>1 DEF Frame
  <2> QED
    BY <1>2, <2>2 DEF IsLoop
<1>7. FramesInv'
  <2>1. frame.i >= Top.i
    BY <1>2, <1>6
  <2> QED
    BY <1>1, <1>5, <1>6, <2>1, CodeFrame, LoopGoesOn
<1> QED
  BY <1>5, <1>7, ChangedEvents, ThreadsKept, QueueKept, CountersKept DEF IInv, NextAction

\* The end of a loop: no other one is over the same event.
LEMMA EndDispatchKept ==
  ASSUME IInv, EndDispatch
  PROVE  IInv' /\ EventsChange
<1> DEFINE e == Top.event
           new == Without([event[e] EXCEPT !.inDispatch = FALSE, !.actionsToRemove = {}],
                          event[e].actionsToRemove)
           n == Len(frames)
<1>1. Executing("dispatch") /\ frames' = Front(frames)
      /\ event' = [event EXCEPT ![e] = new]
  BY DEF EndDispatch
<1>2. e \in Events /\ EventInv(event[e]) /\ event[e].inDispatch
  BY <1>1, TopLoop
<1>3. EventInv(new) /\ ~new.inDispatch /\ (InOrder(event[e]) => InOrder(new))
  BY <1>2, EndedEvent
<1> HIDE DEF new
<1>4. event' \in [Events -> Event] /\ event'[e] = new
      /\ \A d \in Events : d # e => event'[d] = event[d]
  BY <1>1, <1>2, <1>3 DEF IInv, EventsInv, EventInv
<1>5. EventsChange
  <2> SUFFICES ASSUME NEW d \in Events
               PROVE  /\ EventInv(event'[d])
                      /\ event[d].inDispatch /\ event'[d].inDispatch
                           => IsPrefix(event[d].sortedActions, event'[d].sortedActions)
                      /\ InOrder(event[d]) => InOrder(event'[d])
    BY <1>4 DEF EventsChange
  <2>1. CASE d = e
    BY <1>3, <1>4, <2>1
  <2>2. CASE d # e
    BY <1>4, <2>2, SameList DEF IInv, EventsInv, Extends
  <2> QED
    BY <2>1, <2>2
<1>6. /\ n \in Nat \ {0} /\ DOMAIN frames = 1..n /\ IsLoop(frames[n], e)
      /\ frames' \in Seq(Frame) /\ DOMAIN frames' = 1..(n - 1)
      /\ \A k \in 1..(n - 1) : frames'[k] = frames[k]
  BY <1>1, TopFrame DEF IInv, IsLoop
<1> HIDE DEF e, n
<1>7. ASSUME NEW k \in DOMAIN frames'
      PROVE  /\ k \in DOMAIN frames /\ frames'[k] = frames[k]
             /\ ~IsLoop(frames[k], e)
  <2>1. k \in DOMAIN frames /\ frames'[k] = frames[k] /\ k # n /\ n \in DOMAIN frames
    BY <1>6
  <2> QED
    BY <1>6, <2>1 DEF IInv, FramesInv, IsLoop
<1>8. FramesInv'
  <2>1. ASSUME NEW k \in DOMAIN frames', frames'[k].kind = "dispatch"
        PROVE  /\ frames'[k].event \in Events /\ event'[frames'[k].event].inDispatch
               /\ frames'[k].i >= 1
               /\ frames'[k].n <= Len(event'[frames'[k].event].sortedActions)
    <3>1. frames'[k] = frames[k] /\ k \in DOMAIN frames /\ frames[k].event # e
      BY <1>7, <2>1 DEF IsLoop
    <3>2. frames[k].event \in Events /\ event[frames[k].event].inDispatch
          /\ frames[k].i >= 1 /\ frames[k].n <= Len(event[frames[k].event].sortedActions)
      BY <2>1, <3>1 DEF IInv, FramesInv
    <3> QED
      BY <1>4, <3>1, <3>2
  <2>2. ASSUME NEW d \in Events, event'[d].inDispatch
        PROVE  \E k \in DOMAIN frames' : IsLoop(frames'[k], d)
    <3>1. d # e
      BY <1>3, <1>4, <2>2
    <3>2. PICK k \in DOMAIN frames : IsLoop(frames[k], d)
      BY <1>4, <2>2, <3>1 DEF IInv, FramesInv
    <3>3. k # n
      BY <1>6, <3>1, <3>2 DEF IsLoop
    <3>4. k \in DOMAIN frames'
      BY <1>6, <3>3
    <3> QED
      BY <1>7, <3>2, <3>4
  <2>3. \A k \in DOMAIN frames' : frames'[k].kind = "process" => k = 1
    BY <1>7 DEF IInv, FramesInv
  <2>4. \A k, l \in DOMAIN frames' :
          frames'[k].kind = "dispatch" /\ IsLoop(frames'[l], frames'[k].event) => k = l
    BY <1>7 DEF IInv, FramesInv
  <2> QED
    BY <1>6, <2>1, <2>2, <2>3, <2>4 DEF FramesInv, IsLoop
<1> QED
  BY <1>5, <1>8, ChangedEvents, ThreadsKept, QueueKept, CountersKept DEF IInv, EndDispatch

\* The beginning of a loop, called by what has no loop over the event.
LEMMA StartDispatchKept ==
  ASSUME IInv, NEW e \in Events, ~event[e].inDispatch,
         NEW callers \in Seq(Frame), DOMAIN callers = DOMAIN frames,
         \A k \in DOMAIN frames : callers[k].kind = frames[k].kind,
         \A k \in DOMAIN frames : frames[k].kind = "dispatch" => callers[k] = frames[k],
         StartDispatch(e, callers)
  PROVE  EventsChange /\ FramesInv'
<1>1. PICK ev \in Ordered(event[e]) :
        /\ event' = [event EXCEPT ![e] = [ev EXCEPT !.inDispatch = TRUE, !.actionsToRemove = {}]]
        /\ frames' = Append(callers, Dispatching(e, Len(ev.sortedActions)))
  BY DEF StartDispatch
<1> DEFINE new == Started(ev)
           loop == Dispatching(e, Len(ev.sortedActions))
           n == Len(callers) + 1
<1>2. EventInv(event[e])
  BY DEF IInv, EventsInv
<1>3. EventInv(ev) /\ ev.areActionsSorted /\ (InOrder(event[e]) => InOrder(ev))
  BY <1>1, <1>2, OrderedEvent
<1>4. ev.sortedActions # None /\ ev.sortedActions \in Seq(Actions)
  BY <1>3, EventFields DEF EventInv, ListInv
<1>5. /\ EventInv(new) /\ new.inDispatch /\ new.sortedActions = ev.sortedActions
      /\ InOrder(event[e]) => InOrder(new)
  BY <1>3, <1>4, StartedEvent
<1> HIDE DEF new
<1>6. event' \in [Events -> Event] /\ event'[e] = new
      /\ \A d \in Events : d # e => event'[d] = event[d]
  BY <1>1, <1>5 DEF IInv, EventsInv, EventInv, new, Started
<1>7. EventsChange
  <2> SUFFICES ASSUME NEW d \in Events
               PROVE  /\ EventInv(event'[d])
                      /\ event[d].inDispatch /\ event'[d].inDispatch
                           => IsPrefix(event[d].sortedActions, event'[d].sortedActions)
                      /\ InOrder(event[d]) => InOrder(event'[d])
    BY <1>6 DEF EventsChange
  <2>1. CASE d = e
    BY <1>5, <1>6, <2>1
  <2>2. CASE d # e
    BY <1>6, <2>2, SameList DEF IInv, EventsInv, Extends
  <2> QED
    BY <2>1, <2>2
<1>8. /\ loop \in Frame /\ IsLoop(loop, e) /\ loop.i = 1
      /\ loop.n = Len(new.sortedActions) /\ Len(new.sortedActions) \in Nat
  <2>1. Len(ev.sortedActions) \in Nat
    BY <1>4
  <2> QED
    BY <1>5, <2>1 DEF Dispatching, Frame, FrameKind, IsLoop
<1> HIDE DEF loop
<1>9. /\ frames' \in Seq(Frame) /\ DOMAIN frames = 1..(n - 1) /\ DOMAIN frames' = 1..n
      /\ n \in Nat \ {0} /\ frames'[n] = loop
      /\ \A k \in 1..(n - 1) : frames'[k] = callers[k]
  BY <1>1, <1>8, Appended DEF loop
<1> HIDE DEF n
<1>10. ASSUME NEW k \in DOMAIN frames', k # n
       PROVE  /\ k \in DOMAIN frames /\ frames'[k].kind = frames[k].kind
              /\ frames[k].kind = "dispatch" =>
                   /\ frames'[k] = frames[k] /\ frames[k].event # e
                   /\ frames[k].event \in Events
                   /\ event'[frames[k].event] = event[frames[k].event]
  <2>1. k \in DOMAIN frames /\ frames'[k] = callers[k]
    BY <1>9, <1>10
  <2>2. frames[k].kind = "dispatch" => frames[k].event \in Events /\ event[frames[k].event].inDispatch
    BY <2>1 DEF IInv, FramesInv
  <2> QED
    BY <1>6, <2>1, <2>2
<1>11. FramesInv'
  <2>1. ASSUME NEW k \in DOMAIN frames', frames'[k].kind = "dispatch"
        PROVE  /\ frames'[k].event \in Events /\ event'[frames'[k].event].inDispatch
               /\ frames'[k].i >= 1
               /\ frames'[k].n <= Len(event'[frames'[k].event].sortedActions)
    <3>1. CASE k = n
      BY <1>5, <1>6, <1>8, <1>9, <3>1 DEF IsLoop
    <3>2. CASE k # n
      <4>1. /\ k \in DOMAIN frames /\ frames[k].kind = "dispatch" /\ frames'[k] = frames[k]
            /\ event'[frames[k].event] = event[frames[k].event]
        BY <1>10, <2>1, <3>2
      <4> QED
        BY <4>1 DEF IInv, FramesInv
    <3> QED
      BY <3>1, <3>2
  <2>2. ASSUME NEW d \in Events, event'[d].inDispatch
        PROVE  \E k \in DOMAIN frames' : IsLoop(frames'[k], d)
    <3>1. CASE d = e
      <4>1. n \in DOMAIN frames' /\ frames'[n] = loop
        BY <1>9
      <4> QED
        BY <1>8, <3>1, <4>1
    <3>2. CASE d # e
      <4>1. PICK k \in DOMAIN frames : IsLoop(frames[k], d)
        BY <1>6, <2>2, <3>2 DEF IInv, FramesInv
      <4>2. k \in DOMAIN frames' /\ frames'[k] = frames[k]
        BY <1>9, <4>1 DEF IsLoop
      <4> QED
        BY <4>1, <4>2
    <3> QED
      BY <3>1, <3>2
  <2>3. ASSUME NEW k \in DOMAIN frames', frames'[k].kind = "process" PROVE k = 1
    <3>1. k # n
      BY <1>8, <1>9, <2>3 DEF IsLoop
    <3> QED
      BY <1>10, <2>3, <3>1 DEF IInv, FramesInv
  <2>4. ASSUME NEW k \in DOMAIN frames', NEW l \in DOMAIN frames',
               frames'[k].kind = "dispatch", IsLoop(frames'[l], frames'[k].event)
        PROVE  k = l
    <3>1. CASE k # n /\ l # n
      BY <1>10, <2>4, <3>1 DEF IInv, FramesInv, IsLoop
    <3>2. CASE k = n /\ l # n
      BY <1>8, <1>9, <1>10, <2>4, <3>2 DEF IsLoop
    <3>3. CASE k # n /\ l = n
      BY <1>8, <1>9, <1>10, <2>4, <3>3 DEF IsLoop
    <3> QED
      BY <3>1, <3>2, <3>3
  <2> QED
    BY <1>9, <2>1, <2>2, <2>3, <2>4 DEF FramesInv, IsLoop
<1> QED
  BY <1>7, <1>11

LEMMA DispatchFailsKept ==
  ASSUME IInv, NEW e \in Events, DispatchFails(e)
  PROVE  EventsChange /\ EventsExtend
<1>1. EventInv(event[e])
  BY DEF IInv, EventsInv
<1>2. PICK ev \in Unordered(event[e]) : event' = [event EXCEPT ![e] = ev]
  BY DEF DispatchFails
<1> QED
  BY <1>1, <1>2, UnorderedEvent, EventChanged DEF IInv

LEMMA EnqueueKept ==
  ASSUME QueueInv, NEW e \in Events, queueMax < MaxQueued, Enqueue(e)
  PROVE  QueueInv'
<1>1. MaxQueued \in Nat /\ queueMax \in Nat /\ queueMax + 1 \in 1..MaxQueued
  BY EventAssumption DEF QueueInv
<1>2. /\ DOMAIN dispatchQueue' = DOMAIN dispatchQueue \cup {queueMax + 1}
      /\ \A i \in DOMAIN dispatchQueue' :
           dispatchQueue'[i] = IF i = queueMax + 1 THEN e ELSE dispatchQueue[i]
  BY DEF Enqueue, Put
<1>3. /\ DOMAIN dispatchQueue' \subseteq 1..MaxQueued
      /\ \A i \in DOMAIN dispatchQueue' : dispatchQueue'[i] \in Events
  BY <1>1, <1>2 DEF QueueInv
<1>4. queueMin' \in 0..MaxQueued + 1 /\ queueMax' \in 0..MaxQueued
  BY <1>1 DEF QueueInv, Enqueue
<1>5. scheduled' \in BOOLEAN
  BY DEF QueueInv, Enqueue
<1> QED
  BY <1>3, <1>4, <1>5 DEF QueueInv

LEMMA TriggerKept ==
  ASSUME IInv, NEW e \in Events, trigger(e)
  PROVE  IInv' /\ EventsChange
<1>1. Calling /\ UNCHANGED <<enabled, threadVars>>
  BY DEF trigger
<1>2. CASE Enqueues(event[e]) /\ queueMax < MaxQueued /\ Enqueue(e) /\ UNCHANGED <<event, frames>>
  <2>1. EventsChange
    BY <1>2, EventsSame DEF IInv
  <2>2. FramesInv' /\ EventsInv'
    BY <1>2, <2>1, ChangedEvents DEF IInv, FramesInv
  <2> QED
    BY <1>1, <1>2, <2>1, <2>2, EnqueueKept, ThreadsKept, CountersKept DEF IInv
<1>3. CASE ~Enqueues(event[e]) /\ StartDispatch(e, frames) /\ UNCHANGED queueVars
  <2>1. EventsChange /\ FramesInv'
    BY <1>3, StartDispatchKept DEF Enqueues, IInv, FramesInv
  <2> QED
    BY <1>1, <1>3, <2>1, ChangedEvents, QueueKept, ThreadsKept, CountersKept DEF IInv
<1>4. CASE ~Enqueues(event[e]) /\ DispatchFails(e) /\ UNCHANGED <<frames, queueVars>>
  <2>1. EventsChange /\ EventsExtend
    BY <1>4, DispatchFailsKept
  <2> QED
    BY <1>1, <1>4, <2>1, EditKept
<1> QED
  BY <1>2, <1>3, <1>4 DEF trigger

\* While the queue is processed by the code on top, nothing is being dispatched.
LEMMA TopProcess ==
  ASSUME IInv, Executing("process")
  PROVE  /\ Len(frames) = 1 /\ DOMAIN frames = {1} /\ frames[1] = Top /\ Top \in Frame
         /\ Top.kind = "process" /\ \A e \in Events : ~event[e].inDispatch
<1>1. /\ Len(frames) \in Nat \ {0} /\ DOMAIN frames = 1..Len(frames)
      /\ Top = frames[Len(frames)] /\ Top \in Frame /\ Top.kind = "process"
  BY TopFrame DEF IInv
<1>2. Len(frames) = 1
  <2>1. Len(frames) \in DOMAIN frames /\ frames[Len(frames)].kind = "process"
    BY <1>1
  <2> QED
    BY <2>1 DEF IInv, FramesInv
<1>3. DOMAIN frames = {1} /\ frames[1].kind = "process"
  BY <1>1, <1>2
<1>4. \A e \in Events : ~event[e].inDispatch
  BY <1>3 DEF IInv, FramesInv, IsLoop
<1> QED
  BY <1>1, <1>2, <1>3, <1>4

LEMMA ProcessGoesOn ==
  ASSUME IInv, Executing("process"), EventsChange, EventsExtend,
         frames' = <<>> \/ \E frame \in Frame : frame.kind = "process" /\ frames' = SetTop(frame)
  PROVE  FramesInv'
<1>1. DOMAIN frames = {1} /\ frames[1].kind = "process" /\ Len(frames) = 1
  BY TopProcess
<1>2. frames' \in Seq(Frame) /\ \A k \in DOMAIN frames' : k = 1 /\ frames'[k].kind = "process"
  <2>1. CASE frames' = <<>>
    BY <2>1
  <2>2. ASSUME NEW frame \in Frame, frame.kind = "process", frames' = SetTop(frame)
        PROVE  frames' \in Seq(Frame) /\ \A k \in DOMAIN frames' : k = 1 /\ frames'[k].kind = "process"
    <3>1. /\ SetTop(frame) \in Seq(Frame) /\ DOMAIN SetTop(frame) = 1..1
          /\ SetTop(frame)[1] = frame
      BY <1>1, TopSet DEF IInv
    <3> QED
      BY <2>2, <3>1
  <2> QED
    BY <2>1, <2>2
<1> QED
  BY <1>1, <1>2, FramesKept DEF IInv

LEMMA ProcessEventKept ==
  ASSUME IInv, ProcessEvent
  PROVE  IInv' /\ EventsChange
<1> DEFINE e == dispatchQueue[Top.i]
           frame == [Top EXCEPT !.event = e]
<1>1. /\ Executing("process") /\ Top.i \in DOMAIN dispatchQueue
      /\ StartDispatch(e, SetTop(frame))
  BY DEF ProcessEvent
<1>2. e \in Events
  BY <1>1 DEF IInv, QueueInv
<1>3. /\ DOMAIN frames = {1} /\ frames[1].kind = "process" /\ ~event[e].inDispatch
      /\ Len(frames) = 1 /\ Top \in Frame /\ Top.kind = "process"
  BY <1>1, <1>2, TopProcess
<1>4. frame \in Frame /\ frame.kind = "process"
  <2> HIDE DEF e
  <2> QED
    BY <1>2, <1>3 DEF Frame
<1> HIDE DEF frame, e
<1>5. /\ SetTop(frame) \in Seq(Frame) /\ DOMAIN SetTop(frame) = DOMAIN frames
      /\ SetTop(frame)[1] = frame
  <2>1. /\ SetTop(frame) \in Seq(Frame) /\ DOMAIN SetTop(frame) = 1..1
        /\ SetTop(frame)[1] = frame
    BY <1>1, <1>3, <1>4, TopSet DEF IInv
  <2> QED
    BY <1>3, <2>1
<1>6. EventsChange /\ FramesInv'
  BY <1>1, <1>2, <1>3, <1>4, <1>5, StartDispatchKept
<1> QED
  BY <1>6, ChangedEvents, ThreadsKept, QueueKept, CountersKept DEF IInv, ProcessEvent

LEMMA ProcessFailsKept ==
  ASSUME IInv, ProcessFails
  PROVE  IInv' /\ EventsChange
<1>1. EventsChange /\ EventsExtend
  <2>1. CASE Top.i \in DOMAIN dispatchQueue
    <3>1. dispatchQueue[Top.i] \in Events /\ DispatchFails(dispatchQueue[Top.i])
      BY <2>1 DEF IInv, QueueInv, ProcessFails
    <3> QED
      BY <3>1, DispatchFailsKept
  <2>2. CASE Top.i \notin DOMAIN dispatchQueue
    BY <2>2, EventsSame DEF IInv, ProcessFails
  <2> QED
    BY <2>1, <2>2
<1>2. FramesInv'
  BY <1>1, ProcessGoesOn DEF ProcessFails
<1> QED
  BY <1>1, <1>2, ChangedEvents, ThreadsKept, QueueKept, CountersKept DEF IInv, ProcessFails

LEMMA EventProcessedKept ==
  ASSUME IInv, EventProcessed
  PROVE  IInv' /\ EventsChange
<1> DEFINE frame == [Top EXCEPT !.event = None, !.i = @ + 1]
<1>1. EventsChange /\ EventsExtend
  BY EventsSame DEF IInv, EventProcessed
<1>2. Executing("process") /\ frames' = SetTop(frame)
  BY DEF EventProcessed
<1>3. frame \in Frame /\ frame.kind = "process"
  <2>1. Top \in Frame /\ Top.kind = "process"
    BY <1>2, TopProcess
  <2>2. Top.i + 1 \in Nat
    BY <2>1 DEF Frame
  <2> QED
    BY <2>1, <2>2 DEF Frame
<1> HIDE DEF frame
<1>4. FramesInv'
  BY <1>1, <1>2, <1>3, ProcessGoesOn
<1>5. QueueInv'
  <2>1. DOMAIN dispatchQueue' \subseteq DOMAIN dispatchQueue
        /\ \A i \in DOMAIN dispatchQueue' : dispatchQueue'[i] = dispatchQueue[i]
    BY DEF EventProcessed
  <2> QED
    BY <2>1 DEF IInv, QueueInv, EventProcessed
<1> QED
  BY <1>1, <1>4, <1>5, ChangedEvents, ThreadsKept, CountersKept DEF IInv, EventProcessed

LEMMA QueueProcessedKept ==
  ASSUME IInv, QueueProcessed
  PROVE  IInv' /\ EventsChange
<1>1. EventsChange /\ EventsExtend
  BY EventsSame DEF IInv, QueueProcessed
<1>2. FramesInv'
  BY <1>1, ProcessGoesOn DEF QueueProcessed
<1>3. QueueInv'
  <2>1. queueMin' \in 0..MaxQueued + 1
    <3>1. MaxQueued \in Nat /\ queueMin' = queueMax /\ queueMax \in 0..MaxQueued
      BY EventAssumption DEF IInv, QueueInv, QueueProcessed
    <3> QED
      BY <3>1
  <2>2. scheduled' \in BOOLEAN
    BY DEF IInv, QueueInv, QueueProcessed
  <2> QED
    BY <2>1, <2>2 DEF IInv, QueueInv, QueueProcessed
<1> QED
  BY <1>1, <1>2, <1>3, ChangedEvents, ThreadsKept, CountersKept DEF IInv, QueueProcessed

-----------------------------------------------------------------------------
(* The theorems *)

LEMMA StepKept ==
  ASSUME AddedOnce, IInv, [Next]_vars
  PROVE  IInv' /\ EventsChange
<1>1. CASE editEvent
  <2>1. PICK e \in Edited :
          \/ \E a \in Actions, once \in BOOLEAN : addAction(e, a, once)
          \/ \E a \in Actions : removeAction(e, a)
          \/ getActions(e)
          \/ \E anchor \in Actions, others \in SUBSET Actions, front \in BOOLEAN, wait \in Waits :
               setActionOrder(e, anchor, others, front, wait)
    BY <1>1 DEF editEvent
  <2>2. Waits \subseteq BOOLEAN
    BY EventAssumption
  <2> QED
    BY <2>1, <2>2, AddActionKept, RemoveActionKept, GetActionsKept, SetActionOrderKept
<1>2. CASE setAnyEnabled \/ stopAnyThread \/ triggerAny \/ resumeAny
  BY <1>2, SetEnabledKept, StopCurrentThreadKept, TriggerKept, ResumeKept
  DEF setAnyEnabled, stopAnyThread, triggerAny, resumeAny
<1>3. CASE Yield \/ Return \/ OnEvent
  BY <1>3, YieldKept, ReturnKept, OnEventKept
<1>4. CASE RunAction \/ NextAction \/ EndDispatch
  BY <1>4, RunActionKept, NextActionKept, EndDispatchKept
<1>5. CASE ProcessQueue \/ ProcessEvent \/ ProcessFails \/ EventProcessed \/ QueueProcessed
  BY <1>5, ProcessQueueKept, ProcessEventKept, ProcessFailsKept, EventProcessedKept,
     QueueProcessedKept
<1>6. CASE UNCHANGED vars
  <2>1. UNCHANGED <<event, enabled, threadVars, frames, queueVars, calls, edits>>
    BY <1>6 DEF vars
  <2>2. EventsChange /\ EventsExtend
    BY <2>1, EventsSame DEF IInv
  <2> QED
    BY <2>1, <2>2, EditKept
<1> QED
  BY <1>1, <1>2, <1>3, <1>4, <1>5, <1>6 DEF Next

LEMMA TypesOfIInv == IInv => TypeOK
<1> SUFFICES ASSUME IInv PROVE TypeOK
  OBVIOUS
<1>1. \A k \in DOMAIN frames :
        /\ frames[k].kind \in FrameKind
        /\ frames[k].thread \in CoroutineActions \cup {None}
        /\ frames[k].event \in Events \cup {None}
        /\ frames[k].action \in Actions \cup {None}
  <2>1. \A k \in DOMAIN frames : frames[k] \in Frame
    BY DEF IInv, FramesInv
  <2> QED
    BY <2>1 DEF Frame
<1> QED
  BY <1>1 DEF IInv, TypeOK, EventsInv, EventInv, ThreadsInv, QueueInv, CountersInv

\* The invariant holds as long as no action is added to an event that has it.
THEOREM Invariance == AddedOnce => (Spec => []IInv)
<1> SUFFICES ASSUME AddedOnce PROVE Spec => []IInv
  OBVIOUS
<1>1. Init => IInv
  BY InitKept
<1>2. IInv /\ [Next]_vars => IInv'
  BY StepKept
<1> QED
  BY <1>1, <1>2, PTL DEF Spec

\* The library's tables stay within their types: what is kept for an action is kept for
\* the actions the event has.
THEOREM TypeCorrect == AddedOnce => (Spec => []TypeOK)
BY Invariance, TypesOfIInv, PTL

\* An event is dispatched by at most one loop at a time, however its actions trigger one
\* another and whatever they do to it, and inDispatch says so.
THEOREM NotReentered == AddedOnce => (Spec => []DispatchNotReentered)
<1>1. IInv => DispatchNotReentered
  <2> SUFFICES ASSUME IInv, NEW e \in Events
               PROVE  Cardinality({k \in DOMAIN frames : IsLoop(frames[k], e)})
                        = IF event[e].inDispatch THEN 1 ELSE 0
    BY DEF DispatchNotReentered, IsLoop
  <2> DEFINE loops == {k \in DOMAIN frames : IsLoop(frames[k], e)}
  <2>1. CASE event[e].inDispatch
    <3>1. PICK k \in DOMAIN frames : IsLoop(frames[k], e)
      BY <2>1 DEF IInv, FramesInv
    <3>2. \A l \in loops : l = k
      BY <3>1 DEF IInv, FramesInv, IsLoop
    <3>3. loops = {k}
      BY <3>1, <3>2
    <3> QED
      BY <2>1, <3>3, FS_Singleton
  <2>2. CASE ~event[e].inDispatch
    <3>1. loops = {}
      BY <2>2 DEF IInv, FramesInv, IsLoop
    <3> QED
      BY <2>2, <3>1, FS_EmptySet
  <2> QED
    BY <2>1, <2>2
<1> QED
  BY <1>1, Invariance, PTL

\* The list that is run and the graph that is edited hold the same actions, each once, as
\* long as no action is added to an event that has it.
THEOREM SameActions == AddedOnce => (Spec => []SortedMatchesNodes)
<1>1. IInv => SortedMatchesNodes
  <2> SUFFICES ASSUME IInv, NEW e \in Events
               PROVE  LET list == event[e].sortedActions IN
                      /\ event[e].areActionsSorted =>
                           /\ list # None
                           /\ Len(list) = Cardinality(added(event[e]))
                           /\ Range(list) = added(event[e])
                      /\ list # None => Range(list) \subseteq added(event[e])
    BY TypesOfIInv DEF SortedMatchesNodes
  <2> DEFINE list == event[e].sortedActions
  <2>1. EventInv(event[e]) /\ ListInv(event[e]) /\ list \in Seq(Actions) \cup {None}
    BY EventFields DEF IInv, EventsInv, EventInv
  <2>2. list # None => Len(list) = Cardinality(Range(list))
    BY <2>1, InjectiveLength DEF ListInv
  <2> QED
    BY <2>1, <2>2 DEF ListInv
<1> QED
  BY <1>1, Invariance, PTL

\* A coroutine only waits for coroutines that have not ended.
THEOREM WaitsCorrect == AddedOnce => (Spec => []WaitsForRunningOnly)
<1>1. IInv => WaitsForRunningOnly
  BY DEF IInv, ThreadsInv
<1> QED
  BY <1>1, Invariance, PTL

\* The list a loop runs through is changed under it at its end only.
THEOREM ListStable == AddedOnce => (Spec => ListStableInDispatch)
<1> SUFFICES ASSUME AddedOnce PROVE Spec => ListStableInDispatch
  OBVIOUS
<1>1. IInv /\ [Next]_vars =>
        [\A e \in Events :
           event[e].inDispatch /\ event'[e].inDispatch
             => IsPrefix(event[e].sortedActions, event'[e].sortedActions)]_vars
  BY StepKept DEF EventsChange
<1> QED
  BY <1>1, Invariance, PTL DEF Spec, ListStableInDispatch

\* A list that counts as sorted has the order that was asked for, unless an action is
\* added again after others were put behind it, or while the event has it, or an order has
\* been asked for that is refused half done: of a function that would have to wait, or of an
\* action that is not on the event.
THEOREM OrderKept == Usage = {} => (Spec => []OrderRespected)
<1> SUFFICES ASSUME Usage = {} PROVE Spec => []OrderRespected
  OBVIOUS
<1>0. AddedOnce
  BY DEF AddedOnce
<1>1. OrderRespected <=> \A e \in Events : InOrder(event[e])
  BY DEF OrderRespected, InOrder
<1>2. Init => OrderRespected
  BY <1>1, InitKept
<1>3. IInv /\ OrderRespected /\ [Next]_vars => OrderRespected'
  <2> SUFFICES ASSUME IInv, OrderRespected, [Next]_vars PROVE OrderRespected'
    OBVIOUS
  <2>1. \A e \in Events : InOrder(event'[e])
    BY <1>0, <1>1, StepKept DEF EventsChange
  <2> QED
    BY <2>1 DEF OrderRespected, InOrder
<1> QED
  BY <1>0, <1>2, <1>3, Invariance, PTL DEF Spec

-----------------------------------------------------------------------------
(* The sort itself (TopologicalSort.tla) is correct for every finite graph     *)

DeadNodes == {k \in DOMAIN nodes : marked[k] = "DEAD"}

\* The stack is a path without repetition through nodes that are being processed.
StackOK ==
  /\ \A i, j \in DOMAIN stack : stack[i].k = stack[j].k => i = j
  /\ \A i \in DOMAIN stack : marked[stack[i].k] = "PROCESSING"
  /\ \A i \in DOMAIN stack : stack[i].todo \subseteq nodes[stack[i].k]
  /\ \A i \in DOMAIN stack : i + 1 \in DOMAIN stack => stack[i + 1].k \in nodes[stack[i].k]

\* As long as no cycle has been found, all that is being processed is on the stack,
\* and what a call has visited is done, but for what the next call is visiting.
VisitedOK ==
  cycle = <<>> =>
    /\ \A k \in DOMAIN nodes :
         marked[k] = "PROCESSING" => \E i \in DOMAIN stack : stack[i].k = k
    /\ \A i \in DOMAIN stack : \A d \in nodes[stack[i].k] \ stack[i].todo :
         /\ d \in DOMAIN nodes
         /\ marked[d] = "DEAD" \/ (i + 1 \in DOMAIN stack /\ d = stack[i + 1].k)

\* The nodes that are done are sorted.
SortedOK ==
  /\ Range(sorted) = DeadNodes
  /\ IsInjective(sorted)
  /\ DependenciesFirst

\* There is no cycle among the nodes that are done.
AcyclicOK ==
  \A K \in SUBSET DeadNodes : K # {} => \E k \in K : nodes[k] \cap K = {}

\* The list of a cycle is a path; until it is closed it ends where the stack does,
\* and leads back to its first node, which is further down the stack.
CycleOK ==
  cycle # <<>> =>
    /\ \A i \in 1..(Len(cycle) - 1) : cycle[i] \in nodes[cycle[i + 1]]
    /\ isCycleComplete => cycle[Len(cycle)] \in nodes[cycle[1]]
    /\ ~isCycleComplete =>
         /\ stack # <<>>
         /\ cycle[Len(cycle)] \in nodes[Innermost.k]
         /\ \E i \in DOMAIN stack : stack[i].k = cycle[1]
         /\ \A i \in 2..Len(cycle) : \A j \in DOMAIN stack : stack[j].k # cycle[i]

OutcomeOK ==
  /\ outcome # "none" => stack = <<>>
  /\ outcome = "sorted" => cycle = <<>> /\ \A k \in DOMAIN nodes : marked[k] # "no"
  /\ outcome = "cycle" => cycle # <<>>

SortInv ==
  SortTypeOK /\ StackOK /\ VisitedOK /\ SortedOK /\ AcyclicOK /\ CycleOK /\ OutcomeOK

-----------------------------------------------------------------------------
(* The stack as a sequence *)

\* Popping keeps the elements below the last one.
LEMMA FrontProperties ==
  ASSUME NEW S, NEW s \in Seq(S), s # <<>>
  PROVE  /\ Front(s) \in Seq(S)
         /\ Len(Front(s)) = Len(s) - 1
         /\ \A i \in 1..(Len(s) - 1) : Front(s)[i] = s[i]
<1> DEFINE n == Len(s) - 1
<1>1. Len(s) \in Nat \ {0} /\ (\A i \in 1..Len(s) : s[i] \in S)
  BY EmptySeq, LenProperties
<1>2. n \in Nat /\ n - 1 + 1 = n /\ (\A i \in 1..n : s[i] \in S)
  BY <1>1
<1>3. Front(s) = SubSeq(s, 1, n)
  BY DEF Front
<1> HIDE DEF n
<1>4. /\ SubSeq(s, 1, n) \in Seq(S)
      /\ Len(SubSeq(s, 1, n)) = IF 1 <= n THEN n - 1 + 1 ELSE 0
      /\ \A i \in 1..(n - 1 + 1) : SubSeq(s, 1, n)[i] = s[1 + i - 1]
  BY <1>2, SubSeqProperties
<1>5. /\ SubSeq(s, 1, n) \in Seq(S)
      /\ Len(SubSeq(s, 1, n)) = n
      /\ \A i \in 1..n : SubSeq(s, 1, n)[i] = s[i]
  BY <1>2, <1>4
<1> QED
  BY <1>3, <1>5 DEF n

\* Replacing the last element keeps the others.
LEMMA ReplaceLastProperties ==
  ASSUME NEW S, NEW s \in Seq(S), s # <<>>, NEW e \in S
  PROVE  /\ Append(Front(s), e) \in Seq(S)
         /\ Len(Append(Front(s), e)) = Len(s)
         /\ \A i \in 1..Len(s) : Append(Front(s), e)[i] = IF i = Len(s) THEN e ELSE s[i]
<1>1. Len(s) \in Nat \ {0}
  BY EmptySeq, LenProperties
<1>2. /\ Front(s) \in Seq(S)
      /\ Len(Front(s)) = Len(s) - 1
      /\ \A i \in 1..(Len(s) - 1) : Front(s)[i] = s[i]
  BY FrontProperties
<1> HIDE DEF Front
<1> QED
  BY <1>1, <1>2, AppendProperties

\* The stack has a top, and its elements are calls for nodes.
LEMMA TopProperties ==
  ASSUME SortTypeOK, stack # <<>>
  PROVE  /\ Len(stack) \in Nat \ {0} /\ Len(stack) \in DOMAIN stack
         /\ DOMAIN stack = 1..Len(stack)
         /\ Innermost = stack[Len(stack)]
         /\ Innermost.k \in DOMAIN nodes /\ Innermost.todo \subseteq Elements
         /\ \A i \in DOMAIN stack :
              stack[i].k \in DOMAIN nodes /\ stack[i].todo \subseteq Elements
<1>1. stack \in Seq(Visit)
  BY DEF SortTypeOK
<1>2. Len(stack) \in Nat \ {0} /\ DOMAIN stack = 1..Len(stack)
  BY <1>1, EmptySeq, LenProperties
<1>3. \A i \in DOMAIN stack : stack[i] \in Visit
  BY <1>1, <1>2, ElementOfSeq
<1>4. Innermost = stack[Len(stack)]
  BY DEF Innermost, Last
<1> QED
  BY <1>2, <1>3, <1>4 DEF Visit

-----------------------------------------------------------------------------
(* The invariant *)

\* It holds at first: nothing is marked.
LEMMA SortInitInv == SortInit => SortInv
<1> SUFFICES ASSUME SortInit PROVE SortInv
  OBVIOUS
<1>1. PICK K \in SUBSET Elements : nodes \in [K -> SUBSET Elements]
  BY DEF SortInit
<1>2. DOMAIN nodes = K
  BY <1>1
<1>3. SortTypeOK
  <2>1. DOMAIN nodes \subseteq Elements /\ nodes \in [DOMAIN nodes -> SUBSET Elements]
    BY <1>1, <1>2
  <2>2. marked \in [DOMAIN nodes -> Mark]
    BY DEF SortInit, Mark
  <2>3. sorted \in Seq(DOMAIN nodes) /\ stack \in Seq(Visit) /\ cycle \in Seq(DOMAIN nodes)
    BY EmptySeq DEF SortInit
  <2> QED
    BY <2>1, <2>2, <2>3 DEF SortInit, SortTypeOK
<1>4. DeadNodes = {} /\ Range(sorted) = {}
  BY DEF SortInit, DeadNodes, Range
<1>5. StackOK /\ VisitedOK
  BY DEF SortInit, StackOK, VisitedOK
<1>6. SortedOK
  BY <1>4 DEF SortInit, SortedOK, IsInjective, DependenciesFirst
<1>7. AcyclicOK
  BY <1>4 DEF AcyclicOK
<1>8. CycleOK /\ OutcomeOK
  BY DEF SortInit, CycleOK, OutcomeOK
<1> QED
  BY <1>3, <1>5, <1>6, <1>7, <1>8 DEF SortInv

\* What is done stays done as long as only other nodes' marks and edges change.
LEMMA DeadUnchanged ==
  ASSUME SortInv, UNCHANGED sorted, DeadNodes' = DeadNodes, DOMAIN nodes' = DOMAIN nodes,
         \A k \in DeadNodes : nodes'[k] = nodes[k]
  PROVE  SortedOK' /\ AcyclicOK'
<1>1. Range(sorted) = DeadNodes /\ IsInjective(sorted) /\ DependenciesFirst
  BY DEF SortInv, SortedOK
<1>2. \A i \in DOMAIN sorted : sorted[i] \in DeadNodes
  BY <1>1 DEF Range
<1>3. DependenciesFirst'
  BY <1>1, <1>2 DEF DependenciesFirst
<1>4. SortedOK'
  BY <1>1, <1>3 DEF SortedOK, Range, IsInjective
<1>5. AcyclicOK'
  BY DEF SortInv, AcyclicOK
<1> QED
  BY <1>4, <1>5

LEMMA VisitNodeInv ==
  ASSUME SortInv, NEW k \in DOMAIN nodes, VisitNode(k)
  PROVE  SortInv'
<1> USE DEF SortInv
<1>1. /\ DOMAIN nodes \subseteq Elements /\ nodes \in [DOMAIN nodes -> SUBSET Elements]
      /\ marked \in [DOMAIN nodes -> Mark]
  BY DEF SortTypeOK
<1>2. marked' = [marked EXCEPT ![k] = "PROCESSING"] /\ marked[k] = "no"
  BY DEF VisitNode
<1>3. /\ Len(stack') = 1 /\ DOMAIN stack' = {1}
      /\ stack'[1].k = k /\ stack'[1].todo = nodes[k]
      /\ stack' \in Seq(Visit)
  BY <1>1 DEF VisitNode, Call, Visit
<1>4. SortTypeOK'
  BY <1>1, <1>2, <1>3 DEF VisitNode, SortTypeOK, Mark, Visit
<1>5. StackOK'
  BY <1>1, <1>2, <1>3 DEF VisitNode, StackOK
<1>6. VisitedOK'
  <2>1. \A j \in DOMAIN nodes : marked[j] # "PROCESSING"
    BY DEF VisitNode, VisitedOK, Searching
  <2> QED BY <1>1, <1>2, <1>3, <2>1 DEF VisitNode, VisitedOK
<1>7. SortedOK' /\ AcyclicOK'
  <2>1. DeadNodes' = DeadNodes
    BY <1>1, <1>2 DEF VisitNode, DeadNodes
  <2> QED BY <2>1, DeadUnchanged DEF VisitNode
<1>8. CycleOK' /\ OutcomeOK'
  BY DEF VisitNode, Searching, CycleOK, OutcomeOK
<1> QED
  BY <1>4, <1>5, <1>6, <1>7, <1>8

\* A call deals with one of its dependencies: the stack keeps its nodes, and the
\* dependency is no longer to be visited by the innermost call.
LEMMA DoneProperties ==
  ASSUME SortTypeOK, stack # <<>>, NEW d
  PROVE  /\ Done(d) \in Seq(Visit)
         /\ Len(Done(d)) = Len(stack)
         /\ \A i \in DOMAIN stack : Done(d)[i].k = stack[i].k
         /\ \A i \in DOMAIN stack :
              Done(d)[i].todo = IF i = Len(stack) THEN stack[i].todo \ {d} ELSE stack[i].todo
<1> DEFINE e == [Innermost EXCEPT !.todo = @ \ {d}]
<1>1. /\ Len(stack) \in DOMAIN stack /\ DOMAIN stack = 1..Len(stack)
      /\ Innermost = stack[Len(stack)]
  BY TopProperties
<1>2. stack \in Seq(Visit) /\ Innermost \in Visit
  BY <1>1, ElementOfSeq DEF SortTypeOK
<1>3. e \in Visit /\ e.k = Innermost.k /\ e.todo = Innermost.todo \ {d}
  BY <1>2 DEF Visit
<1> HIDE DEF e
<1>4. /\ Append(Front(stack), e) \in Seq(Visit)
      /\ Len(Append(Front(stack), e)) = Len(stack)
      /\ \A i \in 1..Len(stack) :
           Append(Front(stack), e)[i] = IF i = Len(stack) THEN e ELSE stack[i]
  BY <1>2, <1>3, ReplaceLastProperties
<1>5. Done(d) = Append(Front(stack), e)
  BY DEF Done, e
<1> HIDE DEF Done, Innermost
<1> QED
  BY <1>1, <1>3, <1>4, <1>5

LEMMA ForeignDependencyInv ==
  ASSUME SortInv, Searching, stack # <<>>, NEW d, d \in Innermost.todo, ForeignDependency(d),
         UNCHANGED <<sorted, outcome>>
  PROVE  SortInv'
<1> USE DEF SortInv
<1>1. /\ DOMAIN nodes \subseteq Elements /\ nodes \in [DOMAIN nodes -> SUBSET Elements]
      /\ marked \in [DOMAIN nodes -> Mark]
  BY DEF SortTypeOK
<1>2. /\ Len(stack) \in DOMAIN stack /\ DOMAIN stack = 1..Len(stack)
      /\ Len(stack) \in Nat \ {0}
      /\ Innermost = stack[Len(stack)] /\ Innermost.k \in DOMAIN nodes
      /\ \A i \in DOMAIN stack : stack[i].k \in DOMAIN nodes
  BY TopProperties
<1>3. /\ nodes' = [nodes EXCEPT ![Innermost.k] = @ \ {d}] /\ d \notin DOMAIN nodes
      /\ UNCHANGED <<marked, cycle, isCycleComplete, sorted, outcome>>
  BY DEF ForeignDependency, DropForeign
<1>4. /\ stack' \in Seq(Visit)
      /\ Len(stack') = Len(stack) /\ DOMAIN stack' = DOMAIN stack
      /\ \A i \in DOMAIN stack : stack'[i].k = stack[i].k
      /\ \A i \in DOMAIN stack :
           stack'[i].todo = IF i = Len(stack) THEN stack[i].todo \ {d} ELSE stack[i].todo
  <2>1. stack' = Done(d)
    BY DEF ForeignDependency
  <2>2. stack' \in Seq(Visit) /\ Len(stack') = Len(stack)
    BY <2>1, DoneProperties
  <2>3. DOMAIN stack' = DOMAIN stack
    BY <1>2, <2>2, LenProperties
  <2> QED BY <2>1, <2>2, <2>3, DoneProperties
<1>5. DOMAIN nodes' = DOMAIN nodes /\ nodes' \in [DOMAIN nodes -> SUBSET Elements]
  BY <1>1, <1>2, <1>3
<1>6. SortTypeOK'
  BY <1>1, <1>3, <1>4, <1>5 DEF SortTypeOK, Visit
<1>7. \A j \in DOMAIN nodes : nodes'[j] = IF j = Innermost.k THEN nodes[j] \ {d} ELSE nodes[j]
  BY <1>1, <1>3
<1>8. StackOK'
  <2>1. ASSUME NEW i \in DOMAIN stack
        PROVE  stack'[i].todo \subseteq nodes'[stack'[i].k]
    <3>1. stack[i].todo \subseteq nodes[stack[i].k] /\ stack'[i].k = stack[i].k
      BY <1>4 DEF StackOK
    <3>2. CASE i = Len(stack)
      BY <1>2, <1>4, <1>7, <3>1, <3>2
    <3>3. CASE i # Len(stack)
      <4>1. stack[i].k # Innermost.k
        BY <1>2, <3>3 DEF StackOK
      <4> QED BY <1>2, <1>4, <1>7, <3>1, <3>3, <4>1
    <3> QED BY <3>2, <3>3
  <2>2. \A i \in DOMAIN stack :
          i + 1 \in DOMAIN stack => stack'[i + 1].k \in nodes'[stack'[i].k]
    BY <1>2, <1>3, <1>4, <1>7 DEF StackOK
  <2> QED BY <1>3, <1>4, <2>1, <2>2 DEF StackOK
<1>9. VisitedOK'
  <2>1. /\ \A j \in DOMAIN nodes :
             marked[j] = "PROCESSING" => \E i \in DOMAIN stack : stack[i].k = j
        /\ \A i \in DOMAIN stack : \A c \in nodes[stack[i].k] \ stack[i].todo :
             /\ c \in DOMAIN nodes
             /\ marked[c] = "DEAD" \/ (i + 1 \in DOMAIN stack /\ c = stack[i + 1].k)
    BY DEF Searching, VisitedOK
  <2>2. ASSUME NEW i \in DOMAIN stack, NEW c \in nodes'[stack'[i].k] \ stack'[i].todo
        PROVE  c \in nodes[stack[i].k] \ stack[i].todo
    <3>1. stack[i].k \in DOMAIN nodes /\ stack'[i].k = stack[i].k
      BY <1>2, <1>4
    <3>2. CASE i = Len(stack)
      BY <1>2, <1>4, <1>7, <3>1, <3>2
    <3>3. CASE i # Len(stack)
      BY <1>2, <1>4, <1>7, <3>1, <3>3
    <3> QED BY <3>2, <3>3
  <2>3. \A i \in DOMAIN stack : \A c \in nodes'[stack'[i].k] \ stack'[i].todo :
          /\ c \in DOMAIN nodes
          /\ marked[c] = "DEAD" \/ (i + 1 \in DOMAIN stack' /\ c = stack'[i + 1].k)
    BY <1>4, <2>1, <2>2
  <2> QED BY <1>3, <1>4, <1>5, <2>1, <2>3 DEF VisitedOK
<1>10. SortedOK' /\ AcyclicOK'
  <2>1. DeadNodes' = DeadNodes
    BY <1>3, <1>5 DEF DeadNodes
  <2>2. Innermost.k \notin DeadNodes
    BY <1>2 DEF StackOK, DeadNodes
  <2>3. \A j \in DeadNodes : nodes'[j] = nodes[j]
    BY <1>7, <2>2 DEF DeadNodes
  <2> QED BY <1>3, <1>5, <2>1, <2>3, DeadUnchanged
<1>11. CycleOK' /\ OutcomeOK'
  BY <1>3 DEF Searching, CycleOK, OutcomeOK
<1> QED
  BY <1>6, <1>8, <1>9, <1>10, <1>11

LEMMA DeadDependencyInv ==
  ASSUME SortInv, Searching, stack # <<>>, NEW d, d \in Innermost.todo, DeadDependency(d),
         UNCHANGED <<sorted, outcome>>
  PROVE  SortInv'
<1> USE DEF SortInv
<1>1. /\ Len(stack) \in DOMAIN stack /\ DOMAIN stack = 1..Len(stack)
      /\ Innermost = stack[Len(stack)]
  BY TopProperties
<1>2. /\ d \in DOMAIN nodes /\ marked[d] = "DEAD"
      /\ UNCHANGED <<nodes, marked, cycle, isCycleComplete, sorted, outcome>>
  BY DEF DeadDependency, IsDead
<1>3. /\ stack' \in Seq(Visit)
      /\ DOMAIN stack' = DOMAIN stack
      /\ \A i \in DOMAIN stack : stack'[i].k = stack[i].k
      /\ \A i \in DOMAIN stack :
           stack'[i].todo = IF i = Len(stack) THEN stack[i].todo \ {d} ELSE stack[i].todo
  <2>1. stack' = Done(d)
    BY DEF DeadDependency
  <2>2. stack' \in Seq(Visit) /\ Len(stack') = Len(stack)
    BY <2>1, DoneProperties
  <2>3. DOMAIN stack' = DOMAIN stack
    BY <1>1, <2>2, LenProperties
  <2> QED BY <2>1, <2>2, <2>3, DoneProperties
<1>4. SortTypeOK'
  BY <1>2, <1>3 DEF SortTypeOK, Visit
<1>5. StackOK'
  BY <1>2, <1>3 DEF StackOK
<1>6. VisitedOK'
  <2>1. /\ \A j \in DOMAIN nodes :
             marked[j] = "PROCESSING" => \E i \in DOMAIN stack : stack[i].k = j
        /\ \A i \in DOMAIN stack : \A c \in nodes[stack[i].k] \ stack[i].todo :
             /\ c \in DOMAIN nodes
             /\ marked[c] = "DEAD" \/ (i + 1 \in DOMAIN stack /\ c = stack[i + 1].k)
    BY DEF Searching, VisitedOK
  <2>2. \A i \in DOMAIN stack : \A c \in nodes[stack[i].k] \ stack'[i].todo :
          c \in nodes[stack[i].k] \ stack[i].todo \/ c = d
    BY <1>3
  <2>3. \A i \in DOMAIN stack : \A c \in nodes'[stack'[i].k] \ stack'[i].todo :
          /\ c \in DOMAIN nodes
          /\ marked[c] = "DEAD" \/ (i + 1 \in DOMAIN stack' /\ c = stack'[i + 1].k)
    BY <1>2, <1>3, <2>1, <2>2
  <2> QED BY <1>2, <1>3, <2>1, <2>3 DEF VisitedOK
<1>7. SortedOK' /\ AcyclicOK'
  BY <1>2, DeadUnchanged DEF DeadNodes
<1>8. CycleOK' /\ OutcomeOK'
  BY <1>2 DEF Searching, CycleOK, OutcomeOK
<1> QED
  BY <1>4, <1>5, <1>6, <1>7, <1>8

LEMMA NewDependencyInv ==
  ASSUME SortInv, Searching, stack # <<>>, NEW d, d \in Innermost.todo, NewDependency(d),
         UNCHANGED <<sorted, outcome>>
  PROVE  SortInv'
<1> DEFINE n == Len(stack)
<1> USE DEF SortInv
<1>1. /\ n \in DOMAIN stack /\ DOMAIN stack = 1..n /\ n \in Nat \ {0}
      /\ Innermost = stack[n] /\ Innermost.k \in DOMAIN nodes
      /\ \A i \in DOMAIN stack : stack[i].k \in DOMAIN nodes
  BY TopProperties
<1>2. /\ DOMAIN nodes \subseteq Elements /\ nodes \in [DOMAIN nodes -> SUBSET Elements]
      /\ marked \in [DOMAIN nodes -> Mark]
  BY DEF SortTypeOK
<1>3. /\ d \in DOMAIN nodes /\ marked[d] = "no"
      /\ marked' = [marked EXCEPT ![d] = "PROCESSING"]
      /\ UNCHANGED <<nodes, cycle, isCycleComplete, sorted, outcome>>
  BY DEF NewDependency
<1>4. /\ stack' \in Seq(Visit)
      /\ DOMAIN stack' = 1..(n + 1)
      /\ \A i \in 1..n : stack'[i].k = stack[i].k
      /\ \A i \in 1..n :
           stack'[i].todo = IF i = n THEN stack[i].todo \ {d} ELSE stack[i].todo
      /\ stack'[n + 1].k = d /\ stack'[n + 1].todo = nodes[d]
  <2>1. stack' = Append(Done(d), Call(d))
    BY DEF NewDependency
  <2>2. Call(d) \in Visit /\ Call(d).k = d /\ Call(d).todo = nodes[d]
    BY <1>2, <1>3 DEF Call, Visit
  <2>3. /\ Done(d) \in Seq(Visit) /\ Len(Done(d)) = n
        /\ \A i \in 1..n : Done(d)[i].k = stack[i].k
        /\ \A i \in 1..n :
             Done(d)[i].todo = IF i = n THEN stack[i].todo \ {d} ELSE stack[i].todo
    BY <1>1, DoneProperties
  <2> HIDE DEF n
  <2>4. /\ Append(Done(d), Call(d)) \in Seq(Visit)
        /\ Len(Append(Done(d), Call(d))) = n + 1
        /\ \A i \in 1..n : Append(Done(d), Call(d))[i] = Done(d)[i]
        /\ Append(Done(d), Call(d))[n + 1] = Call(d)
    BY <2>2, <2>3, AppendProperties
  <2>5. DOMAIN stack' = 1..(n + 1)
    BY <2>1, <2>4, LenProperties
  <2> QED BY <1>1, <2>1, <2>2, <2>3, <2>4, <2>5
<1> HIDE DEF n
<1>5. SortTypeOK'
  BY <1>2, <1>3, <1>4 DEF SortTypeOK, Visit, Mark
<1>6. \A i \in 1..n : stack[i].k # d
  BY <1>1, <1>3 DEF StackOK
<1>7. \A i \in DOMAIN stack' : i \in 1..n \/ i = n + 1
  BY <1>1, <1>4
<1>8. StackOK'
  <2>1. \A i, j \in DOMAIN stack' : stack'[i].k = stack'[j].k => i = j
    BY <1>1, <1>4, <1>6, <1>7 DEF StackOK
  <2>2. \A i \in DOMAIN stack' : marked'[stack'[i].k] = "PROCESSING"
    BY <1>1, <1>2, <1>3, <1>4, <1>6, <1>7 DEF StackOK
  <2>3. \A i \in DOMAIN stack' : stack'[i].todo \subseteq nodes'[stack'[i].k]
    BY <1>1, <1>3, <1>4, <1>7 DEF StackOK
  <2>4. \A i \in DOMAIN stack' :
          i + 1 \in DOMAIN stack' => stack'[i + 1].k \in nodes'[stack'[i].k]
    <3>1. d \in nodes[stack[n].k]
      BY <1>1 DEF StackOK
    <3>2. ASSUME NEW i \in DOMAIN stack', i + 1 \in DOMAIN stack'
          PROVE  stack'[i + 1].k \in nodes'[stack'[i].k]
      <4>1. CASE i = n
        BY <1>1, <1>3, <1>4, <3>1, <4>1
      <4>2. CASE i # n
        <5>1. i \in 1..n /\ i + 1 \in 1..n
          BY <1>1, <1>4, <3>2, <4>2
        <5> QED BY <1>1, <1>3, <1>4, <5>1 DEF StackOK
      <4> QED BY <4>1, <4>2
    <3> QED BY <3>2
  <2> QED BY <2>1, <2>2, <2>3, <2>4 DEF StackOK
<1>9. VisitedOK'
  <2>1. /\ \A j \in DOMAIN nodes :
             marked[j] = "PROCESSING" => \E i \in DOMAIN stack : stack[i].k = j
        /\ \A i \in DOMAIN stack : \A c \in nodes[stack[i].k] \ stack[i].todo :
             /\ c \in DOMAIN nodes
             /\ marked[c] = "DEAD" \/ (i + 1 \in DOMAIN stack /\ c = stack[i + 1].k)
    BY DEF Searching, VisitedOK
  <2>2. \A j \in DOMAIN nodes' :
          marked'[j] = "PROCESSING" => \E i \in DOMAIN stack' : stack'[i].k = j
    <3>1. ASSUME NEW j \in DOMAIN nodes, marked'[j] = "PROCESSING"
          PROVE  \E i \in DOMAIN stack' : stack'[i].k = j
      <4>1. CASE j = d
        <5>1. n + 1 \in DOMAIN stack'
          BY <1>1, <1>4
        <5> QED BY <1>4, <4>1, <5>1
      <4>2. CASE j # d
        <5>1. PICK i \in DOMAIN stack : stack[i].k = j
          BY <1>2, <1>3, <2>1, <3>1, <4>2
        <5>2. i \in DOMAIN stack' /\ stack'[i].k = j
          BY <1>1, <1>4, <5>1
        <5> QED BY <5>2
      <4> QED BY <4>1, <4>2
    <3> QED BY <1>3, <3>1
  <2>3. ASSUME NEW i \in DOMAIN stack', NEW c \in nodes'[stack'[i].k] \ stack'[i].todo
        PROVE  /\ c \in DOMAIN nodes
               /\ marked'[c] = "DEAD" \/ (i + 1 \in DOMAIN stack' /\ c = stack'[i + 1].k)
    <3>1. CASE i = n + 1
      BY <1>3, <1>4, <3>1
    <3>2. CASE i = n
      <4>1. c \in nodes[stack[n].k] \ stack[n].todo \/ c = d
        BY <1>1, <1>3, <1>4, <3>2
      <4>2. CASE c = d
        BY <1>1, <1>3, <1>4, <3>2, <4>2
      <4>3. CASE c \in nodes[stack[n].k] \ stack[n].todo
        <5>1. c \in DOMAIN nodes /\ (marked[c] = "DEAD" \/ n + 1 \in DOMAIN stack)
          BY <1>1, <2>1, <4>3
        <5>2. n + 1 \notin DOMAIN stack
          BY <1>1
        <5> QED BY <1>2, <1>3, <5>1, <5>2
      <4> QED BY <4>1, <4>2, <4>3
    <3>3. CASE i \in 1..(n - 1)
      <4>1. i \in 1..n /\ i + 1 \in 1..n /\ i # n
        BY <1>1, <3>3
      <4>2. c \in nodes[stack[i].k] \ stack[i].todo
        BY <1>1, <1>3, <1>4, <4>1
      <4>3. c \in DOMAIN nodes /\ (marked[c] = "DEAD" \/ c = stack[i + 1].k)
        BY <1>1, <2>1, <4>1, <4>2
      <4>4. i + 1 \in DOMAIN stack' /\ stack'[i + 1].k = stack[i + 1].k
        BY <1>1, <1>4, <4>1
      <4> QED BY <1>2, <1>3, <4>3, <4>4
    <3> QED BY <1>1, <1>4, <3>1, <3>2, <3>3
  <2> QED BY <1>3, <2>2, <2>3 DEF VisitedOK
<1>10. SortedOK' /\ AcyclicOK'
  <2>1. DeadNodes' = DeadNodes
    BY <1>2, <1>3 DEF DeadNodes
  <2> QED BY <1>3, <2>1, DeadUnchanged
<1>11. CycleOK' /\ OutcomeOK'
  BY <1>3 DEF Searching, CycleOK, OutcomeOK
<1> QED
  BY <1>5, <1>8, <1>9, <1>10, <1>11

LEMMA CycleFoundInv ==
  ASSUME SortInv, Searching, stack # <<>>, NEW d, d \in Innermost.todo, CycleFound(d),
         UNCHANGED <<sorted, outcome>>
  PROVE  SortInv'
<1> USE DEF SortInv
<1>1. /\ Len(stack) \in DOMAIN stack
      /\ Innermost = stack[Len(stack)]
  BY TopProperties
<1>2. /\ d \in DOMAIN nodes /\ marked[d] = "PROCESSING"
      /\ cycle' = <<d>> /\ isCycleComplete' = FALSE
      /\ UNCHANGED <<nodes, marked, stack, sorted, outcome>>
  BY DEF CycleFound
<1>3. Len(cycle') = 1 /\ cycle'[1] = d /\ cycle' # <<>> /\ cycle' \in Seq(DOMAIN nodes)
  BY <1>2
<1>4. SortTypeOK'
  BY <1>2, <1>3 DEF SortTypeOK, Visit
<1>5. StackOK' /\ VisitedOK'
  BY <1>2, <1>3 DEF StackOK, VisitedOK
<1>6. SortedOK' /\ AcyclicOK'
  BY <1>2, DeadUnchanged DEF DeadNodes
<1>7. CycleOK'
  <2>1. d \in nodes[Innermost.k]
    BY <1>1 DEF StackOK
  <2>2. \E i \in DOMAIN stack : stack[i].k = d
    BY <1>2 DEF Searching, VisitedOK
  <2>3. Innermost' = Innermost
    BY <1>2 DEF Innermost
  <2> QED BY <1>2, <1>3, <2>1, <2>2, <2>3 DEF CycleOK
<1>8. OutcomeOK'
  BY <1>2 DEF Searching, OutcomeOK
<1> QED
  BY <1>4, <1>5, <1>6, <1>7, <1>8

\* Every kind of dependency leaves the invariant in place.
LEMMA VisitDependencyInv ==
  ASSUME SortInv, NEW d \in Elements, VisitDependency(d)
  PROVE  SortInv'
<1>1. /\ Searching /\ stack # <<>> /\ d \in Innermost.todo
      /\ ForeignDependency(d) \/ DeadDependency(d) \/ NewDependency(d) \/ CycleFound(d)
      /\ UNCHANGED <<sorted, outcome>>
  BY DEF VisitDependency
<1> QED
  BY <1>1, ForeignDependencyInv, DeadDependencyInv, NewDependencyInv, CycleFoundInv

LEMMA LeaveNodeInv ==
  ASSUME SortInv, LeaveNode
  PROVE  SortInv'
<1> DEFINE n == Len(stack)
           x == Innermost.k
<1> USE DEF SortInv
<1>1. stack # <<>> /\ Searching /\ outcome = "none" /\ cycle = <<>>
  BY DEF LeaveNode, Searching
<1>2. /\ n \in DOMAIN stack /\ DOMAIN stack = 1..n /\ n \in Nat \ {0}
      /\ x = stack[n].k /\ stack[n].todo = {} /\ x \in DOMAIN nodes
      /\ \A i \in DOMAIN stack : stack[i].k \in DOMAIN nodes
  BY <1>1, TopProperties DEF LeaveNode
<1>3. /\ marked' = [marked EXCEPT ![x] = "DEAD"]
      /\ sorted' = Append(sorted, x)
      /\ UNCHANGED <<nodes, cycle, isCycleComplete, outcome>>
  BY DEF LeaveNode, Insert
<1>4. /\ stack' \in Seq(Visit)
      /\ DOMAIN stack' = 1..(n - 1)
      /\ \A i \in 1..(n - 1) : stack'[i] = stack[i]
  <2>1. stack \in Seq(Visit) /\ stack' = Front(stack)
    BY DEF SortTypeOK, LeaveNode
  <2>2. stack' \in Seq(Visit) /\ Len(stack') = n - 1 /\ \A i \in 1..(n - 1) : stack'[i] = stack[i]
    BY <1>1, <2>1, FrontProperties
  <2> QED BY <2>2, LenProperties
<1>5. /\ DOMAIN nodes \subseteq Elements /\ nodes \in [DOMAIN nodes -> SUBSET Elements]
      /\ marked \in [DOMAIN nodes -> Mark]
      /\ sorted \in Seq(DOMAIN nodes)
  BY DEF SortTypeOK
<1> HIDE DEF n, x
<1>6. /\ sorted' \in Seq(DOMAIN nodes)
      /\ Len(sorted) \in Nat
      /\ DOMAIN sorted = 1..Len(sorted) /\ DOMAIN sorted' = 1..(Len(sorted) + 1)
      /\ \A i \in DOMAIN sorted : sorted'[i] = sorted[i]
      /\ sorted'[Len(sorted) + 1] = x
  <2>1. /\ sorted' \in Seq(DOMAIN nodes) /\ Len(sorted') = Len(sorted) + 1
        /\ \A i \in 1..Len(sorted) : sorted'[i] = sorted[i]
        /\ sorted'[Len(sorted) + 1] = x
    BY <1>2, <1>3, <1>5, AppendProperties
  <2> QED BY <1>5, <2>1, LenProperties
<1>7. SortTypeOK'
  BY <1>2, <1>3, <1>4, <1>5, <1>6 DEF SortTypeOK, Visit, Mark
<1>8. \A i \in 1..(n - 1) : i \in DOMAIN stack /\ stack[i].k # x
  BY <1>2 DEF StackOK
<1>9. \A j \in DOMAIN nodes : marked'[j] = IF j = x THEN "DEAD" ELSE marked[j]
  BY <1>2, <1>3, <1>5
<1>10. StackOK'
  <2>1. \A i, j \in DOMAIN stack' : stack'[i].k = stack'[j].k => i = j
    BY <1>4, <1>8 DEF StackOK
  <2>2. \A i \in DOMAIN stack' : marked'[stack'[i].k] = "PROCESSING"
    BY <1>2, <1>4, <1>8, <1>9 DEF StackOK
  <2>3. \A i \in DOMAIN stack' : stack'[i].todo \subseteq nodes'[stack'[i].k]
    BY <1>3, <1>4, <1>8 DEF StackOK
  <2>4. \A i \in DOMAIN stack' :
          i + 1 \in DOMAIN stack' => stack'[i + 1].k \in nodes'[stack'[i].k]
    BY <1>3, <1>4, <1>8 DEF StackOK
  <2> QED BY <2>1, <2>2, <2>3, <2>4 DEF StackOK
<1>11. /\ \A j \in DOMAIN nodes :
            marked[j] = "PROCESSING" => \E i \in DOMAIN stack : stack[i].k = j
       /\ \A i \in DOMAIN stack : \A c \in nodes[stack[i].k] \ stack[i].todo :
            /\ c \in DOMAIN nodes
            /\ marked[c] = "DEAD" \/ (i + 1 \in DOMAIN stack /\ c = stack[i + 1].k)
  BY <1>1 DEF VisitedOK
<1>12. VisitedOK'
  <2>1. ASSUME NEW j \in DOMAIN nodes, marked'[j] = "PROCESSING"
        PROVE  \E i \in DOMAIN stack' : stack'[i].k = j
    <3>1. j # x /\ marked[j] = "PROCESSING"
      BY <1>9, <2>1
    <3>2. PICK i \in DOMAIN stack : stack[i].k = j
      BY <1>11, <3>1
    <3>3. i \in 1..(n - 1)
      BY <1>2, <3>1, <3>2
    <3> QED BY <1>4, <3>2, <3>3
  <2>2. ASSUME NEW i \in DOMAIN stack', NEW c \in nodes'[stack'[i].k] \ stack'[i].todo
        PROVE  /\ c \in DOMAIN nodes
               /\ marked'[c] = "DEAD" \/ (i + 1 \in DOMAIN stack' /\ c = stack'[i + 1].k)
    <3>1. /\ i \in DOMAIN stack /\ i \in 1..(n - 1)
          /\ c \in nodes[stack[i].k] \ stack[i].todo
      BY <1>3, <1>4, <1>8
    <3>2. /\ c \in DOMAIN nodes
          /\ marked[c] = "DEAD" \/ (i + 1 \in DOMAIN stack /\ c = stack[i + 1].k)
      BY <1>11, <3>1
    <3>3. CASE marked[c] = "DEAD"
      BY <1>9, <3>2, <3>3
    <3>4. CASE c = x
      BY <1>2, <1>9, <3>4
    <3>5. CASE i + 1 \in DOMAIN stack /\ c = stack[i + 1].k /\ c # x
      <4>1. i + 1 # n
        BY <1>2, <3>5
      <4>2. i + 1 \in 1..(n - 1)
        BY <1>2, <3>1, <3>5, <4>1
      <4> QED BY <1>4, <3>2, <3>5, <4>2
    <3> QED BY <3>2, <3>3, <3>4, <3>5
  <2> QED BY <1>3, <2>1, <2>2 DEF VisitedOK
<1>13. DeadNodes' = DeadNodes \cup {x} /\ x \notin DeadNodes
  <2>1. marked[x] = "PROCESSING"
    BY <1>2 DEF StackOK
  <2> QED BY <1>2, <1>3, <1>9, <2>1 DEF DeadNodes
<1>14. nodes[x] \subseteq DeadNodes
  <2>1. n + 1 \notin DOMAIN stack
    BY <1>2
  <2> QED BY <1>2, <1>11, <2>1 DEF DeadNodes
<1>15. /\ Range(sorted) = DeadNodes /\ IsInjective(sorted) /\ DependenciesFirst
  BY DEF SortedOK
<1>16. SortedOK'
  <2>1. \A i \in DOMAIN sorted' : i \in DOMAIN sorted \/ i = Len(sorted) + 1
    BY <1>6
  <2>2. \A i \in DOMAIN sorted : sorted[i] \in DeadNodes /\ i \in DOMAIN sorted'
    BY <1>6, <1>15 DEF Range
  <2>3. Range(sorted') = DeadNodes'
    <3>1. Range(sorted') \subseteq DeadNodes'
      BY <1>6, <1>13, <2>1, <2>2 DEF Range
    <3>2. ASSUME NEW j \in DeadNodes'
          PROVE  j \in Range(sorted')
      <4>1. CASE j = x
        <5>1. Len(sorted) + 1 \in DOMAIN sorted'
          BY <1>6
        <5> QED BY <1>6, <4>1, <5>1 DEF Range
      <4>2. CASE j \in DeadNodes
        <5>1. PICK i \in DOMAIN sorted : sorted[i] = j
          BY <1>15, <4>2 DEF Range
        <5> QED BY <1>6, <2>2, <5>1 DEF Range
      <4> QED BY <1>13, <3>2, <4>1, <4>2
    <3> QED BY <3>1, <3>2
  <2>4. IsInjective(sorted')
    BY <1>6, <1>13, <1>15, <2>1, <2>2 DEF IsInjective
  <2>5. DependenciesFirst'
    <3>1. ASSUME NEW i \in DOMAIN sorted', NEW d \in nodes[sorted'[i]]
          PROVE  \E j \in DOMAIN sorted' : j < i /\ sorted'[j] = d
      <4>1. CASE i \in DOMAIN sorted
        <5>1. PICK j \in DOMAIN sorted : j < i /\ sorted[j] = d
          BY <1>6, <1>15, <3>1, <4>1 DEF DependenciesFirst
        <5> QED BY <1>6, <2>2, <5>1
      <4>2. CASE i = Len(sorted) + 1
        <5>1. d \in DeadNodes
          BY <1>6, <1>14, <3>1, <4>2
        <5>2. PICK j \in DOMAIN sorted : sorted[j] = d
          BY <1>15, <5>1 DEF Range
        <5>3. j < i
          BY <1>6, <4>2, <5>2
        <5> QED BY <1>6, <2>2, <5>2, <5>3
      <4> QED BY <2>1, <4>1, <4>2
    <3> QED BY <1>3, <3>1 DEF DependenciesFirst
  <2> QED BY <2>3, <2>4, <2>5 DEF SortedOK
<1>17. AcyclicOK'
  <2>1. ASSUME NEW K \in SUBSET DeadNodes', K # {}
        PROVE  \E k \in K : nodes[k] \cap K = {}
    <3>1. CASE K \ {x} = {}
      BY <1>13, <1>14, <2>1, <3>1
    <3>2. CASE K \ {x} # {}
      <4>1. K \ {x} \in SUBSET DeadNodes
        BY <1>13
      <4>2. PICK k \in K \ {x} : nodes[k] \cap (K \ {x}) = {}
        BY <3>2, <4>1 DEF AcyclicOK
      <4>3. x \notin nodes[k]
        <5>1. PICK i \in DOMAIN sorted : sorted[i] = k
          BY <1>15, <4>1, <4>2 DEF Range
        <5>2. nodes[k] \subseteq DeadNodes
          BY <1>15, <5>1 DEF DependenciesFirst, Range
        <5> QED BY <1>13, <5>2
      <4> QED BY <4>2, <4>3
    <3> QED BY <3>1, <3>2
  <2> QED BY <1>3, <2>1 DEF AcyclicOK
<1>18. CycleOK' /\ OutcomeOK'
  BY <1>1, <1>3 DEF CycleOK, OutcomeOK
<1> QED
  BY <1>7, <1>10, <1>12, <1>16, <1>17, <1>18

LEMMA UnwindInv ==
  ASSUME SortInv, Unwind
  PROVE  SortInv'
<1> DEFINE n == Len(stack)
           m == Len(cycle)
           x == Innermost.k
<1> USE DEF SortInv
<1>1. /\ outcome = "none" /\ cycle # <<>> /\ stack # <<>>
      /\ UNCHANGED <<nodes, marked, sorted, outcome>>
  BY DEF Unwind
<1>2. /\ n \in DOMAIN stack /\ DOMAIN stack = 1..n /\ n \in Nat \ {0}
      /\ x = stack[n].k /\ x \in DOMAIN nodes
      /\ \A i \in DOMAIN stack : stack[i].k \in DOMAIN nodes
  BY <1>1, TopProperties
<1>3. cycle \in Seq(DOMAIN nodes) /\ m \in Nat \ {0} /\ DOMAIN cycle = 1..m
  BY <1>1, EmptySeq, LenProperties DEF SortTypeOK
<1>4. /\ stack' \in Seq(Visit)
      /\ Len(stack') = n - 1
      /\ DOMAIN stack' = 1..(n - 1)
      /\ \A i \in 1..(n - 1) : stack'[i] = stack[i]
  <2>1. stack \in Seq(Visit) /\ stack' = Front(stack)
    BY DEF SortTypeOK, Unwind
  <2>2. stack' \in Seq(Visit) /\ Len(stack') = n - 1 /\ \A i \in 1..(n - 1) : stack'[i] = stack[i]
    BY <1>1, <2>1, FrontProperties
  <2> QED BY <2>2, LenProperties
<1>5. /\ DOMAIN nodes \subseteq Elements /\ nodes \in [DOMAIN nodes -> SUBSET Elements]
      /\ marked \in [DOMAIN nodes -> Mark] /\ sorted \in Seq(DOMAIN nodes)
      /\ isCycleComplete \in BOOLEAN
  BY DEF SortTypeOK
<1>6. /\ \A i \in 1..(m - 1) : cycle[i] \in nodes[cycle[i + 1]]
      /\ isCycleComplete => cycle[m] \in nodes[cycle[1]]
      /\ ~isCycleComplete =>
           /\ cycle[m] \in nodes[x]
           /\ \E i \in DOMAIN stack : stack[i].k = cycle[1]
           /\ \A i \in 2..m : \A j \in DOMAIN stack : stack[j].k # cycle[i]
  BY <1>1 DEF CycleOK
<1> HIDE DEF n, m, x
<1>7. StackOK'
  <2>1. \A i \in DOMAIN stack' : i \in DOMAIN stack
    BY <1>2, <1>4
  <2> QED BY <1>1, <1>2, <1>4, <2>1 DEF StackOK
<1>8. SortedOK' /\ AcyclicOK'
  BY <1>1, DeadUnchanged DEF DeadNodes
<1>9. CASE isCycleComplete
  <2>1. UNCHANGED <<cycle, isCycleComplete>>
    BY <1>9 DEF Unwind
  <2>2. SortTypeOK'
    BY <1>1, <1>3, <1>4, <1>5, <2>1 DEF SortTypeOK, Visit
  <2>3. VisitedOK' /\ CycleOK' /\ OutcomeOK'
    BY <1>1, <1>6, <1>9, <2>1 DEF VisitedOK, CycleOK, OutcomeOK, m
  <2> QED BY <1>7, <1>8, <2>2, <2>3
<1>10. CASE ~isCycleComplete /\ ~Grows(x)
  <2>1. isCycleComplete' = TRUE /\ UNCHANGED cycle
    BY <1>10 DEF Unwind, x
  <2>2. PICK i \in 1..m : cycle[i] = x
    BY <1>3, <1>10 DEF Grows, Range
  <2>3. i = 1
    BY <1>2, <1>3, <1>6, <1>10, <2>2
  <2>4. cycle[m] \in nodes[cycle[1]]
    BY <1>6, <1>10, <2>2, <2>3
  <2>5. SortTypeOK'
    BY <1>1, <1>3, <1>4, <1>5, <2>1 DEF SortTypeOK, Visit
  <2>6. VisitedOK' /\ CycleOK' /\ OutcomeOK'
    BY <1>1, <1>6, <2>1, <2>4 DEF VisitedOK, CycleOK, OutcomeOK, m
  <2> QED BY <1>7, <1>8, <2>5, <2>6
<1>11. CASE ~isCycleComplete /\ Grows(x)
  <2>1. cycle' = Append(cycle, x) /\ isCycleComplete' = FALSE
    BY <1>5, <1>11 DEF Unwind, x
  <2>2. /\ cycle' \in Seq(DOMAIN nodes) /\ Len(cycle') = m + 1
        /\ \A i \in 1..m : cycle'[i] = cycle[i]
        /\ cycle'[m + 1] = x
    BY <1>2, <1>3, <2>1, AppendProperties DEF m
  <2>3. SortTypeOK'
    BY <1>1, <1>3, <1>4, <1>5, <2>1, <2>2 DEF SortTypeOK, Visit
  <2>4. cycle' # <<>>
    BY <1>3, <2>2
  <2>5. \A i \in 1..(Len(cycle') - 1) : cycle'[i] \in nodes[cycle'[i + 1]]
    <3>1. ASSUME NEW i \in 1..m
          PROVE  cycle'[i] \in nodes[cycle'[i + 1]]
      <4>1. CASE i = m
        BY <1>3, <1>6, <1>11, <2>2, <4>1
      <4>2. CASE i # m
        <5>1. i \in 1..(m - 1) /\ i + 1 \in 1..m
          BY <1>3, <3>1, <4>2
        <5> QED BY <1>6, <2>2, <5>1
      <4> QED BY <4>1, <4>2
    <3> QED BY <1>3, <2>2, <3>1
  <2>6. PICK i0 \in DOMAIN stack : stack[i0].k = cycle[1]
    BY <1>6, <1>11
  <2>7. i0 # n
    <3>1. cycle[1] \in Range(cycle)
      BY <1>3 DEF Range
    <3> QED BY <1>2, <1>11, <2>6, <3>1 DEF Grows
  <2>8. i0 \in 1..(n - 1) /\ n - 1 \in 1..(n - 1) /\ n - 1 \in 1..n
    BY <1>2, <2>6, <2>7
  <2>9. stack' # <<>> /\ Innermost'.k = stack[n - 1].k
    <3>1. Innermost' = stack'[n - 1]
      BY <1>4 DEF Innermost, Last
    <3> QED BY <1>4, <2>8, <3>1
  <2>10. x \in nodes[Innermost'.k]
    <3>1. stack[(n - 1) + 1].k \in nodes[stack[n - 1].k]
      BY <1>2, <2>8 DEF StackOK
    <3> QED BY <1>2, <2>9, <3>1
  <2>11. \E i \in DOMAIN stack' : stack'[i].k = cycle'[1]
    BY <1>3, <1>4, <2>2, <2>6, <2>8
  <2>12. \A i \in 2..Len(cycle') : \A j \in DOMAIN stack' : stack'[j].k # cycle'[i]
    <3>1. ASSUME NEW i \in 2..(m + 1), NEW j \in 1..(n - 1)
          PROVE  stack'[j].k # cycle'[i]
      <4>1. j \in DOMAIN stack /\ stack'[j].k = stack[j].k /\ j # n
        BY <1>2, <1>4
      <4>2. CASE i = m + 1
        <5>1. stack[j].k # stack[n].k
          BY <1>2, <4>1 DEF StackOK
        <5> QED BY <1>2, <2>2, <4>1, <4>2, <5>1
      <4>3. CASE i # m + 1
        <5>1. i \in 2..m /\ i \in 1..m
          BY <1>3, <3>1, <4>3
        <5> QED BY <1>6, <1>11, <2>2, <4>1, <5>1
      <4> QED BY <4>2, <4>3
    <3> QED BY <1>4, <2>2, <3>1
  <2>13. CycleOK'
    <3>1. cycle'[Len(cycle')] \in nodes'[Innermost'.k]
      BY <1>1, <1>3, <2>2, <2>10
    <3> QED BY <1>1, <2>1, <2>5, <2>9, <2>11, <2>12, <3>1 DEF CycleOK
  <2>14. VisitedOK' /\ OutcomeOK'
    BY <1>1, <2>4 DEF VisitedOK, OutcomeOK
  <2> QED BY <1>7, <1>8, <2>3, <2>13, <2>14
<1> QED
  BY <1>9, <1>10, <1>11

LEMMA SortReturnsInv ==
  ASSUME SortInv, SortReturns
  PROVE  SortInv'
<1> USE DEF SortInv
<1>1. /\ stack = <<>>
      /\ UNCHANGED <<nodes, marked, sorted, stack, cycle, isCycleComplete>>
      /\ \/ cycle # <<>> /\ outcome' = "cycle"
         \/ cycle = <<>> /\ outcome' = "sorted" /\ \A k \in DOMAIN nodes : marked[k] # "no"
  BY DEF SortReturns
<1>2. SortTypeOK'
  BY <1>1 DEF SortTypeOK, Visit
<1>3. StackOK' /\ VisitedOK' /\ CycleOK' /\ OutcomeOK'
  BY <1>1 DEF StackOK, VisitedOK, CycleOK, OutcomeOK, Innermost
<1>4. SortedOK' /\ AcyclicOK'
  BY <1>1, DeadUnchanged DEF DeadNodes
<1> QED
  BY <1>2, <1>3, <1>4

LEMMA SortStutteringInv ==
  ASSUME SortInv, UNCHANGED sortVars
  PROVE  SortInv'
<1>1. UNCHANGED <<nodes, marked, sorted, stack, cycle, isCycleComplete, outcome>>
  BY DEF sortVars
<1>2. SortTypeOK'
  BY <1>1 DEF SortInv, SortTypeOK, Visit
<1>3. StackOK' /\ VisitedOK' /\ OutcomeOK'
  BY <1>1 DEF SortInv, StackOK, VisitedOK, OutcomeOK
<1>4. CycleOK'
  BY <1>1 DEF SortInv, CycleOK, Innermost
<1>5. SortedOK' /\ AcyclicOK'
  BY <1>1, DeadUnchanged DEF DeadNodes
<1> QED
  BY <1>2, <1>3, <1>4, <1>5 DEF SortInv

\* The invariant holds throughout every sort of every graph.
THEOREM SortInvariance == SortSpec => []SortInv
<1>1. SortInv /\ [SortNext]_sortVars => SortInv'
  <2> SUFFICES ASSUME SortInv, [SortNext]_sortVars PROVE SortInv'
    OBVIOUS
  <2>1. ASSUME NEW k \in DOMAIN nodes, VisitNode(k) PROVE SortInv'
    BY <2>1, VisitNodeInv
  <2>2. ASSUME NEW d \in Elements, VisitDependency(d) PROVE SortInv'
    BY <2>2, VisitDependencyInv
  <2>3. CASE LeaveNode
    BY <2>3, LeaveNodeInv
  <2>4. CASE Unwind
    BY <2>4, UnwindInv
  <2>5. CASE SortReturns
    BY <2>5, SortReturnsInv
  <2>6. CASE UNCHANGED sortVars
    BY <2>6, SortStutteringInv
  <2> QED BY <2>1, <2>2, <2>3, <2>4, <2>5, <2>6 DEF SortNext
<1> QED
  BY <1>1, SortInitInv, PTL DEF SortSpec

\* The search's tables stay within their types.
THEOREM SortTypeCorrect == SortSpec => []SortTypeOK
<1>1. SortInv => SortTypeOK
  BY DEF SortInv
<1> QED
  BY <1>1, SortInvariance, PTL

-----------------------------------------------------------------------------
(* What follows from it *)

\* Every node is done when the sort succeeds.
LEMMA SortedIsDone ==
  ASSUME SortInv, outcome = "sorted"
  PROVE  DeadNodes = DOMAIN nodes
<1>1. stack = <<>> /\ cycle = <<>> /\ \A k \in DOMAIN nodes : marked[k] # "no"
  BY DEF SortInv, OutcomeOK
<1>2. \A k \in DOMAIN nodes : marked[k] # "PROCESSING"
  BY <1>1 DEF SortInv, VisitedOK
<1> QED
  BY <1>1, <1>2 DEF SortInv, SortTypeOK, Mark, DeadNodes

\* A sort that succeeds returns every node once, behind everything it depends on.
THEOREM SortCorrect == SortSpec => []SortedTopologically
<1>1. SortInv => SortedTopologically
  BY SortedIsDone DEF SortInv, SortedOK, SortedTopologically
<1> QED
  BY <1>1, SortInvariance, PTL

\* When the search has unwound the cycle is closed.
LEMMA CycleClosed ==
  ASSUME SortInv, outcome = "cycle"
  PROVE  /\ Len(cycle) \in Nat \ {0}
         /\ \A i \in 1..(Len(cycle) - 1) : cycle[i] \in nodes[cycle[i + 1]]
         /\ cycle[Len(cycle)] \in nodes[cycle[1]]
<1>1. stack = <<>> /\ cycle # <<>>
  BY DEF SortInv, OutcomeOK
<1>2. Len(cycle) \in Nat \ {0}
  BY <1>1, EmptySeq, LenProperties DEF SortInv, SortTypeOK
<1> QED
  BY <1>1, <1>2 DEF SortInv, CycleOK, SortTypeOK

\* What a sort that fails calls a cycle is one.
THEOREM CycleCorrect == SortSpec => []CycleIsCycle
<1>1. SortInv => CycleIsCycle
  BY CycleClosed DEF CycleIsCycle
<1> QED
  BY <1>1, SortInvariance, PTL

\* The sort fails exactly if some nodes have all a dependency among themselves.
THEOREM FailureCorrect == SortSpec => []FailsOnCyclesOnly
<1>1. ASSUME SortInv, outcome = "cycle" PROVE Cyclic
  <2> DEFINE K == Range(cycle)
             m == Len(cycle)
  <2>1. /\ m \in Nat \ {0}
        /\ \A i \in 1..(m - 1) : cycle[i] \in nodes[cycle[i + 1]]
        /\ cycle[m] \in nodes[cycle[1]]
    BY <1>1, CycleClosed
  <2>2. cycle \in Seq(DOMAIN nodes) /\ DOMAIN cycle = 1..m
    BY <1>1, LenProperties DEF SortInv, SortTypeOK
  <2> HIDE DEF m
  <2>3. K \subseteq DOMAIN nodes /\ K # {} /\ \A i \in 1..m : cycle[i] \in K
    BY <2>1, <2>2 DEF Range
  <2>4. ASSUME NEW k \in K
        PROVE  nodes[k] \cap K # {}
    <3>1. PICK i \in 1..m : cycle[i] = k
      BY <2>2 DEF Range
    <3>2. CASE i = 1
      BY <2>1, <2>3, <3>1, <3>2
    <3>3. CASE i # 1
      <4>1. i - 1 \in 1..(m - 1) /\ i - 1 \in 1..m /\ (i - 1) + 1 = i
        BY <2>1, <3>3
      <4>2. cycle[i - 1] \in nodes[cycle[(i - 1) + 1]]
        BY <2>1, <4>1
      <4> QED BY <2>3, <3>1, <4>1, <4>2
    <3> QED BY <3>2, <3>3
  <2> QED BY <2>3, <2>4 DEF Cyclic
<1>2. ASSUME SortInv, outcome = "sorted" PROVE ~Cyclic
  BY <1>2, SortedIsDone DEF SortInv, AcyclicOK, Cyclic
<1>3. SortInv => FailsOnCyclesOnly
  BY <1>1, <1>2 DEF FailsOnCyclesOnly, SortInv, SortTypeOK
<1> QED
  BY <1>3, SortInvariance, PTL

\* For every finite graph, a sort that ends has found an order, or there is none.
THEOREM OutcomeCorrect == SortSpec => []OrderOrFailure
<1>1. SortedTopologically /\ FailsOnCyclesOnly => OrderOrFailure
  BY DEF OrderOrFailure
<1> QED
  BY <1>1, SortCorrect, FailureCorrect, PTL

\* The sort forgets a dependency only on what is not a node any more.
THEOREM DropsCorrect == SortSpec => DropsForeignOnly
<1> DEFINE A == \A k \in DOMAIN nodes : nodes[k] \cap DOMAIN nodes \subseteq nodes'[k]
<1>1. SortInv /\ [SortNext]_sortVars => [A]_sortVars
  <2> SUFFICES ASSUME SortInv, SortNext PROVE A
    OBVIOUS
  <2>1. CASE \E d \in Elements : VisitDependency(d)
    <3>1. PICK d \in Elements : VisitDependency(d)
      BY <2>1
    <3>2. CASE ForeignDependency(d)
      <4>1. stack # <<>> /\ d \notin DOMAIN nodes /\ nodes' = [nodes EXCEPT ![Innermost.k] = @ \ {d}]
        BY <3>1, <3>2 DEF VisitDependency, ForeignDependency, DropForeign
      <4>2. Innermost.k \in DOMAIN nodes
        BY <4>1, TopProperties DEF SortInv
      <4> QED BY <4>1, <4>2
    <3>3. CASE UNCHANGED nodes
      BY <3>3
    <3> QED
      BY <3>1, <3>2, <3>3 DEF VisitDependency, DeadDependency, NewDependency, CycleFound
  <2>2. CASE UNCHANGED nodes
    BY <2>2
  <2> QED
    BY <2>1, <2>2 DEF SortNext, VisitNode, LeaveNode, Unwind, SortReturns
<1> HIDE DEF A
<1>2. SortSpec => [][A]_sortVars
  BY <1>1, SortInvariance, PTL DEF SortSpec
<1> QED
  BY <1>2 DEF DropsForeignOnly, A

-----------------------------------------------------------------------------
(* The event library takes the sort for one step: Ordered and Unordered say    *)
(* what it makes of an event's nodes.  The search implements that.             *)

\* The sort returns one of the orders of the graph it was given and has pruned the graph,
\* or there is none and it has dropped nothing but what is no node.
SortMatches(graph) ==
  /\ outcome = "sorted" => sorted \in Orders(graph) /\ nodes = Pruned(graph)
  /\ outcome = "cycle" =>
       /\ Orders(graph) = {}
       /\ DOMAIN nodes = DOMAIN graph
       /\ \A a \in DOMAIN graph : Pruned(graph)[a] \subseteq nodes[a] /\ nodes[a] \subseteq graph[a]

\* What the search has made of the graph so far.
GraphKept(graph) ==
  /\ DOMAIN nodes = DOMAIN graph
  /\ \A k \in DOMAIN graph :
       graph[k] \cap DOMAIN graph \subseteq nodes[k] /\ nodes[k] \subseteq graph[k]

LEMMA GraphKeptStep ==
  ASSUME NEW graph, SortInv, GraphKept(graph), [SortNext]_sortVars
  PROVE  GraphKept(graph)'
<1>1. CASE \E d \in Elements : VisitDependency(d)
  <2>1. PICK d \in Elements : VisitDependency(d)
    BY <1>1
  <2>2. CASE ForeignDependency(d)
    <3>1. stack # <<>> /\ d \notin DOMAIN nodes /\ nodes' = [nodes EXCEPT ![Innermost.k] = @ \ {d}]
      BY <2>1, <2>2 DEF VisitDependency, ForeignDependency, DropForeign
    <3>2. Innermost.k \in DOMAIN nodes
      BY <3>1, TopProperties DEF SortInv
    <3> QED
      BY <3>1, <3>2 DEF GraphKept
  <2>3. CASE UNCHANGED nodes
    BY <2>3 DEF GraphKept
  <2> QED
    BY <2>1, <2>2, <2>3 DEF VisitDependency, DeadDependency, NewDependency, CycleFound
<1>2. CASE UNCHANGED nodes
  BY <1>2 DEF GraphKept
<1> QED
  BY <1>1, <1>2 DEF SortNext, VisitNode, LeaveNode, Unwind, SortReturns, sortVars

\* A graph in which some nodes have all a dependency among themselves has no order: the
\* first of them would have to come behind another one.
LEMMA CyclicUnordered ==
  ASSUME NEW graph, IsFiniteSet(DOMAIN graph),
         NEW K \in SUBSET DOMAIN graph, K # {}, \A k \in K : graph[k] \cap K # {}
  PROVE  Orders(graph) = {}
<1> SUFFICES ASSUME NEW s \in Orders(graph) PROVE FALSE
  OBVIOUS
<1> DEFINE A    == DOMAIN graph \ K
           rest == Remaining(s, A)
<1>1. /\ s \in Seq(DOMAIN graph) /\ Range(s) = DOMAIN graph /\ IsInjective(s)
      /\ \A i, j \in DOMAIN s : s[j] \in graph[s[i]] => j < i
  BY OrdersList
<1>2. /\ rest \in Seq(DOMAIN graph) /\ Range(rest) = K
      /\ \A k, l \in DOMAIN rest : k < l =>
           \E i, j \in DOMAIN s : i < j /\ s[i] = rest[k] /\ s[j] = rest[l]
  <2>1. Range(s) \ A = K
    BY <1>1
  <2> HIDE DEF A
  <2>2. /\ rest \in Seq(DOMAIN graph) /\ Range(rest) = Range(s) \ A
        /\ \A k, l \in DOMAIN rest : k < l =>
             \E i, j \in DOMAIN s : i < j /\ s[i] = rest[k] /\ s[j] = rest[l]
    <3>1. \A B : /\ Remaining(s, B) \in Seq(DOMAIN graph)
                  /\ Range(Remaining(s, B)) = Range(s) \ B
                  /\ \A k, l \in DOMAIN Remaining(s, B) : k < l =>
                       \E i, j \in DOMAIN s :
                         i < j /\ s[i] = Remaining(s, B)[k] /\ s[j] = Remaining(s, B)[l]
      BY <1>1, RemainingKeeps
    <3> QED
      BY <3>1, Zenon
  <2> HIDE DEF rest
  <2> QED
    BY <2>1, <2>2
<1> HIDE DEF rest
<1>3. DOMAIN rest = 1..Len(rest) /\ Len(rest) \in Nat /\ DOMAIN s = 1..Len(s) /\ Len(s) \in Nat
  BY <1>1, <1>2
<1>4. 1 \in DOMAIN rest /\ rest[1] \in K
  <2>1. PICK l \in DOMAIN rest : TRUE
    BY <1>2 DEF Range
  <2> QED
    BY <1>2, <1>3, <2>1 DEF Range
<1>5. PICK d \in K : d \in graph[rest[1]]
  BY <1>4
<1>6. PICK l \in DOMAIN rest : rest[l] = d
  BY <1>2 DEF Range
<1>7. CASE l = 1
  <2>1. PICK i \in DOMAIN s : s[i] = d
    BY <1>1 DEF Range
  <2> QED
    BY <1>1, <1>3, <1>5, <1>6, <1>7, <2>1
<1>8. CASE 1 < l
  <2>1. PICK i \in DOMAIN s, j \in DOMAIN s : i < j /\ s[i] = rest[1] /\ s[j] = d
    BY <1>2, <1>4, <1>6, <1>8
  <2>2. j < i
    BY <1>1, <1>5, <2>1
  <2> QED
    BY <1>3, <2>1, <2>2
<1> QED
  BY <1>3, <1>7, <1>8

\* A sort that succeeds has an order of the graph it was given.
LEMMA SortedInOrders ==
  ASSUME NEW graph, GraphKept(graph), SortInv, SortedTopologically, outcome = "sorted"
  PROVE  sorted \in Orders(graph) /\ nodes = Pruned(graph)
<1> DEFINE D == DOMAIN graph
<1>1. /\ DOMAIN nodes = D /\ nodes \in [D -> SUBSET Elements]
      /\ \A k \in D : graph[k] \cap D \subseteq nodes[k] /\ nodes[k] \subseteq graph[k]
  BY DEF GraphKept, SortInv, SortTypeOK
<1>2. /\ sorted \in Seq(D) /\ Range(sorted) = D /\ IsInjective(sorted)
      /\ \A i \in DOMAIN sorted : \A d \in nodes[sorted[i]] :
           \E j \in DOMAIN sorted : j < i /\ sorted[j] = d
  BY <1>1 DEF SortedTopologically, DependenciesFirst, SortInv, SortTypeOK
<1> HIDE DEF D
<1>3. Len(sorted) = Cardinality(D) /\ DOMAIN sorted = 1..Len(sorted) /\ Len(sorted) \in Nat
  BY <1>2, InjectiveLength
<1>4. \A k \in D : nodes[k] \subseteq D
  <2> TAKE k \in D
  <2>1. PICK i \in DOMAIN sorted : sorted[i] = k
    BY <1>2 DEF Range
  <2> QED
    BY <1>2, <2>1 DEF Range
<1>5. nodes = Pruned(graph)
  <2>1. \A k \in D : nodes[k] = graph[k] \cap D
    BY <1>1, <1>4
  <2>2. Pruned(graph) = [k \in D |-> graph[k] \cap D]
    BY DEF Pruned, D
  <2> QED
    BY <1>1, <2>1, <2>2
<1>6. sorted \in SetToSeqs(D)
  <2>1. sorted \in [1..Cardinality(D) -> D]
    BY <1>2, <1>3
  <2>2. \A i, j \in 1..Cardinality(D) : i # j => sorted[i] # sorted[j]
    BY <1>2, <1>3 DEF IsInjective
  <2> QED
    BY <2>1, <2>2 DEF SetToSeqs
<1>7. ASSUME NEW i \in DOMAIN sorted, NEW j \in DOMAIN sorted, sorted[j] \in graph[sorted[i]]
      PROVE  j < i
  <2>1. sorted[i] \in D /\ sorted[j] \in D
    BY <1>2 DEF Range
  <2>2. sorted[j] \in nodes[sorted[i]]
    BY <1>1, <1>7, <2>1
  <2>3. PICK m \in DOMAIN sorted : m < i /\ sorted[m] = sorted[j]
    BY <1>2, <2>2
  <2> QED
    BY <1>2, <2>3 DEF IsInjective
<1> QED
  BY <1>5, <1>6, <1>7 DEF Orders, D

\* What the event library takes the sort for is what the search does, whatever graph it
\* is given.
THEOREM SortImplementsOrders ==
  ASSUME NEW CONSTANT graph
  PROVE  SortSpec /\ nodes = graph => []SortMatches(graph)
<1>1. nodes = graph /\ SortInit => GraphKept(graph)
  BY DEF GraphKept, SortInit
<1>2. SortInv /\ GraphKept(graph) /\ [SortNext]_sortVars => GraphKept(graph)'
  BY GraphKeptStep
<1>3. SortSpec /\ nodes = graph => []GraphKept(graph)
  BY <1>1, <1>2, SortInvariance, PTL DEF SortSpec
<1>4. ASSUME SortInv, SortedTopologically, FailsOnCyclesOnly, GraphKept(graph)
      PROVE  SortMatches(graph)
  <2>1. CASE outcome = "sorted"
    BY <1>4, <2>1, SortedInOrders DEF SortMatches
  <2>2. CASE outcome = "cycle"
    <3>1. PICK K \in SUBSET DOMAIN nodes : K # {} /\ \A k \in K : nodes[k] \cap K # {}
      BY <1>4, <2>2 DEF FailsOnCyclesOnly, Cyclic
    <3>2. IsFiniteSet(DOMAIN graph)
      <4>1. DOMAIN graph \subseteq Elements
        BY <1>4 DEF GraphKept, SortInv, SortTypeOK
      <4> QED
        BY <4>1, ElementsAssumption, FS_Subset
    <3>3. K \in SUBSET DOMAIN graph /\ \A k \in K : graph[k] \cap K # {}
      BY <1>4, <3>1 DEF GraphKept
    <3>4. Orders(graph) = {}
      BY <3>1, <3>2, <3>3, CyclicUnordered
    <3> QED
      BY <1>4, <2>2, <3>4 DEF SortMatches, GraphKept, Pruned
  <2> QED
    BY <2>1, <2>2 DEF SortMatches
<1> QED
  BY <1>3, <1>4, SortInvariance, SortCorrect, FailureCorrect, PTL

=============================================================================
