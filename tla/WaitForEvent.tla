---------------------------- MODULE WaitForEvent ----------------------------
(***************************************************************************)
(* Coroutines that wait for events (copilot/Event.lua:                     *)
(* waitForEventWithTimeout and waitForEventsWithTimeout), for events that  *)
(* are signalled once (copilot/SingleEvent.lua), and for one another: the  *)
(* end of a coroutine is such an event (Copilot/CallbackRunner.{cpp,h}).   *)
(*                                                                         *)
(* A coroutine runs from one wait to the next in one step; a trigger takes *)
(* one step as well, the dispatch it makes being the subject of the module *)
(* EventDispatch, and the order in which coroutines are resumed that of    *)
(* CallbackRunner.                                                         *)
(***************************************************************************)
EXTENDS Naturals, Sequences, FiniteSets, SequencesExt

CONSTANTS
  Threads,          \* coroutines; each names the event of its end, too
  Events,           \* events of other kinds
  SingleEvents,     \* those of them that are signalled once
  None,
  Usage,            \* the hazardous calls scripts make, see UsageKinds
  MaxWaits,         \* bound: the waits of a coroutine
  MaxEvents         \* bound: the events of a wait

(* "repeated"  a wait names an event twice: of its two actions it forgets the first *)
UsageKinds == {"repeated"}

ASSUME SignalsAssumption ==
  /\ SingleEvents \subseteq Events
  /\ Threads \cap Events = {}
  /\ None \notin Threads \union Events
ASSUME WaitsAssumption == MaxWaits \in Nat /\ MaxEvents \in Nat /\ Usage \subseteq UsageKinds

VARIABLES
  registered,       \* the coroutines the callback runner knows
  wait,             \* the wait each is suspended in, or None
  deadline,         \* when it is to be resumed
  actions,          \* the one-off actions that waits have added to each event: whose,
                    \* and whether the wait can still remove it
  signalled,        \* single events that have a payload
  waits,            \* how many waits each coroutine has begun
  happened,         \* the events of its wait, in the order they happened in
  elapsed           \* the coroutines whose timeout has run out

vars == <<registered, wait, deadline, actions, signalled, waits, happened, elapsed>>

Signals == Threads \union Events
Once == Threads \union SingleEvents
Timeout == {"zero", "finite", "infinite"}

\* A wait for no event at all is copilot.suspend.
Lists(t) ==
  {s \in SeqOf(Signals \ {t}, MaxEvents) : IsInjective(s) \/ "repeated" \in Usage}

Asked(t) == [events: Lists(t), all: BOOLEAN, timeout: Timeout]

\* `number' tells the closures of a wait from those of others.
Wait(t) == [asked: Asked(t), number: 1..MaxWaits, got: SUBSET Signals,
            first: Signals \union {None}]

Action == [thread: Threads, number: 1..MaxWaits, known: BOOLEAN]

ASSUME NoneAssumption ==
  None \notin Timeout \union {"due"} \union UNION {Wait(t) : t \in Threads}

-----------------------------------------------------------------------------
(* Parts of the functions *)

Enough(asked, got) ==
  IF asked.all THEN got = ToSet(asked.events) ELSE got # {}

\* Variant: of several events, the last one is returned.
HearsLast(w, e) ==
  [w EXCEPT !.got = @ \union {e}, !.first = IF w.asked.all THEN None ELSE e]

\* What the action of a wait does to the variables it shares with the wait.
Hears(w, e) ==
  [w EXCEPT !.got = @ \union {e},
            !.first = IF w.asked.all \/ @ # None THEN @ ELSE e]

\* Variant: all events of a wait must have been signalled before it ends.
CancelsWhenAll(w, e) == Hears(w, e).got = ToSet(w.asked.events)

Cancels(w, e) == Enough(w.asked, Hears(w, e).got)

Returned(w) ==
  CASE w.asked.all /\ Enough(w.asked, w.got) -> "all"
    [] ~w.asked.all /\ w.got # {} -> w.first
    [] OTHER -> "timeout"

\* The actions wait number n of a coroutine adds to e.  It keeps one for each event.
Added(t, n, events, e) ==
  {[thread |-> t, number |-> n, known |-> \A j \in DOMAIN events : j > i => events[j] # e] :
     i \in {k \in DOMAIN events : events[k] = e}}

\* What is left when waits of a coroutine remove the actions they know of.
Without(acts, t, numbers) ==
  [e \in Signals |->
     {a \in acts[e] : ~(a.thread = t /\ a.number \in numbers /\ a.known)}]

\* The actions of events that are triggered are run, and removed, since they are
\* one-off actions; cancelCallbackTimeout heeds suspended coroutines only.
Triggered(e, acts) ==
  LET hearers == {t \in Threads \ {e} : \E a \in acts[e] : a.thread = t /\ wait[t] # None}
      own(t)  == \E a \in acts[e] : a.thread = t /\ a.number = wait[t].number
      left(t) == \E a \in acts[e] : a.thread = t /\ a.number # wait[t].number
  IN /\ actions' = [acts EXCEPT ![e] = {}]
     /\ wait' = [t \in Threads |->
                   CASE t = e -> None
                     [] t # e /\ t \in hearers /\ own(t) -> Hears(wait[t], e)
                     [] OTHER -> wait[t]]
     /\ deadline' = [t \in Threads |->
                   IF t \in hearers /\ (left(t) \/ Cancels(wait[t], e)) THEN "due"
                   ELSE IF t = e THEN None ELSE deadline[t]]
     /\ signalled' = signalled \union ({e} \cap Once)
     /\ happened' = [t \in Threads |->
                   CASE t = e -> <<>>
                     [] /\ t # e /\ wait[t] # None
                        /\ e \in ToSet(wait[t].asked.events) \ ToSet(happened[t]) ->
                          Append(happened[t], e)
                     [] OTHER -> happened[t]]
     /\ elapsed' = elapsed \ {e}
     /\ UNCHANGED waits

-----------------------------------------------------------------------------
(* The steps of a coroutine *)

\* Those of the events that have been signalled, in their order.
Before(events) ==
  {s \in SeqOf(ToSet(events) \cap signalled, Len(events)) :
     /\ ToSet(s) = ToSet(events) \cap signalled
     /\ \A i, j \in DOMAIN s, k, l \in DOMAIN events :
          s[i] = events[k] /\ s[j] = events[l] => (i < j <=> k < l)}

\* A single event that has been signalled runs the action when it is added.  Calls of
\* waitForEventsWithTimeout remove their actions when they return; one of
\* waitForEventWithTimeout, ~several, that need not wait leaves it with the event.
Begin(t, asked, several) ==
  /\ t \in registered /\ wait[t] = None /\ waits[t] < MaxWaits
  /\ ~several => Len(asked.events) = 1 /\ ~asked.all
  /\ \E before \in Before(asked.events) :
       LET w == [asked |-> asked, number |-> waits[t] + 1, got |-> ToSet(before),
                 first |-> IF before = <<>> \/ asked.all THEN None ELSE Head(before)]
           enough == Enough(asked, w.got)
           listening == [e \in Signals |-> actions[e] \union Added(t, w.number, asked.events, e)]
       IN IF ~enough /\ asked.timeout # "zero"
          THEN /\ wait' = [wait EXCEPT ![t] = w]
               /\ deadline' = [deadline EXCEPT ![t] = asked.timeout]
               /\ actions' = listening
               /\ happened' = [happened EXCEPT ![t] = before]
          ELSE /\ actions' = IF enough /\ ~several THEN listening
                             ELSE Without(listening, t, {w.number})
               /\ UNCHANGED <<wait, deadline, happened>>
  /\ waits' = [waits EXCEPT ![t] = @ + 1]
  /\ UNCHANGED <<registered, signalled, elapsed>>

\* Variant: what is left of the wait stays with its events.
ResumeOnly(t) ==
  /\ wait[t] # None /\ deadline[t] = "due"
  /\ wait' = [wait EXCEPT ![t] = None]
  /\ deadline' = [deadline EXCEPT ![t] = None]
  /\ happened' = [happened EXCEPT ![t] = <<>>]
  /\ elapsed' = elapsed \ {t}
  /\ UNCHANGED <<actions, registered, signalled, waits>>

\* The callback runner comes to the coroutine, which has been due for a while; the
\* wait returns Returned(wait[t]), which is not kept.
Resume(t) ==
  /\ wait[t] # None /\ deadline[t] = "due"
  /\ wait' = [wait EXCEPT ![t] = None]
  /\ deadline' = [deadline EXCEPT ![t] = None]
  /\ actions' = Without(actions, t, {wait[t].number})
  /\ happened' = [happened EXCEPT ![t] = <<>>]
  /\ elapsed' = elapsed \ {t}
  /\ UNCHANGED <<registered, signalled, waits>>

\* The coroutine returns, and its event is triggered with what it has returned.
Finish(t) ==
  /\ t \in registered /\ wait[t] = None
  /\ registered' = registered \ {t}
  /\ Triggered(t, actions)

-----------------------------------------------------------------------------
(* The steps of others *)

Trigger(e) ==
  /\ e \in Events
  /\ UNCHANGED registered
  /\ IF e \in Once \cap signalled
     THEN UNCHANGED <<actions, wait, deadline, signalled, waits, happened, elapsed>>
     ELSE Triggered(e, actions)

\* Variant: nobody listens to the end of a coroutine to clean up.
removeCallbackOnly(t) ==
  /\ t \in registered
  /\ registered' = registered \ {t}
  /\ Triggered(t, actions)

\* copilot.removeCallback: the event's payload, THREAD_REMOVED, makes the
\* cleanups of its waits remove their actions.  (A coroutine that throws ends like this.)
removeCallback(t) ==
  /\ t \in registered
  /\ registered' = registered \ {t}
  /\ Triggered(t, Without(actions, t, 1..MaxWaits))

Elapse(t) ==
  /\ wait[t] # None
  /\ wait[t].asked.timeout = "finite" /\ t \notin elapsed
  /\ elapsed' = elapsed \union {t}
  /\ deadline' = [deadline EXCEPT ![t] = "due"]
  /\ UNCHANGED <<registered, wait, actions, signalled, waits, happened>>

-----------------------------------------------------------------------------

Init ==
  /\ registered = Threads
  /\ wait = [t \in Threads |-> None]
  /\ deadline = [t \in Threads |-> None]
  /\ actions = [e \in Signals |-> {}]
  /\ signalled = {}
  /\ waits = [t \in Threads |-> 0]
  /\ happened = [t \in Threads |-> <<>>]
  /\ elapsed = {}

Next ==
  \/ \E t \in Threads :
       \/ \E asked \in Asked(t), several \in BOOLEAN : Begin(t, asked, several)
       \/ Resume(t) \/ Finish(t) \/ removeCallback(t) \/ Elapse(t)
  \/ \E e \in Events : Trigger(e)

Spec == Init /\ [][Next]_vars

(* The runner's pass comes to every coroutine that is due, and time passes. *)
FairSpec == Spec /\ \A t \in Threads : WF_vars(Resume(t)) /\ WF_vars(Elapse(t))

-----------------------------------------------------------------------------
(* Properties *)

TypeOK ==
  /\ registered \subseteq Threads
  /\ \A t \in Threads : wait[t] = None \/ wait[t] \in Wait(t)
  /\ deadline \in [Threads -> {None, "finite", "infinite", "due"}]
  /\ actions \in [Signals -> SUBSET Action]
  /\ signalled \subseteq Once
  /\ waits \in [Threads -> 0..MaxWaits]
  /\ \A t \in Threads : deadline[t] = None <=> wait[t] = None

\* An event that may still be triggered holds actions of waits that go on only, and for
\* what the wait has not got yet: a leftover would wake its coroutine out of a later
\* wait (Event.lua:323 and 451).  A single event that has been signalled does keep the
\* action of a wait that has found it so (Event.lua:321), but does not run it again.
NoActionLeft ==
  /\ TypeOK
  /\ \A e \in Signals \ signalled : \A a \in actions[e] :
       /\ wait[a.thread] # None
       /\ a.number = wait[a.thread].number
       /\ e \in ToSet(wait[a.thread].asked.events) \ wait[a.thread].got

\* What a wait promises (Event.lua:399-404), from what has happened since it began:
\* the first event, or all of them, even if the timeout has run out before the
\* coroutine is resumed; and Event.TIMEOUT if it has run out, and only then.
Promised(t) ==
  CASE wait[t].asked.all /\ ToSet(happened[t]) = ToSet(wait[t].asked.events) -> "all"
    [] ~wait[t].asked.all /\ happened[t] # <<>> -> Head(happened[t])
    [] OTHER -> IF t \in elapsed THEN "timeout" ELSE None

\* Whenever a coroutine may be resumed, what its wait returns is what it promises.
ReturnsWhatHappened ==
  \A t \in Threads : deadline[t] = "due" => Returned(wait[t]) = Promised(t)

\* A wait ends if what it is for has happened, or its time has run out, whatever
\* happens to the other coroutines (CallbackRunner.cpp:261-282).
WaitsEnd ==
  \A t \in Threads :
    (wait[t] # None /\ (wait[t].asked.timeout = "finite"
                        \/ Enough(wait[t].asked, ToSet(happened[t]))))
      ~> (wait[t] = None)
=============================================================================
