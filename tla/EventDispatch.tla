---------------------------- MODULE EventDispatch ----------------------------
(***************************************************************************)
(* The event library of the Lua scripts: classes Event, Action and         *)
(* ActionOrderSetter (Copilot/copilot/{Event,Action,ActionOrderSetter}.lua) *)
(*                                                                         *)
(* An event has actions: functions, and coroutines that go on after the    *)
(* dispatch that has started them.  Actions are arbitrary Lua code: while  *)
(* an event is being dispatched they trigger events (this one again, too), *)
(* and add, remove and reorder actions.                                    *)
(*                                                                         *)
(* One OS thread executes all of it: the frames say who called whom, the   *)
(* last one is executing.  A coroutine that has yielded has no frame: Lua  *)
(* code yields in the coroutine's own function, not in a function action   *)
(* of an event the coroutine has triggered.                                *)
(***************************************************************************)
EXTENDS Integers, Sequences, FiniteSets, SequencesExt

CONSTANTS
  Events,
  FunctionActions,   \* actions whose callback is called
  CoroutineActions,  \* actions with the flag runAsCoroutine
  InitialList,       \* the list of actions each event is constructed with
  Edited,            \* the events whose actions are changed later
  Waits,             \* the last argument of the functions that order actions
  Disabled,          \* the actions scripts disable and enable
  None,              \* nil
  Usage,             \* the hazardous calls scripts make, see UsageKinds
  MaxCalls,          \* bound: events triggered and coroutines stopped
  MaxEdits,          \* bound: changes of the actions
  MaxQueued,         \* bound: entries ever put into the queue
  MaxDepth,          \* bound: nested frames
  MaxOrdered         \* bound: pairs of actions of an event that are ordered

Actions == FunctionActions \cup CoroutineActions

(* "functionWaits"  an order that waits for a coroutine is asked of a function *)
(* "foreign"        an action is put behind others that is not on the event    *)
(* "readd"          an action is added again after others were put behind it   *)
(* "addedTwice"     an action is added that is on the event already            *)
UsageKinds == {"functionWaits", "foreign", "readd", "addedTwice"}

ASSUME EventAssumption ==
  /\ FunctionActions \cap CoroutineActions = {}
  /\ None \notin Actions \cup Events \cup Seq(Actions)
  /\ InitialList \in [Events -> Seq(Actions)]
  /\ \A e \in Events : IsInjective(InitialList[e])
  /\ Edited \subseteq Events
  /\ Waits \subseteq BOOLEAN
  /\ Disabled \subseteq Actions
  /\ Usage \subseteq UsageKinds
  /\ MaxCalls \in Nat /\ MaxEdits \in Nat /\ MaxQueued \in Nat /\ MaxDepth \in Nat /\ MaxOrdered \in Nat

VARIABLES
  event,          \* the fields of each Event
  enabled,        \* the actions with isEnabled
  threadOf,       \* action.currentThread: "none", "waiting" or "running"
  waitsFor,       \* whose doneEvent an action's coroutine waits for
  frames,
  dispatchQueue, queueMin, queueMax,
  scheduled,      \* processEventQueue is among the callbacks
  calls, edits    \* API calls made by Lua code

queueVars  == <<dispatchQueue, queueMin, queueMax, scheduled>>
threadVars == <<threadOf, waitsFor>>
vars == <<event, enabled, threadVars, frames, queueVars, calls, edits>>

\* thread: the coroutine whose own function the code is.  event, action, i, n:
\* the locals of the loops.
Code(thread) ==
  [kind |-> "code", thread |-> thread, event |-> None, action |-> None, i |-> 0, n |-> 0]
Dispatching(e, n) ==
  [kind |-> "dispatch", thread |-> None, event |-> e, action |-> None, i |-> 1, n |-> n]
Processing(i, n) ==
  [kind |-> "process", thread |-> None, event |-> None, action |-> None, i |-> i, n |-> n]

Top == Last(frames)

Executing(kind) == frames # <<>> /\ Top.kind = kind

Calling ==
  /\ Executing("code")
  /\ calls < MaxCalls
  /\ calls' = calls + 1
  /\ UNCHANGED edits

Editing ==
  /\ Executing("code")
  /\ edits < MaxEdits
  /\ edits' = edits + 1
  /\ UNCHANGED calls

SetTop(frame) == Append(Front(frames), frame)

added(ev) == DOMAIN ev.nodes

\* Lua's table[key] = value
Put(table, key, value) ==
  [k \in DOMAIN table \cup {key} |-> IF k = key THEN value ELSE table[k]]

-----------------------------------------------------------------------------
(* Ordering the actions: Event:sortActions, which sorts with Ouroboros         *)

\* nodes[a] holds the actions that come before a; those no longer among the
\* nodes are dropped by the sort.
Pruned(nodes) == [a \in DOMAIN nodes |-> nodes[a] \cap DOMAIN nodes]

\* Variant: the edges are followed the wrong way.
OrdersBackwards(nodes) ==
  {s \in SetToSeqs(DOMAIN nodes) :
     \A i, j \in DOMAIN s : s[j] \in nodes[s[i]] => i < j}

\* The orders the depth-first search can produce; none if there is a cycle.
Orders(nodes) ==
  {s \in SetToSeqs(DOMAIN nodes) :
     \A i, j \in DOMAIN s : s[j] \in nodes[s[i]] => j < i}

\* "Can't sort actions while actions are running"
Sortable(ev) == ~ev.inDispatch

\* What an event becomes when its actions are needed in order; {} is an error.
Ordered(ev) ==
  IF ev.areActionsSorted THEN {ev}
  ELSE IF ~Sortable(ev) THEN {}
  ELSE {[ev EXCEPT !.nodes = Pruned(@), !.sortedActions = s, !.areActionsSorted = TRUE] :
          s \in Orders(ev.nodes)}

SortFails(ev) == ~ev.areActionsSorted /\ Sortable(ev) /\ Orders(ev.nodes) = {}

\* What the error leaves: no list at all if the sort has failed, which has then
\* dropped from the nodes it has come by what is no longer among the nodes.
Unordered(ev) ==
  IF ~SortFails(ev) THEN {ev}
  ELSE {[ev EXCEPT !.sortedActions = None, !.nodes = kept] :
          kept \in {nodes \in [added(ev) -> SUBSET Actions] :
                      \A a \in added(ev) : Pruned(ev.nodes)[a] \subseteq nodes[a]
                                        /\ nodes[a] \subseteq ev.nodes[a]}}

-----------------------------------------------------------------------------
(* Adding and removing actions                                                 *)

\* Variant: only the nodes know of a new action.
ListedNever(ev, a) == ev.sortedActions

\* An added action goes to the end, unless the list is to be sorted anyway.
Listed(ev, a) ==
  IF ev.areActionsSorted THEN Append(ev.sortedActions, a) ELSE ev.sortedActions

\* Event:addAction and addOneOffAction: whether the event has the action already is
\* not asked, it is then in the list a second time.
addAction(e, a, once) ==
  /\ Editing
  /\ a \in added(event[e]) => "addedTwice" \in Usage
  /\ (\E b \in added(event[e]) : a \in event[e].nodes[b]) => "readd" \in Usage
  /\ event' = [event EXCEPT
       ![e].nodes = Put(@, a, {}),
       ![e].coroDepends = Put(@, a, {}),
       ![e].sortedActions = Listed(event[e], a),
       ![e].runOnce = IF once THEN @ \cup {a} ELSE @]
  /\ UNCHANGED <<enabled, threadVars, frames, queueVars>>

\* The list without the actions in A: what is behind them moves up.  Of an action that
\* is in the list twice the last occurrence goes.
Remaining(list, A) ==
  LET kept        == {i \in DOMAIN list :
                        list[i] \in A => \E j \in DOMAIN list : j > i /\ list[j] = list[i]}
      position(i) == Cardinality({j \in kept : j <= i})
  IN [k \in 1..Cardinality(kept) |-> list[CHOOSE i \in kept : position(i) = k]]

\* Variant: what the action waits for is not forgotten.
WithoutNodes(ev, A) ==
  [ev EXCEPT !.sortedActions = Remaining(@, A),
             !.nodes = [a \in DOMAIN @ \ A |-> @[a]],
             !.runOnce = @ \ A]

Without(ev, A) ==
  [ev EXCEPT !.sortedActions = Remaining(@, A),
             !.nodes = [a \in DOMAIN @ \ A |-> @[a]],
             !.coroDepends = [a \in DOMAIN @ \ A |-> @[a]],
             !.runOnce = @ \ A]

\* Variant: the list is changed under the loop that runs it.
RemovedAtOnce(ev, a) == IF ev.sortedActions = None THEN ev ELSE Without(ev, {a})

\* Event:removeAction: put off while the event is being dispatched, an error
\* when a failed sort has left no list.
Removed(ev, a) ==
  IF ev.inDispatch THEN [ev EXCEPT !.actionsToRemove = @ \cup {a}]
  ELSE IF ev.sortedActions = None THEN ev
  ELSE Without(ev, {a})

removeAction(e, a) ==
  /\ Editing
  /\ a \in added(event[e])
  /\ event' = [event EXCEPT ![e] = Removed(@, a)]
  /\ UNCHANGED <<enabled, threadVars, frames, queueVars>>

setEnabled(a) ==
  /\ Editing
  /\ enabled' = IF a \in enabled THEN enabled \ {a} ELSE enabled \cup {a}
  /\ UNCHANGED <<event, threadVars, frames, queueVars>>

\* Event:getActions and getActionCount sort, too.
getActions(e) ==
  /\ Editing
  /\ \/ \E ev \in Ordered(event[e]) : event' = [event EXCEPT ![e] = ev]
     \/ /\ Ordered(event[e]) = {}
        /\ \E ev \in Unordered(event[e]) : event' = [event EXCEPT ![e] = ev]
  /\ UNCHANGED <<enabled, threadVars, frames, queueVars>>

\* setActionOrder(anchor): front and before put the anchor before the others,
\* back and after put it behind them.  With wait, whoever comes later waits for
\* the coroutines that come earlier.  The call throws half done at one that cannot
\* come later, because it is not on the event, or cannot wait, being a function (its
\* edge is there by then), and what it has done does not count as a change of the order.
setActionOrder(e, anchor, others, front, wait) ==
  LET later(o)   == IF front THEN o ELSE anchor
      earlier(o) == IF front THEN anchor ELSE o
      waits(o)   == wait /\ earlier(o) \in CoroutineActions
      foreign    == {o \in others : later(o) \notin added(event[e])}
      bad        == {o \in others : waits(o) /\ later(o) \notin CoroutineActions}
  IN  /\ Editing
      /\ foreign # {} => "foreign" \in Usage
      /\ bad # {} => "functionWaits" \in Usage
      /\ \E done \in SUBSET others :
           /\ IF foreign \cup bad = {} THEN done = others
              ELSE Cardinality(done \cap (foreign \cup bad)) = 1
           /\ event' = [event EXCEPT
                ![e].nodes = [a \in added(event[e]) |->
                   @[a] \cup {earlier(o) : o \in {p \in done : later(p) = a}}],
                ![e].coroDepends = [a \in DOMAIN @ |->
                   @[a] \cup {earlier(o) : o \in {p \in done \ bad : later(p) = a /\ waits(p)}}],
                ![e].areActionsSorted = @ /\ foreign \cup bad # {}]
      /\ Cardinality({p \in added(event[e]) \X Actions : p[2] \in event'[e].nodes[p[1]]}) <= MaxOrdered
      /\ UNCHANGED <<enabled, threadVars, frames, queueVars>>

-----------------------------------------------------------------------------
(* Coroutines of actions                                                       *)

\* Variant: the doneEvent is not triggered.
EndThreadSilently(a) ==
  /\ threadOf' = [threadOf EXCEPT ![a] = "none"]
  /\ waitsFor' = [waitsFor EXCEPT ![a] = {}]

\* Action:_onThreadFinished, by way of the coroutine's own event: whoever waits
\* for this action's doneEvent is told.
EndThread(a) ==
  /\ threadOf' = [threadOf EXCEPT ![a] = "none"]
  /\ waitsFor' = [b \in CoroutineActions |-> IF b = a THEN {} ELSE waitsFor[b] \ {a}]

\* The coroutines that have to end before a's callback starts; a's own counts, it is
\* asked in that coroutine.
RunningDependencies(e, a) ==
  {d \in event[e].coroDepends[a] : d = a \/ threadOf[d] # "none"}

\* Action:_initNewThread: the coroutine is added to the callbacks and executes
\* at once, up to its first yield; it first waits for its dependencies.
InitNewThread(e, a, loop) ==
  LET dependencies == RunningDependencies(e, a) IN
  /\ waitsFor' = [waitsFor EXCEPT ![a] = dependencies]
  /\ IF dependencies = {}
     THEN threadOf' = [threadOf EXCEPT ![a] = "running"] /\ frames' = Append(loop, Code(a))
     ELSE threadOf' = [threadOf EXCEPT ![a] = "waiting"] /\ frames' = loop

\* A coroutine is stopped by code it is not itself executing.
stopCurrentThread(a) ==
  /\ Calling
  /\ threadOf[a] # "none"
  /\ \A i \in DOMAIN frames : frames[i].thread # a
  /\ EndThread(a)
  /\ UNCHANGED <<event, enabled, frames, queueVars>>

Yield ==
  /\ Executing("code")
  /\ Top.thread # None
  /\ frames' = Front(frames)
  /\ UNCHANGED <<event, enabled, threadVars, queueVars, calls, edits>>

\* CallbackRunner::update resumes a coroutine.
Resume(a) ==
  /\ frames = <<>>
  /\ threadOf[a] # "none"
  /\ waitsFor[a] = {}
  /\ threadOf' = [threadOf EXCEPT ![a] = "running"]
  /\ frames' = <<Code(a)>>
  /\ UNCHANGED <<event, enabled, waitsFor, queueVars, calls, edits>>

\* Code returns or throws, to the dispatch that called it or to whoever resumed it.
Return ==
  /\ Executing("code")
  /\ frames' = Front(frames)
  /\ IF Top.thread = None THEN UNCHANGED threadVars ELSE EndThread(Top.thread)
  /\ UNCHANGED <<event, enabled, queueVars, calls, edits>>

\* The main loop runs some other Lua code.
OnEvent ==
  /\ frames = <<>>
  /\ frames' = <<Code(None)>>
  /\ UNCHANGED <<event, enabled, threadVars, queueVars, calls, edits>>

-----------------------------------------------------------------------------
(* Dispatching                                                                 *)

\* Event:dispatch: the actions are put in order, the loop over them begins.
StartDispatch(e, callers) ==
  \E ev \in Ordered(event[e]) :
    /\ event' = [event EXCEPT ![e] =
                   [ev EXCEPT !.inDispatch = TRUE, !.actionsToRemove = {}]]
    /\ frames' = Append(callers, Dispatching(e, Len(ev.sortedActions)))

\* Event:dispatch throws when it has to sort and cannot.
DispatchFails(e) ==
  /\ Ordered(event[e]) = {}
  /\ \E ev \in Unordered(event[e]) : event' = [event EXCEPT ![e] = ev]

\* Event:enqueue
Enqueue(e) ==
  /\ queueMax' = queueMax + 1
  /\ dispatchQueue' = Put(dispatchQueue, queueMax + 1, e)
  /\ scheduled' = (scheduled \/ queueMin = queueMax + 1)
  /\ UNCHANGED queueMin

\* Variant: an event triggered while it is dispatched is dispatched on the spot.
EnqueuesNever(ev) == FALSE

Enqueues(ev) == ev.inDispatch

\* Event:trigger
trigger(e) ==
  /\ Calling
  /\ Len(frames) < MaxDepth
  /\ \/ /\ Enqueues(event[e])
        /\ queueMax < MaxQueued
        /\ Enqueue(e)
        /\ UNCHANGED <<event, frames>>
     \/ /\ ~Enqueues(event[e])
        /\ StartDispatch(e, frames)
        /\ UNCHANGED queueVars
     \/ /\ ~Enqueues(event[e])
        /\ DispatchFails(e)
        /\ UNCHANGED <<frames, queueVars>>
  /\ UNCHANGED <<enabled, threadVars>>

\* A second occurrence of an action that has been removed: the length of what the
\* action waits for, nil, is asked.  The error goes through the loop and through that of
\* processEventQueue, inDispatch stays.
TurnFails ==
  /\ frames' = IF Len(frames) = 2 /\ frames[1].kind = "process" THEN <<>> ELSE Front(frames)
  /\ UNCHANGED threadVars

\* One turn of the loop: Event:_runAction.
RunAction ==
  LET e    == Top.event
      a    == event[e].sortedActions[Top.i]
      loop == SetTop([Top EXCEPT !.action = a])
  IN  /\ Executing("dispatch")
      /\ Top.action = None /\ Top.i <= Top.n
      /\ \/ /\ a \notin enabled \/ (a \in CoroutineActions /\ threadOf[a] # "none")
            /\ frames' = loop
            /\ UNCHANGED threadVars
         \/ /\ a \in enabled \cap CoroutineActions
            /\ threadOf[a] = "none"
            /\ IF a \in DOMAIN event[e].coroDepends THEN InitNewThread(e, a, loop)
               ELSE TurnFails
         \/ /\ a \in enabled \cap FunctionActions
            /\ frames' = Append(loop, Code(None))
            /\ UNCHANGED threadVars
      /\ UNCHANGED <<event, enabled, queueVars, calls, edits>>

\* The rest of the turn: a one-off is to be removed, executed or not.
NextAction ==
  /\ Executing("dispatch")
  /\ Top.action # None
  /\ event' = [event EXCEPT ![Top.event].actionsToRemove =
                 @ \cup ({Top.action} \cap event[Top.event].runOnce)]
  /\ frames' = SetTop([Top EXCEPT !.action = None, !.i = @ + 1])
  /\ UNCHANGED <<enabled, threadVars, queueVars, calls, edits>>

\* The dispatch is over: now the actions are removed.
EndDispatch ==
  /\ Executing("dispatch")
  /\ Top.action = None /\ Top.i > Top.n
  /\ event' = [event EXCEPT ![Top.event] =
                 Without([@ EXCEPT !.inDispatch = FALSE, !.actionsToRemove = {}],
                         @.actionsToRemove)]
  /\ frames' = Front(frames)
  /\ UNCHANGED <<enabled, threadVars, queueVars, calls, edits>>

-----------------------------------------------------------------------------
(* Event.processEventQueue, a callback run every now and then while scheduled  *)

ProcessQueue ==
  /\ frames = <<>>
  /\ scheduled
  /\ frames' = <<Processing(queueMin, queueMax)>>
  /\ UNCHANGED <<event, enabled, threadVars, queueVars, calls, edits>>

ProcessEvent ==
  /\ Executing("process")
  /\ Top.event = None /\ Top.i <= Top.n /\ Top.i \in DOMAIN dispatchQueue
  /\ StartDispatch(dispatchQueue[Top.i],
                   SetTop([Top EXCEPT !.event = dispatchQueue[Top.i]]))
  /\ UNCHANGED <<enabled, threadVars, queueVars, calls, edits>>

\* The entry is gone, or the dispatch throws: the queue stays as it is.
ProcessFails ==
  /\ Executing("process")
  /\ Top.event = None /\ Top.i <= Top.n
  /\ IF Top.i \in DOMAIN dispatchQueue THEN DispatchFails(dispatchQueue[Top.i])
     ELSE UNCHANGED event
  /\ frames' = <<>>
  /\ UNCHANGED <<enabled, threadVars, queueVars, calls, edits>>

EventProcessed ==
  /\ Executing("process")
  /\ Top.event # None
  /\ dispatchQueue' = [i \in DOMAIN dispatchQueue \ {Top.i} |-> dispatchQueue[i]]
  /\ frames' = SetTop([Top EXCEPT !.event = None, !.i = @ + 1])
  /\ UNCHANGED <<event, enabled, threadVars, queueMin, queueMax, scheduled, calls, edits>>

QueueProcessed ==
  /\ Executing("process")
  /\ Top.event = None /\ Top.i > Top.n
  /\ queueMin' = queueMax
  /\ scheduled' = (scheduled /\ Top.n # queueMax)
  /\ frames' = <<>>
  /\ UNCHANGED <<event, enabled, threadVars, dispatchQueue, queueMax, calls, edits>>

-----------------------------------------------------------------------------

\* Event:new with a list of actions
NewEvent(list) ==
  [nodes |-> [a \in Range(list) |-> {}], sortedActions |-> list, areActionsSorted |-> TRUE,
   coroDepends |-> [a \in Range(list) |-> {}], runOnce |-> {}, inDispatch |-> FALSE,
   actionsToRemove |-> {}]

Init ==
  /\ event = [e \in Events |-> NewEvent(InitialList[e])]
  /\ enabled = Actions
  /\ threadOf = [a \in CoroutineActions |-> "none"]
  /\ waitsFor = [a \in CoroutineActions |-> {}]
  /\ frames = <<>>
  /\ dispatchQueue = <<>>
  /\ queueMin = 1
  /\ queueMax = 0
  /\ scheduled = FALSE
  /\ calls = 0
  /\ edits = 0

editEvent ==
  \E e \in Edited :
    \/ \E a \in Actions, once \in BOOLEAN : addAction(e, a, once)
    \/ \E a \in Actions : removeAction(e, a)
    \/ getActions(e)
    \/ \E anchor \in Actions, others \in SUBSET Actions, front \in BOOLEAN, wait \in Waits :
         setActionOrder(e, anchor, others, front, wait)

setAnyEnabled == \E a \in Disabled : setEnabled(a)

stopAnyThread == \E a \in CoroutineActions : stopCurrentThread(a)

triggerAny == \E e \in Events : trigger(e)

resumeAny == \E a \in CoroutineActions : Resume(a)

Next ==
  \/ editEvent
  \/ setAnyEnabled
  \/ stopAnyThread
  \/ triggerAny
  \/ Yield
  \/ Return
  \/ resumeAny
  \/ OnEvent
  \/ RunAction
  \/ NextAction
  \/ EndDispatch
  \/ ProcessQueue
  \/ ProcessEvent
  \/ ProcessFails
  \/ EventProcessed
  \/ QueueProcessed

Spec == Init /\ [][Next]_vars

-----------------------------------------------------------------------------
(* Properties *)

EventOK(ev) ==
  /\ DOMAIN ev.nodes \subseteq Actions
  /\ DOMAIN ev.coroDepends = DOMAIN ev.nodes
  /\ \A a \in DOMAIN ev.nodes :
       ev.nodes[a] \subseteq Actions /\ ev.coroDepends[a] \subseteq CoroutineActions
  /\ ev.sortedActions \in Seq(Actions) \cup {None}
  /\ ev.areActionsSorted \in BOOLEAN /\ ev.inDispatch \in BOOLEAN
  /\ ev.runOnce \subseteq DOMAIN ev.nodes
  /\ ev.actionsToRemove \subseteq DOMAIN ev.nodes

FrameKind == {"code", "dispatch", "process"}

\* The library's tables stay within their types; what is kept per action is kept
\* for the actions the event has.
TypeOK ==
  /\ \A e \in Events : EventOK(event[e])
  /\ enabled \subseteq Actions
  /\ threadOf \in [CoroutineActions -> {"none", "waiting", "running"}]
  /\ waitsFor \in [CoroutineActions -> SUBSET CoroutineActions]
  /\ \A i \in DOMAIN frames :
       /\ frames[i].kind \in FrameKind
       /\ frames[i].thread \in CoroutineActions \cup {None}
       /\ frames[i].event \in Events \cup {None}
       /\ frames[i].action \in Actions \cup {None}
  /\ DOMAIN dispatchQueue \subseteq 1..MaxQueued
  /\ \A i \in DOMAIN dispatchQueue : dispatchQueue[i] \in Events
  /\ queueMin \in 0..MaxQueued + 1 /\ queueMax \in 0..MaxQueued
  /\ scheduled \in BOOLEAN
  /\ calls \in 0..MaxCalls /\ edits \in 0..MaxEdits

\* An event is dispatched by at most one loop, however its actions trigger one
\* another, and inDispatch says so: else an inner loop's end would throw away what
\* the outer one has still to remove.
DispatchNotReentered ==
  \A e \in Events :
    Cardinality({i \in DOMAIN frames : frames[i].kind = "dispatch" /\ frames[i].event = e})
      = IF event[e].inDispatch THEN 1 ELSE 0

\* The list that is run and the graph that is edited hold the same actions: one
\* that has been removed is not run again, one that has been added is run once. What
\* is kept for each action is kept for these.
SortedMatchesNodes ==
  /\ TypeOK
  /\ \A e \in Events :
       LET list == event[e].sortedActions IN
       /\ event[e].areActionsSorted =>
            /\ list # None
            /\ Len(list) = Cardinality(added(event[e]))
            /\ Range(list) = added(event[e])
       /\ list # None => Range(list) \subseteq added(event[e])

\* Whenever the list counts as sorted it has the order asked for by setActionOrder,
\* whatever has been added, removed or reordered since, during dispatches, too.
OrderRespected ==
  \A e \in Events :
    event[e].areActionsSorted =>
      LET list == event[e].sortedActions IN
      \A i, j \in DOMAIN list : list[j] \in event[e].nodes[list[i]] => j < i

\* While the loop over an event's actions runs, by index up to the length the list
\* had at first, the list only grows at its end.
ListStableInDispatch ==
  [][\A e \in Events :
       event[e].inDispatch /\ event'[e].inDispatch
         => IsPrefix(event[e].sortedActions, event'[e].sortedActions)]_vars

\* No coroutine waits for one that has ended already, or been stopped: such a wait
\* would never end.
WaitsForRunningOnly ==
  \A a \in CoroutineActions :
    /\ \A d \in waitsFor[a] : threadOf[d] # "none"
    /\ waitsFor[a] # {} => threadOf[a] = "waiting"

\* An event triggered while it is being dispatched is dispatched later: as long as
\* the queue has entries processEventQueue is going to be called.
QueuedEventsScheduled ==
  dispatchQueue # <<>> => scheduled
=============================================================================
