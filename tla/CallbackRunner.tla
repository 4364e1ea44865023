--------------------------- MODULE CallbackRunner ---------------------------
(***************************************************************************)
(* The timer queue of one Lua script: class CallbackRunner                 *)
(* (src/Copilot/CallbackRunner.{h,cpp}), driven by the main loop of        *)
(* FSL2LuaScript::run and called back by the Lua code it runs.             *)
(*                                                                         *)
(* One OS thread executes everything here.  What interleaves is Lua code:  *)
(* update() runs a callback, which calls back into the runner (and, with   *)
(* _initActionThread, starts further coroutines) before update() goes on   *)
(* with the iterator it holds.  A frame is one piece of Lua code being     *)
(* executed; the stack of frames says who called whom.                     *)
(*                                                                         *)
(* The Lua code is arbitrary: any call of the API, in any order, up to     *)
(* MaxCalls calls.  The calls that defeat the runner's own bookkeeping are *)
(* named in Usage, so that runs can be made with and without them.         *)
(***************************************************************************)
EXTENDS Integers, Sequences, FiniteSets, SequencesExt

CONSTANTS
  Functions,       \* Lua functions used as callbacks
  Threads,         \* Lua coroutines used as callbacks
  Names,           \* names a script gives to callbacks
  Objs,            \* pool of Callback objects (an object is reused once freed)
  None,            \* nullptr, nil, std::nullopt
  Delays,          \* the delay argument, as the script passes it
  Intervals,       \* the interval argument, as the script passes it
  Timeouts,        \* the timeout argument of setCallbackTimeout
  IntervalRange,   \* 2^16: Interval is a uint16_t
  MIN_INTERVAL, DEFAULT_INTERVAL,
  INDEFINITE,      \* Timestamp(-1), later than any time the clock can show
  Usage,           \* the hazardous calls scripts make, see UsageKinds
  MaxTime,         \* bound: the last instant of the clock
  MaxEvents,       \* bound: input events delivered to the main loop
  MaxCalls,        \* bound: API calls made by Lua code
  MaxDepth         \* bound: nested pieces of Lua code

Callables == Functions \cup Threads

(* "readdDelay"    addCallback with a delay on a callable already added    *)
(* "readdOnce"     callOnce on a callable already added                    *)
(* "removeRunning" removeCallback on a running coroutine or one-off        *)
(* "timeoutOther"  setCallbackTimeout on anything but the calling thread   *)
UsageKinds == {"readdDelay", "readdOnce", "removeRunning", "timeoutOther"}

ASSUME NoneAssumption ==
  None \notin Objs \cup Names \cup Callables \cup Nat

ASSUME CallableAssumption ==
  /\ Functions \cap Threads = {}
  /\ Callables \cap Names = {}

ASSUME TimeAssumption ==
  /\ MaxTime \in Nat
  /\ IntervalRange \in Nat \ {0}
  /\ Delays \subseteq Nat
  /\ Intervals \subseteq Nat
  /\ Timeouts \subseteq Nat
  /\ MIN_INTERVAL \in Nat \ {0}
  /\ DEFAULT_INTERVAL \in Nat \ {0}
  /\ INDEFINITE \in Nat
  /\ \A d \in Timeouts \cup Intervals \cup {IntervalRange, MIN_INTERVAL, DEFAULT_INTERVAL} :
       MaxTime + d < INDEFINITE

ASSUME BoundAssumption ==
  /\ MaxEvents \in Nat
  /\ MaxCalls \in Nat
  /\ MaxDepth \in Nat \ {0}
  /\ Usage \subseteq UsageKinds

VARIABLES
  now,              \* plugin->elapsedTime()
  cb,               \* the Callback objects
  activeCallbacks,  \* the multimap deadline -> callback, in iteration order
  registry,         \* registry()[REGISTRY_KEY_CALLBACKS_TABLE]
  callbackNames,
  currentCallback,
  lastAdded,
  nextUpdate,
  visited, pass,    \* locals of update()
  frames,           \* Lua code being executed, innermost last
  pc,               \* where the C++ code below the frames is
  calls, events,    \* API calls made, input events delivered
  ub                \* the C++ code has used an invalid iterator or pointer

queueVars == <<activeCallbacks, registry, callbackNames>>
loopVars  == <<currentCallback, visited>>
vars == <<now, cb, queueVars, lastAdded, nextUpdate, loopVars, pass, frames, pc,
          calls, events, ub>>

Status == {"Idle", "Active", "Suspended", "Removed"}

-----------------------------------------------------------------------------
(* Reading the structures *)

IsThread(o) == cb[o].callable \in Threads

findCallback(key) ==
  IF key \in Names THEN callbackNames[key] ELSE registry[key]

\* The nodes of the multimap that findActiveCallback(o) may return.
findActiveCallback(o) ==
  {i \in DOMAIN activeCallbacks :
     activeCallbacks[i].cb = o /\ activeCallbacks[i].key = cb[o].deadline}

\* The node update() holds an iterator to: the one of the current callback.
HeldNode ==
  {i \in DOMAIN activeCallbacks : activeCallbacks[i].cb = currentCallback}

\* Variant: new nodes go to the front.
UpperBoundFront(q, k) == {1}

\* Where std::multimap::insert puts key k: behind the keys not greater than k.
UpperBound(q, k) ==
  {p \in 1..(Len(q) + 1) : \A i \in DOMAIN q : q[i].key <= k <=> i < p}

Emplace(q, k, o) == {InsertAt(q, p, [key |-> k, cb |-> o]) : p \in UpperBound(q, k)}

Erase(q, nodes) == IF nodes = {} THEN {q} ELSE {RemoveAt(q, i) : i \in nodes}

\* Variant: the node is extracted and not inserted again.
RekeyDropped(q, nodes, k) == {RemoveAt(q, i) : i \in nodes}

\* extract the node, change its key, insert it again
Rekey(q, nodes, k) ==
  UNION {Emplace(RemoveAt(q, i), k, q[i].cb) : i \in nodes}

\* Objects no shared_ptr refers to any more.
FreeObjs ==
  {o \in Objs :
     /\ \A c \in Callables : registry[c] # o
     /\ \A i \in DOMAIN activeCallbacks : activeCallbacks[i].cb # o
     /\ \A i \in DOMAIN frames : frames[i].cb # o
     /\ currentCallback # o}

Top == frames[Len(frames)]

Running(o) == \E i \in DOMAIN frames : frames[i].cb = o

\* key is the coroutine that makes the call
IsCallingThread(o) == Top.cb = o /\ Top.thread

validateInputInterval(i) ==
  IF i = None THEN DEFAULT_INTERVAL
  ELSE IF i % IntervalRange > MIN_INTERVAL THEN i % IntervalRange ELSE MIN_INTERVAL

\* plugin->elapsedTime() plus the delay, which arrived as a uint16_t
DeadlineAfter(delay) == now + (delay % IntervalRange)

-----------------------------------------------------------------------------
(* Effects shared by the operations *)

\* Variant: only an empty queue wakes the main loop.
maybeAwakenEmpty(objs, deadline) ==
  nextUpdate' = IF activeCallbacks = <<>> THEN now ELSE nextUpdate

\* nextUpdate = now when the new deadline comes before the first one
maybeAwaken(objs, deadline) ==
  nextUpdate' = IF \/ activeCallbacks = <<>>
                   \/ objs[Head(activeCallbacks).cb].deadline > deadline
                THEN now ELSE nextUpdate

\* Variant: the main loop is not told.
onCallbackAwakeForgotten == UNCHANGED nextUpdate

onCallbackAwake == nextUpdate' = now

\* A piece of Lua code ends: control returns to whoever ran it.
Leave ==
  /\ frames' = Front(frames)
  /\ pc' = IF Top.by = "update" THEN "ran" ELSE pc

\* Every API call is made by Lua code that is executing.
Calling ==
  /\ ~ub
  /\ frames # <<>>
  /\ calls < MaxCalls
  /\ calls' = calls + 1

\* Erasing the node of the current callback invalidates update()'s iterator.
HoldsAfterErasing(o, nodes) ==
  [pass EXCEPT !.itValid = @ /\ ~(o = currentCallback /\ nodes # {})]

\* Variant: the name outlives the callback.
UnregisterCallableOnly(o) ==
  /\ registry' = [registry EXCEPT ![cb[o].callable] = None]
  /\ UNCHANGED callbackNames

\* Variant: the listeners of the coroutine's event are not told.
TriggeredNever(event, payload) == event

\* threadEvent:trigger(payload): a SingleEvent keeps its first payload
Triggered(event, payload) == IF event = "pending" THEN payload ELSE event

Unregister(o) ==
  /\ registry' = [registry EXCEPT ![cb[o].callable] = None]
  /\ callbackNames' = [n \in Names |-> IF n = cb[o].name THEN None ELSE callbackNames[n]]

\* actuallyRemoveCallback without an iterator: the node is looked up
ActuallyRemove(o) ==
  LET nodes == IF cb[o].deadline = INDEFINITE THEN {} ELSE findActiveCallback(o)
  IN  /\ Unregister(o)
      /\ activeCallbacks' \in Erase(activeCallbacks, nodes)
      /\ pass' = HoldsAfterErasing(o, nodes)
      /\ UNCHANGED ub

\* actuallyRemoveCallback with the iterator update() holds
ActuallyRemoveHeld(o) ==
  /\ Unregister(o)
  /\ IF cb[o].deadline = INDEFINITE
     THEN UNCHANGED <<activeCallbacks, pass, ub>>
     ELSE /\ activeCallbacks' \in Erase(activeCallbacks, IF pass.itValid THEN HeldNode ELSE {})
          /\ pass' = [pass EXCEPT !.itValid = FALSE]
          /\ ub' = ~pass.itValid

-----------------------------------------------------------------------------
(* addCallback, addCoroutine, callOnce *)

NewCallback(c, name, interval, deadline, once) ==
  [callable |-> c, name |-> name, interval |-> validateInputInterval(interval),
   deadline |-> deadline, status |-> "Idle", runOnce |-> once,
   threadEvent |-> IF c \in Threads THEN "pending" ELSE "none"]

\* The callable is in neither table: a new Callback object is made and queued.
Enqueue(o, c, name, interval, delay, once) ==
  LET deadline == DeadlineAfter(delay) IN
  /\ registry[c] = None
  /\ name \in Names => callbackNames[name] = None
  /\ o \in FreeObjs
  /\ maybeAwaken(cb, deadline)
  /\ cb' = [cb EXCEPT ![o] = NewCallback(c, name, interval, deadline, once)]
  /\ activeCallbacks' \in Emplace(activeCallbacks, deadline, o)
  /\ registry' = [registry EXCEPT ![c] = o]
  /\ callbackNames' = [n \in Names |-> IF n = name THEN o ELSE callbackNames[n]]
  /\ lastAdded' = o

\* The callable is already added under this name: its deadline and interval
\* are changed, its place in the multimap is not.
AlreadyAdded(o, interval, delay) ==
  [cb[o] EXCEPT
     !.deadline = IF delay > 0 THEN DeadlineAfter(delay) ELSE @,
     !.interval = IF interval # None THEN validateInputInterval(interval) ELSE @]

addCallback(c, name, interval, delay) ==
  /\ Calling
  /\ \/ \E o \in Objs : Enqueue(o, c, name, interval, delay, FALSE)
     \/ LET o == registry[c] IN
        /\ o # None
        /\ cb[o].name = name
        /\ delay % IntervalRange > 0 => "readdDelay" \in Usage
        /\ cb' = [cb EXCEPT ![o] = AlreadyAdded(o, interval, delay % IntervalRange)]
        /\ maybeAwaken(cb', cb'[o].deadline)
        /\ UNCHANGED <<queueVars, lastAdded>>
  /\ UNCHANGED <<now, loopVars, pass, frames, pc, events, ub>>

\* callOnce marks lastAdded, whatever addCallback has done; if that object has
\* been freed the mark goes to memory nobody owns.
callOnce(c, delay) ==
  /\ Calling
  /\ c \in Functions
  /\ \/ /\ \E o \in Objs : Enqueue(o, c, None, None, delay, TRUE)
        /\ UNCHANGED ub
     \/ LET o    == registry[c]
            next == [cb EXCEPT ![o] = AlreadyAdded(o, None, delay % IntervalRange)]
        IN  /\ o # None
            /\ cb[o].name = None
            /\ "readdOnce" \in Usage
            /\ delay % IntervalRange > 0 => "readdDelay" \in Usage
            /\ ub' = (lastAdded \in FreeObjs)
            /\ cb' = [next EXCEPT ![lastAdded].runOnce = TRUE]
            /\ maybeAwaken(next, next[o].deadline)
            /\ UNCHANGED <<queueVars, lastAdded>>
  /\ UNCHANGED <<now, loopVars, pass, frames, pc, events>>

\* Action:_initNewThread: the new coroutine is added and _initActionThread runs
\* it at once, inside the Lua code that triggered the event.
initActionThread(c) ==
  /\ Calling
  /\ Len(frames) < MaxDepth
  /\ \E o \in Objs :
       /\ Enqueue(o, c, None, None, 0, FALSE)
       /\ frames' = Append(frames, [by |-> "init", cb |-> o, thread |-> TRUE])
  /\ UNCHANGED <<now, loopVars, pass, pc, events, ub>>

-----------------------------------------------------------------------------
(* removeCallback and the timeouts *)

removeCallback(key) ==
  LET o == findCallback(key) IN
  /\ Calling
  /\ o # None
  /\ Running(o) /\ (IsThread(o) \/ cb[o].runOnce) => "removeRunning" \in Usage
  /\ ActuallyRemove(o)
  /\ cb' = [cb EXCEPT ![o].status = "Removed",
                      ![o].threadEvent = Triggered(@, "removed")]
  /\ UNCHANGED <<now, lastAdded, nextUpdate, loopVars, frames, pc, events>>

\* The Lua wrapper yields when setCallbackTimeout says that the coroutine has
\* set its own timeout.
YieldIfCalling(o) ==
  IF IsCallingThread(o) THEN Leave ELSE UNCHANGED <<frames, pc>>

setCallbackTimeout(key, timeout) ==
  LET o           == findCallback(key)
      newDeadline == now + timeout
      nodes       == findActiveCallback(o)
  IN  /\ Calling
      /\ o # None
      /\ IsCallingThread(o) \/ "timeoutOther" \in Usage
      /\ activeCallbacks' \in IF o = currentCallback \/ nodes = {} THEN {activeCallbacks}
                              ELSE Rekey(activeCallbacks, nodes, newDeadline)
      /\ cb' = [cb EXCEPT ![o].deadline = newDeadline, ![o].status = "Suspended"]
      /\ YieldIfCalling(o)
      /\ UNCHANGED <<now, registry, callbackNames, lastAdded, nextUpdate, loopVars, pass,
                     events, ub>>

setCallbackTimeoutIndefinite(key) ==
  LET o     == findCallback(key)
      nodes == findActiveCallback(o)
  IN  /\ Calling
      /\ o # None
      /\ IsCallingThread(o) \/ "timeoutOther" \in Usage
      /\ cb[o].deadline # INDEFINITE
      /\ activeCallbacks' \in Erase(activeCallbacks, nodes)
      /\ pass' = HoldsAfterErasing(o, nodes)
      /\ cb' = [cb EXCEPT ![o].deadline = INDEFINITE, ![o].status = "Suspended"]
      /\ YieldIfCalling(o)
      /\ UNCHANGED <<now, registry, callbackNames, lastAdded, nextUpdate, loopVars, events, ub>>

\* What the event a coroutine waits for does to wake it up.
cancelCallbackTimeout(key) ==
  LET o     == findCallback(key)
      nodes == findActiveCallback(o)
  IN  /\ Calling
      /\ o # None
      /\ cb[o].status = "Suspended"
      /\ cb' = [cb EXCEPT ![o].deadline = now]
      /\ \/ /\ cb[o].deadline = INDEFINITE
            /\ activeCallbacks' \in Emplace(activeCallbacks, now, o)
            /\ UNCHANGED ub
         \/ /\ cb[o].deadline # INDEFINITE
            /\ ub' = (nodes = {})          \* extract(end())
            /\ activeCallbacks' \in IF nodes = {} THEN {activeCallbacks}
                                    ELSE Rekey(activeCallbacks, nodes, now)
      /\ onCallbackAwake
      /\ UNCHANGED <<now, registry, callbackNames, lastAdded, loopVars, pass, frames, pc,
                     events>>

-----------------------------------------------------------------------------
(* How a piece of Lua code ends *)

\* A function returns, or the listeners of a finished coroutine's event have run.
Return ==
  /\ ~ub
  /\ frames # <<>>
  /\ ~Top.thread
  /\ Leave
  /\ UNCHANGED <<now, cb, queueVars, lastAdded, nextUpdate, loopVars, pass, calls, events, ub>>

\* coroutine.yield() without a timeout
Yield ==
  /\ ~ub
  /\ frames # <<>>
  /\ Top.thread
  /\ Leave
  /\ UNCHANGED <<now, cb, queueVars, lastAdded, nextUpdate, loopVars, pass, calls, events, ub>>

\* The coroutine returns or throws: runThreadCallback removes it, with update()'s
\* iterator or with none, and triggers its event, whose listeners run next.
Finish(payload) ==
  LET o == Top.cb IN
  /\ ~ub
  /\ frames # <<>>
  /\ Top.thread
  /\ IF Top.by = "update" THEN ActuallyRemoveHeld(o) ELSE ActuallyRemove(o)
  /\ cb' = [cb EXCEPT ![o].status = "Removed",
                      ![o].threadEvent = Triggered(@, payload)]
  /\ frames' = [frames EXCEPT ![Len(frames)].thread = FALSE]
  /\ UNCHANGED <<now, lastAdded, nextUpdate, loopVars, pc, calls, events>>

-----------------------------------------------------------------------------
(* update(), called by the main loop when its wait times out *)

UpdateBegin ==
  /\ ~ub
  /\ pc = "wait" /\ frames = <<>>
  /\ nextUpdate # INDEFINITE
  /\ now >= nextUpdate
  /\ pc' = "loop"
  /\ visited' = {}
  /\ UNCHANGED <<now, cb, queueVars, currentCallback, lastAdded, nextUpdate, pass, frames,
                 calls, events, ub>>

\* Variant: the deadline is not looked at.
PassGoesOnEarly ==
  /\ activeCallbacks # <<>>
  /\ Cardinality(visited) # Len(activeCallbacks)
  /\ Head(activeCallbacks).cb \notin visited

\* The first callback is due and has not been run in this pass.
PassGoesOn ==
  /\ activeCallbacks # <<>>
  /\ Cardinality(visited) # Len(activeCallbacks)
  /\ Head(activeCallbacks).key <= now
  /\ Head(activeCallbacks).cb \notin visited

RunCallback ==
  LET node == Head(activeCallbacks) IN
  /\ ~ub
  /\ pc = "loop" /\ frames = <<>>
  /\ PassGoesOn
  /\ pass' = [key |-> node.key, newDeadline |-> now + cb[node.cb].interval, itValid |-> TRUE]
  /\ currentCallback' = node.cb
  /\ cb' = [cb EXCEPT ![node.cb].status = "Active"]
  /\ frames' = <<[by |-> "update", cb |-> node.cb, thread |-> IsThread(node.cb)]>>
  /\ UNCHANGED <<now, queueVars, lastAdded, nextUpdate, visited, pc, calls, events, ub>>

\* The callback has returned to update(): a one-off is removed, a removed or
\* suspended one forgotten, any other one queued again.
RemoveRunOnce ==
  LET o == currentCallback IN
  /\ ~ub
  /\ pc = "ran"
  /\ cb[o].runOnce
  /\ ActuallyRemoveHeld(o)
  /\ cb' = [cb EXCEPT ![o].status = "Removed"]
  /\ pc' = "loop"
  /\ UNCHANGED <<now, lastAdded, nextUpdate, loopVars, frames, calls, events>>

\* Variant: removal during the run goes unnoticed.
IsSuspended(o) == cb[o].deadline = INDEFINITE

IsGone(o) == cb[o].status = "Removed" \/ cb[o].deadline = INDEFINITE

ForgetCallback ==
  LET o == currentCallback IN
  /\ ~ub
  /\ pc = "ran"
  /\ ~cb[o].runOnce /\ IsGone(o)
  /\ pc' = "loop"
  /\ UNCHANGED <<now, cb, queueVars, lastAdded, nextUpdate, loopVars, pass, frames, calls,
                 events, ub>>

RequeueCallback ==
  LET o == currentCallback
      deadline == IF cb[o].deadline = pass.key THEN pass.newDeadline ELSE cb[o].deadline
  IN  /\ ~ub
      /\ pc = "ran"
      /\ ~cb[o].runOnce /\ ~IsGone(o)
      /\ visited' = visited \cup {o}
      /\ cb' = [cb EXCEPT ![o].deadline = deadline]
      /\ ub' = ~pass.itValid
      /\ activeCallbacks' \in IF pass.itValid THEN Rekey(activeCallbacks, HeldNode, deadline)
                              ELSE {activeCallbacks}
      /\ pc' = "loop"
      /\ UNCHANGED <<now, registry, callbackNames, currentCallback, lastAdded, nextUpdate,
                     pass, frames, calls, events>>

UpdateEnd ==
  /\ ~ub
  /\ pc = "loop" /\ frames = <<>>
  /\ ~PassGoesOn
  /\ currentCallback' = None
  /\ nextUpdate' = IF activeCallbacks = <<>> THEN INDEFINITE ELSE Head(activeCallbacks).key
  /\ pc' = "wait"
  /\ visited' = {}
  /\ UNCHANGED <<now, cb, queueVars, lastAdded, pass, frames, calls, events, ub>>

-----------------------------------------------------------------------------
(* The rest of the main loop, and time *)

\* FSL2LuaScript::onEvent: a key, a joystick or a queued C++ callback runs Lua code.
OnEvent ==
  /\ ~ub
  /\ pc = "wait" /\ frames = <<>>
  /\ events < MaxEvents
  /\ events' = events + 1
  /\ frames' = <<[by |-> "event", cb |-> None, thread |-> FALSE]>>
  /\ UNCHANGED <<now, cb, queueVars, lastAdded, nextUpdate, loopVars, pass, pc, calls, ub>>

Tick ==
  /\ ~ub
  /\ now < MaxTime
  /\ now' = now + 1
  /\ UNCHANGED <<cb, queueVars, lastAdded, nextUpdate, loopVars, pass, frames, pc, calls,
                 events, ub>>

Unused == [callable |-> None, name |-> None, interval |-> DEFAULT_INTERVAL, deadline |-> 0,
           status |-> "Removed", runOnce |-> FALSE, threadEvent |-> "none"]

Init ==
  /\ now = 0
  /\ cb = [o \in Objs |-> Unused]
  /\ activeCallbacks = <<>>
  /\ registry = [c \in Callables |-> None]
  /\ callbackNames = [n \in Names |-> None]
  /\ currentCallback = None
  /\ lastAdded = None
  /\ nextUpdate = 0
  /\ visited = {}
  /\ pass = [key |-> 0, newDeadline |-> 0, itValid |-> FALSE]
  /\ frames = <<>>
  /\ pc = "wait"
  /\ calls = 0
  /\ events = 0
  /\ ub = FALSE

addAnyCallback ==
  \E c \in Callables, n \in Names \cup {None}, i \in Intervals \cup {None}, d \in Delays :
    addCallback(c, n, i, d)

callAnyOnce == \E c \in Functions, d \in Delays : callOnce(c, d)

initAnyActionThread == \E c \in Threads : initActionThread(c)

removeAnyCallback == \E key \in Callables \cup Names : removeCallback(key)

setAnyTimeout ==
  \E key \in Callables \cup Names :
    \/ \E t \in Timeouts : setCallbackTimeout(key, t)
    \/ setCallbackTimeoutIndefinite(key)

cancelAnyTimeout == \E key \in Callables \cup Names : cancelCallbackTimeout(key)

LuaCode ==
  \/ addAnyCallback
  \/ callAnyOnce
  \/ initAnyActionThread
  \/ removeAnyCallback
  \/ setAnyTimeout
  \/ cancelAnyTimeout

LuaEnds ==
  \/ Return
  \/ Yield
  \/ \E payload \in {"returned", "removed"} : Finish(payload)

update ==
  \/ UpdateBegin
  \/ RunCallback
  \/ RemoveRunOnce
  \/ ForgetCallback
  \/ RequeueCallback
  \/ UpdateEnd

Next == LuaCode \/ LuaEnds \/ update \/ OnEvent \/ Tick

Spec == Init /\ [][Next]_vars

\* The script's thread keeps running, every piece of Lua code comes to an end
\* and the clock advances.
Fairness ==
  /\ WF_vars(update)
  /\ WF_vars(LuaEnds)
  /\ WF_vars(Tick)

FairSpec == Spec /\ Fairness

-----------------------------------------------------------------------------
(* Properties *)

Time == Nat

CallbackType ==
  [callable : Callables \cup {None}, name : Names \cup {None}, interval : Nat \ {0},
   deadline : Time, status : Status, runOnce : BOOLEAN,
   threadEvent : {"none", "pending", "returned", "removed"}]

Node == [key : Time, cb : Objs]

Frame == [by : {"event", "update", "init"}, cb : Objs \cup {None}, thread : BOOLEAN]

\* The state of the runner stays within its types.
TypeOK ==
  /\ now \in 0..MaxTime
  /\ cb \in [Objs -> CallbackType]
  /\ activeCallbacks \in Seq(Node)
  /\ registry \in [Callables -> Objs \cup {None}]
  /\ callbackNames \in [Names -> Objs \cup {None}]
  /\ currentCallback \in Objs \cup {None}
  /\ lastAdded \in Objs \cup {None}
  /\ nextUpdate \in Time
  /\ visited \subseteq Objs
  /\ pass \in [key : Time, newDeadline : Time, itValid : BOOLEAN]
  /\ frames \in Seq(Frame)
  /\ pc \in {"wait", "loop", "ran"}
  /\ calls \in 0..MaxCalls
  /\ events \in 0..MaxEvents
  /\ ub \in BOOLEAN

Registered(o) == \E c \in Callables : registry[c] = o

\* In the middle of the run of o, whose node update() will queue again.
BeingRun(o) == o = currentCallback /\ (pc = "ran" \/ \E i \in DOMAIN frames : frames[i].by = "update")

\* No step dereferences an iterator or a pointer that an earlier step has
\* invalidated: update() may still use the one it holds when the callback has
\* returned, cancelCallbackTimeout finds the node it extracts.
NoInvalidIterator == ~ub

\* A callback that has been added, is not suspended without a timeout and is
\* not being run has exactly one node, at its own deadline: nothing that should
\* run is lost, nothing is run twice for one deadline.
NothingLost ==
  \A c \in Callables :
    LET o == registry[c] IN
    o # None =>
      LET nodes == {i \in DOMAIN activeCallbacks : activeCallbacks[i].cb = o} IN
      IF cb[o].deadline = INDEFINITE THEN nodes = {}
      ELSE /\ Cardinality(nodes) = 1
           /\ \A i \in nodes :
                activeCallbacks[i].key = IF BeingRun(o) THEN pass.key ELSE cb[o].deadline

\* A callback whose removal has completed has no node left, and no name: the names
\* scripts remove callbacks by denote registered ones, each the one that was added
\* under that name.
NoZombies ==
  /\ \A i \in DOMAIN activeCallbacks :
       LET o == activeCallbacks[i].cb IN Registered(o) /\ cb[o].status # "Removed"
  /\ \A o \in Objs, n \in Names :
       callbackNames[n] = o <=> Registered(o) /\ cb[o].name = n

\* The queue has a node for each callback that should run, at its deadline, and for no
\* other, whatever the callbacks that update() runs add, remove, suspend or cancel.
QueueExact == TypeOK /\ NothingLost /\ NoZombies

\* The main loop never sleeps past a deadline: when it waits, or Lua code run by
\* one of its events does, the first node is no earlier than the wake-up.
WakesInTime ==
  pc = "wait" /\ activeCallbacks # <<>> =>
    nextUpdate <= Head(activeCallbacks).key \/ nextUpdate <= now

\* Whoever awaits a coroutine is told: once it is no longer among the callbacks
\* its event has been triggered.
ThreadEventTriggered ==
  \A o \in Objs : cb[o].threadEvent = "pending" => Registered(o)

\* A callback that is due is run, or removed, or put off, sooner or later, unless
\* an invalid iterator has ended the program.
DueCallbacksRun ==
  \A o \in Objs :
    (\E i \in DOMAIN activeCallbacks : activeCallbacks[i].cb = o /\ activeCallbacks[i].key <= now)
      ~> \/ Running(o) \/ ub
         \/ \A i \in DOMAIN activeCallbacks : activeCallbacks[i].cb = o => activeCallbacks[i].key > now

-----------------------------------------------------------------------------
(* The runner implements the queue of timers: deadlines of registered callbacks *)
(* are its deadlines, and the callable run is the one update() is running.      *)

deadlineOf ==
  [c \in Callables |-> IF registry[c] = None THEN None ELSE cb[registry[c]].deadline]

runByUpdate ==
  IF \E i \in DOMAIN frames : frames[i].by = "update"
  THEN cb[currentCallback].callable ELSE None

Timers == INSTANCE TimerQueue WITH pending <- deadlineOf, running <- runByUpdate

\* Each step of the runner is a step the abstract queue may take: callbacks run
\* only when due, earliest deadline first, one at a time.
ImplementsTimerQueue == Timers!Spec
=============================================================================
