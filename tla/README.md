# Copilot for FSLabs: specifications

TLA+ specifications of the parts of *Copilot for FSLabs* in which the order of
things matters: the timer queue every Lua script runs on; the event library scripts
are written with, the sort that puts an event's actions in order and the waits for
events; the threads that launch, restart and stop scripts; the simulator's events
and text menus, which its thread hands to them; the voice commands and the
recognizer's threads; checklists; the phases of a flight, and the checks of
brakes and controls that depend on them. TLC checks them on small instances; the
proof system TLAPS proves theorems about them for every value of the constants.

Paths below are relative to `src/`; `copilot/` stands for `Prepar3D vx
Add-ons/Copilot for FSLabs/Copilot/copilot/`.

## The system

Copilot for FSLabs is a simulator add-on. A C++ host (`Copilot/`) is loaded into
Prepar3D, talks to the simulator, the microphone, the sound device and the
joysticks, and runs Lua scripts, each in an OS thread and a Lua state of its own.
The main script is the copilot itself, a Lua library (`copilot/`) that performs
flows, makes callouts and runs checklists; users add scripts of theirs.

| component | state | operations | interacts with |
|---|---|---|---|
| Callback runner (`Copilot/CallbackRunner.*`) | a multimap from deadlines to callbacks, a table of callbacks by callable and one by name, the callback being run, the next wake-up | add, add a coroutine, call once, remove, set, cancel a timeout, run what is due | Lua code calls it and is called by it; the main loop waits until the next wake-up |
| Script main loop (`Copilot/FSL2LuaScript.*`) | handles waited for, C++ callbacks queued from other threads, phrases to be spoken | wait, dispatch an input event, run a queued callback, update the callback runner | keyboard, joysticks, recognizer, simulator threads set its handles |
| Event library (`copilot/Event.lua`, `Action.lua`, `ActionOrderSetter.lua`, `SingleEvent.lua`, `EventUtils.lua`) | per event: actions, their order graph, the sorted list, one-offs, the dispatch flag; one queue of deferred events; the coroutine of each action | add, remove, order, enable actions; trigger; stop a coroutine; wait for events with and without a timeout | coroutines and the deferred queue are callbacks of the runner |
| Topological sort (`libs/ouroboros.lua`) | marks, stack, output of a depth-first search | sort | sorts the actions of an event |
| Script lifecycle (`Copilot/LuaPlugin.*`, `CopilotScript.*`) | list of scripts, each with a mutex and perhaps an instance; a thread and a shutdown handle per instance | launch, restart, stop, stop all, send shutdown events | host thread, UI thread, script threads |
| Speech recognition (`Copilot/Recognizer*`, `copilot/VoiceCommand.lua`, `PhraseUtils.lua`) | per rule: state (active, inactive, ignored, disabled), persistence, phrases, dummy phrases | activate, ignore, deactivate, disable, add and remove phrases, recognize | a recognizer thread queues callbacks for the script's main loop |
| Checklists (`copilot/Checklist.lua`) | active checklist, its items, suspended voice commands | trigger, respond, repeat, skip, restart, cancel | voice commands, a coroutine action |
| Flight phases (`copilot/FlightPhaseProcessor.lua`) | phase, what each phase has seen, timers, the callback that watches the chocks | poll the simulator, change phase | triggers the events everything else listens to |
| Flight control check (`copilot/FlightControlCheck.lua`) | the parts of each axis that have been seen, a timeout | poll controls | a coroutine action of `callouts.lua` |
| Procedures, callouts, failures (`copilot/actions.lua`, `sequences.lua`, `callouts.lua`, `failures.lua`) | flags of the checks before takeoff, little else | sequences of cockpit operations, the checks of brakes and flight controls | coroutine actions of flight events; voice commands |
| Simulator events (`Copilot/SimConnect.*`, `SystemEventLuaManager.h`, the wrappers in `FSL2LuaScript.cpp`) | an object for each named event, with its callbacks, and for each text menu; a map from names and one from numbers to them; the scripts that listen to a system event | subscribe, unsubscribe, show a menu; dispatch; destructors | scripts' threads, the simulator's thread, whoever deletes a script; callbacks are put in the scripts' queues |
| Simulator, MCDU, keyboard, joysticks, sound (`Copilot/SimInterface*`, `Mcdu*`, `Key*`, `Joystick*`, `Sound*`) | device state, queues of input events | polling, callbacks | set the handles the main loops wait for |

What is hard here:

* **Re-entrance.** One thread runs a script, but its C++ and Lua code call each
  other: `update()` runs a callback that removes, adds, suspends or wakes callbacks
  while `update()` holds an iterator; an action triggers the event that is running
  it, or edits its list.
* **Coroutines.** An action goes on after the dispatch that has started it. It may
  be awaited, suspended with or without a timeout, woken by an event, and stopped
  from outside, at any yield.
* **Polling.** The flight phases and the checks look at the simulator now and then,
  and remember what they have seen in local variables; they are told to stop, by
  events, in the middle.
* **Threads.** The recognizer, the simulator interface and the UI act on scripts
  from other threads; scripts are stopped and restarted while they run.
* **Time.** Deadlines, intervals and delays of different widths; a wake-up that is
  computed too late is a callback that is not run.

What makes each component correct:

* callback runner: what has been added and not removed runs, when it is due and not
  before, in the order of the deadlines; what has been removed does not; whoever
  awaits a coroutine is told how it has ended; no iterator is used after its node is
  gone;
* event library: an event triggered is dispatched, once, to each of its actions in
  the order asked for; the list that is being run does not change under the loop; a
  coroutine that waits for others is resumed when they have ended;
* sort: the order is topological, and exists exactly when there is no cycle;
* lifecycle: no two threads wait for each other; no script is used after it has been
  deleted; every script that is to end does;
* simulator events: who has subscribed hears; what an event is found by goes when the
  last script has gone; a menu lives until its result has been handled, and no
  longer;
* waits: each ends once, with what happened first, and leaves nothing behind that
  could end a later one;
* recognition: a command is run once for each activation; the recognizer's rules
  agree with the commands' states, and the engine with the phrases;
* checklists: every voice command a checklist suspends is given back as it was last
  wanted; none of its own stays on; it ends;
* flight phases: the events come in the orders their listeners rely on, and what
  lasts is noticed;
* checks before takeoff: the command one of them puts aside comes back, and none
  outlives its time, however it is stopped.

`PROJECT.json` lists the hazards at their lines, with the properties that cover
them.

## Modules

| module | models |
|---|---|
| `TimerQueue` | what a script may rely on: callables with deadlines; one runs at a time, when due, earliest first |
| `CallbackRunner` | `CallbackRunner.{h,cpp}`, the loop of `FSL2LuaScript::run` around it, the wrapper of `setCallbackTimeout` in `common.lua` |
| `MCCallbackRunner` | symmetry for TLC |
| `CallbackRunnerProofs` | theorems about `CallbackRunner` |
| `EventDispatch` | `Event.lua` (dispatch, queue, actions), `Action.lua`, `ActionOrderSetter.lua` |
| `MCEventDispatch` | initial lists of actions for TLC |
| `EventDispatchProofs` | theorems about `EventDispatch` and `TopologicalSort`, and that the sort is what `EventDispatch` takes it for |
| `WaitForEvent` | `Event.lua` (`waitForEvent(s)`, with and without timeouts), `SingleEvent.lua`, the events of coroutines that end |
| `MCWaitForEvent` | coroutines and events for TLC |
| `WaitForEventProofs` | theorems about `WaitForEvent` |
| `TopologicalSort` | `libs/ouroboros.lua`, as `Event.lua` calls it: the depth-first search, step by step |
| `ScriptLifecycle` | `LuaPlugin.{h,cpp}`: the list of scripts and its mutexes, launch, restart, stop, `withScript`; the threads of a script (`FSL2LuaScript::run`, its destructor); who calls them (`Copilot.cpp`, the menus, Lua) |
| `MCScriptLifecycle` | scripts, uses of the API and symmetry for TLC |
| `ScriptLifecycleProofs` | theorems about `ScriptLifecycle` |
| `SimEvents` | `SimConnect.cpp` (named events), `SystemEventLuaManager.h`, the wrapper of named events in `FSL2LuaScript.cpp` |
| `TextMenu` | `SimConnect.cpp` (text menus), `LuaTextMenu` in `FSL2LuaScript.cpp` |
| `MCSimConnect` | `SimEvents` and `TextMenu` for TLC, symmetry |
| `SimConnectProofs` | theorems about `SimEvents` and `TextMenu` |
| `Recognizer` | `Recognizer.{h,cpp}` (rules), `RecognizerCallback.cpp` (the thread that fetches results), the callbacks it queues for the script, `VoiceCommand.lua` and `PhraseUtils.lua` over them |
| `RecognizerProofs` | theorems about `Recognizer` |
| `Checklist` | `Checklist.lua`, and the suspension of commands of `VoiceCommand.lua`, over an instance of `Recognizer` |
| `MCChecklist` | two checklists for TLC |
| `ChecklistProofs` | theorems about `Checklist` |
| `FlightEvents` | what a listener may rely on: the orders the events of a flight come in |
| `FlightPhase` | `FlightPhaseProcessor.lua`, shown to implement `FlightEvents` |
| `ControlChecks` | `FlightControlCheck.lua`, the checks of brakes and controls of `callouts.lua`, what `actions.lua` does to their commands; driven by an instance of `FlightEvents` |
| `MCFlight` | `FlightPhase` and `ControlChecks` for TLC |
| `FlightProofs` | that `FlightPhase` implements `FlightEvents`; theorems about `ControlChecks` |

### CallbackRunner

The variables are the class's fields and the locals of `update()` that outlive a
call into Lua. The multimap is a sequence of nodes in iteration order, so that the
key of a node and the deadline of the callback it holds can differ, as they do in
the code between a change of the deadline and the next extraction. `pass.itValid`
says whether the iterator `update()` holds still refers to a node; to use it when it
does not sets `ub`, and the model stops there, since the C++ standard says nothing
of what follows.

`frames` is the stack of pieces of Lua code being executed. Each piece makes any
calls of the API in any order, and ends: it returns, yields, or finishes as a
coroutine. A coroutine started by `_initActionThread` runs inside the code that
started it. `update()` is four steps: start a callback, and one of remove, forget,
queue again when it has come back; `UpdateEnd` computes the next wake-up. `Callback`
objects come from a pool, `Objs`, and one is free when no `shared_ptr` refers to it,
so that a raw pointer (`lastAdded`) can dangle.

Some calls defeat the runner's own bookkeeping, as the code stands. They are named
by `Usage`; a run states which of them scripts may make:

* `readdDelay`: `addCallback` with a delay on a callable already added changes the
  deadline but not the node's key;
* `readdOnce`: `callOnce` on a callable already added marks whatever was added last;
* `removeRunning`: removal of a coroutine or one-off while it runs;
* `timeoutOther`: `setCallbackTimeout` on anything but the coroutine that calls.

`TimerQueue` keeps of this a set of callables with deadlines. The refinement maps
the deadlines of the registered callbacks to its deadlines, and says that a pass
runs the earliest callable that is due, one at a time, and none that has been
removed.

### EventDispatch

One record per event holds its fields. `nodes[a]` are the actions that come before
`a`, as in the code. Again a stack of frames says who called whom: a piece of Lua
code, a dispatch loop with its index and the length it was started with, or
`processEventQueue` with its bounds. A coroutine that yields leaves the stack, and
is resumed when nothing it waits for is left. The depth-first sort is the set of
orders it may return (`Orders`), since Lua's `pairs` promises no order; that it
returns one of those, and fails just when there is none, is proved of
`TopologicalSort` (`SortImplementsOrders`). A sort that fails has edited the graph
before it failed: it has dropped some of the dependencies on actions that are gone.
`Remaining` is the list without the actions that have been removed, of an action
that is in it twice without its last occurrence; it is a function and not
`SelectSeq`, since no prover follows an operator that is an argument.

Four things that scripts may do defeat the library's own bookkeeping, and are named
by `Usage`:

* `addedTwice`: `addAction` does not ask whether the event has the action already
  (`Event.lua:100`). The action loses its dependencies and is in the list a second
  time; it is run twice, and its removal takes one occurrence only. The other is
  still run, and if it is a coroutine the dispatch throws there and leaves
  `inDispatch` set for good (`TurnFails`);
* `readd`: an action that is removed and added again has no dependencies any more,
  while others keep theirs on it, and the list still counts as sorted
  (`Event.lua:110`);
* `foreign`: an order by which an action that is not on the event is to come behind
  another throws half done (`ActionOrderSetter.lua:50`), with edges added and the
  list not marked unsorted. That an action is to come behind a foreign one is no
  such thing: the sort drops the edge;
* `functionWaits`: an order that waits for a coroutine, asked of a function, throws
  when the dependency is in the graph and the list not yet marked unsorted.

Left out: a function action that itself yields the coroutine which has triggered the
event (cockpit controls do); child events; what listeners of `doneEvent` other than
waiting coroutines do; payloads.

### WaitForEvent

A coroutine asks for one or all of a list of events, without a timeout, with one, or
with none to spare (`zero`). `Begin` is the whole of the call up to the yield:
events that are signalled once and have been are taken at once (`Before`, in the
order they are asked for), and to each event a one-off action is added, which a
single event that has been signalled runs at once and keeps. A wait that need not be
suspended removes its actions again; `waitForEventWithTimeout` (`several` is
`FALSE`) does not when its event has been signalled (`Event.lua:321`). `wait[t]` holds
the variables its closures share: what it has got, and what came first. `Triggered`
is the trigger of an event with all it runs: the actions of the waits and their
`cancelCallbackTimeout`, and, when the event is the end of a coroutine, the removal
of what that coroutine was waiting with. The coroutine is resumed in a later step
(`Resume`), since the callback runner comes to it when it comes to it; between the
two more events may happen, the timeout may run out, the coroutine may be removed.
`happened` and `elapsed` only remember what took place, for `ReturnsWhatHappened`.

A wait may name an event twice (`repeated`, in `Usage`). It adds two actions to it
and keeps the last in its table (`Event.lua:425`), so that the first, whose `known`
is `FALSE`, stays with the event when the wait ends otherwise.

A trigger is one step: what happens inside a dispatch is the subject of
`EventDispatch`, and the order in which coroutines that are due are resumed that of
`CallbackRunner`. A wait leaves its action on the event of its own coroutine's end
until it has ended; the actions on events it no longer needs go with it.

### TopologicalSort

`_visit` is recursive. Its calls are the sequence `stack`, innermost last: each has
its node `k` and the dependencies `pairs` has still to give it, `todo`. A step deals
with one dependency: forgotten, because it is not a node any more; skipped, because
it is `DEAD`; visited by a call of its own; or, because a call that is still open is
`PROCESSING` it, the start of a cycle. From then on the open calls return one by one
(`Unwind`), and each adds its node to `cycle` until one finds its node there
already. The initial states are all graphs over the nodes, dependencies on nodes
that have been removed included. Left out: the callback that resolves cycles, which
the event library does not pass.

### ScriptLifecycle

The threads are those detached for a menu entry, the simulator's own, and the thread
of each script. `stack[t]` holds the calls thread `t` has not returned from: a
launch deletes the old script inside it, and the deletion closes the Lua state,
whose finalisers (of text menus and SimConnect events) call `withScript`. Between
two steps of a call lie the places where the code takes a mutex, joins a thread or
works without a mutex; `globalMutex` and the mutex of each entry are recursive, with
an owner and a count. `stopThread`, the joins and the end of `~LuaPlugin` are steps
of `Delete`.

An entry is looked for by its path or its script's ID. `Ref` is a reference to an
element of the vector, which dies when the vector moves its elements: the capacity
is not modelled, so that each `emplace_back` may or may not move them. To use a dead
reference, or a script that has been deleted, sets `ub`, and the model stops.

A script's thread is starting (it has been created but `running` is not yet set), in
the script's own code, in the main loop, or ended; its background thread has the
same states. `running` is seen by the hook Lua calls, `shutdownEvent` by the waits.

As with the callback runner, not every use is safe, and `usage` says which of them a
behaviour is about. What `script_lifecycle` takes together are the combinations in
which nothing goes wrong: scripts that are launched and restarted, by menus and by
one another, while the simulator hands events to them and finalisers run as they are
deleted; scripts that are also stopped, all at once too, and launched in two steps
by `loadScriptsIni`, but have no finalisers; scripts that run finalisers and send
messages to the simulator's window, but are neither restarted nor stopped. Put
together otherwise, TLC finds a deadlock:

* `stop`, `launch` and `close`: the stop holds the entry's mutex and needs the
  list's, the restart holds the list's and needs the entry's;
* `collect` beside `stop` or `launch`: a finaliser on the script's own thread waits
  for the entry's mutex, held by whoever joins that thread. A restart hides the
  entry first, but the finaliser may have found it before;
* `control` beside `stopAll`: the script's thread waits for the simulator's thread,
  which joins it.

Left out: a script that stops itself, or stops the one that stops it (a thread would
join itself); the mutexes of the SimConnect events and of `SystemEventLuaManager`,
which `SimEvents` has; torn reads of a path or an ID (they are written
under the entry's mutex and read under the list's); `sendShutDownEvents`, which
nothing calls.

### SimEvents

The actors are the scripts, each its thread and then whoever deletes it (`phase`
says how far that is), and the simulator's thread. What is modelled of a mutex is
whether it can be had: `eventsMutex` is kept from one step to the next only in
`dispatch`, the manager's only in `onEvent`, and a script's entry while the script
is being stopped (`EntryLocked`). All else that is done under a mutex is one step;
what the code reads without it (`subscribed`, `callbacks.empty()`), and the calls of
the simulator before it is taken, are steps of their own.

There is one name, and an object for each time the name is made anew. `events` and
`namedEvents` hold weak pointers: one is good as long as somebody is in `refs`. The
last that lets go destroys the object, in two steps (`Unname`, `Forget`), a script
that is deleted as well as the simulator's thread, which holds the object while it
dispatches; between the last release and `Unname` the pointer of the name is null
(`NullObject`), and a script that asks then is given a null pointer, which its
wrapper uses. The model stops there. `null` is not forbidden: `NullWhileDestroyed`
says when it may be.

`DeadlockOnlyNamed` is about the circle that is there: the simulator's thread hands
a named event to a script that is being stopped, and waits for its entry, while the
script, or who deletes it, waits for `eventsMutex`. TLC reaches it. That the manager
of system events cannot get into one is due to a script's registering once: what it
walks over has registered.

`simUsage` names what the properties do not all hold for: a script that subscribes
twice (`again`), whose first callback stays with the event, and an event that the
simulator sends while nobody has it (`stray`), for which `onCustomEvent` makes an
empty entry that a later `emplace` does not replace.

Left out: `unregisterScript`, called only for a registered script without an Event,
which does not happen; the simulator's subscription to a system event;
`stopAllScripts` on the simulator's own thread; `globalMutex`, which `ScriptLifecycle`
has; payloads, `transmit`, names other than one.

### TextMenu

One menu of one script. `entry` is what the simulator's thread finds the menu by;
`owed` counts the results it has yet to send, `queue` the callbacks in the script's
queue. Lua holds the menu (`held`) if the script refers to it, the registry has it
(`anchored`, from `show` to the callback), or the collector has not come by. The
callback uses the menu through a plain pointer, twice: `Exists` says whether there
still is one, and `freed` names the use of one there is not; the model stops there.
The menu on the screen is external: a message may come as soon as `SimConnect_Text`
has been called, and each such call is answered by one result.

`menuUsage` says what a behaviour has: scripts that keep no reference (`drop`), show
the menu again too soon (`again`), or show one that is not complete (`invalid`); a
message that overtakes the thread that has shown the menu (`early`), a callback that
overtakes the simulator's thread before it has erased the entry (`quick`).

Left out: what a menu shows, the buffer it is built in, `cancel` (whose answer is a
result like others), the references of the callback and the event, of which
`~LuaTextMenu` lets go by way of the script's queue.

### Recognizer

Each method of `Recognizer` is one step. The mutex is held over what it does to the
rules; `resetGrammar` gives it up before it makes the engine pause, commit and go on
(`Recognizer.cpp:532`), and `pause` and `resume` do without, but all three are
called by the script's own thread only, and the thread that fetches results looks at
nothing they change there.
The thread that fetches a result takes four: it takes the result out (`GetResult`),
looks the rule's state up, uses the rule up (`afterRecoEvent`), and enqueues the
callback; the script, whose calls are the other steps, may change the rule between
any two. `queue` holds callbacks until the main loop runs them.

`on` is the state that was last given to the engine, `phrases` and `grammar` say
whether the list a rule keeps, and the engine's rule, have any; `committed` are the
rules the engine has after the last `resetGrammar`. The engine is external: it may
hear a rule that is on, and committed, while it listens. It may hear a phrase that
the script has removed in the meantime; `Hear` says what the code relies on. `armed`
only remembers activations, for `OnceForEachActivation`.

`HeardCommandsTrigger` has two halves. `HeardCommandsPass`: what is heard of an
active command is found active when the thread looks the rule up, unless the script
changes the rule or the key is pressed before that; it speaks of results that are
next in line while no recognition is under way, as one of those may use the command
up itself. `PassedCommandsTrigger`: from the look-up on there are no exceptions, and
the callback gets into the script's queue although `afterRecoEvent` has changed the
rule's state by then.

Two weaknesses of the code are part of the model. `removeAllPhrases`, called for
dummy phrases, clears the engine's rule of the command instead of the dummy rule's
(`Recognizer.cpp:482`): the rules this has happened to are in `wiped`, and
`GrammarFollowsPhrases` says nothing of them. First dummy phrases that are added
while a command is on make a dummy rule that is off (`DummyWhileOn`): the run and
the theorem about `EngineFollowsState` take scripts that do not do this.
`VoiceCommand:disable` calls a name that does not exist (`VoiceCommand.lua:230`) and
throws, so that no Lua code disables a command; the model has the method of
`Recognizer` nevertheless.

Left out: texts of phrases, confidences as numbers (a result is confident or is
not), the set-up of the engine.

### Checklist

A checklist is a coroutine of the script, and between two of its waits nothing else
of the script runs: what it does there is one step, computed on a record of the
variables it changes. `at` is the wait it is in, `event` what has ended it; the
thread of the recognizer, phrases, menu selections and other parts of the script
come in between. Two checklists share commands, and either may be triggered while
the other is executed.

`wanted` is the state that each of the other commands was last put in, by a script,
by the checklist that gives its trigger back, or by the recognizer itself when it
uses a command up; it is what `StatesRestored` compares with. `raced` are commands
that were recognized in the very moment they were suspended: the thread of the
recognizer uses them up behind the checklist's back, and the checklist gives them
back as they were. `failed` says that a checklist's coroutine has thrown: it is
given up then, and the commands stay suspended. `PersistenceAssumption` says that no
command of a checklist's own is made with `persistent = "ignore"`: one recognized
just as the checklist turns it off would be put in ignore mode afterwards, and stay
there. Only the lineup command of `actions.lua` is made so.

Left out: the editing of checklists, which events make them available
(`initChecklists.lua`), the mute key, removal of the coroutine from outside.

### FlightPhase and FlightEvents

A step of `FlightPhase` is one iteration of a phase's loop, up to its
`copilot.suspend`; `at` says which loop it is suspended in. What it reads of the
simulator is `sim`: a few values of each quantity, as the code compares it. The
simulator may change any of them between two iterations, or leave all alone; a time
stamp is `recent` until enough time has passed.

`FlightEvents` is the abstraction: seven stages and whether chocks are set, and the
events that may come in each. A listener that knows `FlightEvents` need not know
thrust levers and ground speeds, and `ControlChecks` is composed with it instead of
`FlightPhase`.

The model keeps what the code does where one may not expect it. Engine 1 is looked
at twice (`FlightPhaseProcessor.lua:175`), so that engine 2 does not matter.
`triggeredGoAround` is forgotten in two phases only, so that a climb after a
go-around may go unnoticed: `ClimbNoticed` leaves this out. An aircraft that takes
off again from its rollout stays there unless it is with the thrust of a go-around.
The inner loop of the taxi phase does not look at the engines. A rollout that is
slow within 500 ms of the touchdown triggers no `landing`.

The action of `engineShutdown` that ends the watch of the chocks is added when the
watch's callback runs for the first time (`FlightPhaseProcessor.lua:158`). The model
has it from the start: it leaves out engines that are shut down before that, within
the same run of the coroutine.

### ControlChecks

The pilot's side of the check is polled part by part: each axis is moved to its ends
and back to neutral, one axis at a time, with ten seconds for the next part. The
pilot monitoring's six moves are one step that may time out. The brake check is one
step. An error of either side that is not the timeout ends the coroutine
(`CheckFails`): the flags and the command stay as they are, and `failed` remembers
that the brake check's command has been left aside, until an event of the flight
switches it. The commands' callbacks are delivered late (`recognized`), when the flight has
perhaps gone on: a check that is started so is `belated`. With and without voice
control the coroutines are started and repeated differently; both are behaviours of
the model.

`controls = "hung"` is the loop of `callouts.lua:396` that repeats without
suspending: without voice control, once the controls have been checked, a takeoff
that is cancelled starts it. The script's thread does nothing any more then.

## Runs

| run | question | result |
|---|---|---|
| `callback_runner` | scripts that use the API without the four hazards | no iterator dies under `update()`; nothing lost, nothing left behind; names, registry and multimap agree; the main loop wakes in time; every coroutine's event is triggered; implements `TimerQueue` |
| `callback_runner_reused` | scripts that re-arm with `callOnce` and remove what is running | what is due is run, until an invalid iterator is used |
| `event_dispatch` | listeners that trigger, edit and order, without the four uses | dispatches are not re-entered; list, graph and order agree; the list is stable under the loop; no coroutine waits for one that has ended |
| `event_queue` | `QueuedEventsScheduled` | violated: once drained, the queue is not scheduled again |
| `wait_for_event` | two coroutines that wait for one or all of several events, for one another, with and without timeouts, and are removed | a wait returns what happened first, leaves no action behind with an event that may still be triggered, and ends |
| `topological_sort` | every graph, every traversal | a sort that succeeds is topological; it fails exactly on cycles, forgets only what is gone, and ends |
| `script_lifecycle` | three overlapping calls, in the safe combinations of uses | no circle of waiting threads; no deleted script is used; no script is left that nobody can stop; every call returns; `stopAllScripts` leaves none |
| `sim_connect` | two scripts that share a named event and a system event and are stopped at any moment; or a text menu that is shown up to three times, with seven sets of usages | who listens hears; one object for all; nothing is left of what has gone; a circle of waiting over named events only; nothing changes under the simulator's thread; a menu is found and lives until its result has been handled, and no longer; undefined uses in the usages named only |
| `recognizer` | a script that changes states, phrases and persistence between any two steps of the thread that fetches results | the engine follows the rules and knows their phrases; one recognition for each activation; dummy phrases trigger nothing; what is heard of an active command gets past the look-up, and from there to the script's queue, whatever becomes of the command's state |
| `checklist` | two checklists that share commands, with phrases, menu selections and changes by other scripts at any moment | suspended commands are off, and come back as they were last wanted; no command of a checklist's own stays on; every checklist ends |
| `checklist_skip` | `NeverThrows` | violated: a menu selection during a check that is a coroutine makes the checklist throw |
| `flight` | whatever the simulator may show; or every order of events `FlightEvents` allows, late commands, any moves of the pilot | implements `FlightEvents`; a shutdown and a climb that last are noticed; the brake check's command is given back, unless the check ends by an error; checks are made while taxiing only; a check that has begun ends |

The type invariants are conjuncts of a safety invariant of their module, and that of
`FlightPhase` of its refinement. All are proved. Invariants that belong together are
conjuncts of one that is checked (`QueueExact`, `OrderOrFailure`, `EngineInStep`,
`OnlyActivatedTrigger`, `SuspendedAndRestored`, `ListenersHear`, `ObjectOfName`,
`LivesUntilHandled`); each conjunct has a name, a comment and a theorem of its own.

`flight` and `sim_connect` check two modules each, whose states together would be
too many. A behaviour is one of the first module or one of the second, while the
other is as it began: `FlightUnused`, `ChecksUnused`, `EventsUnused` and
`MenuUnused` are states at which a module may stay, and the fairness of the steps is
what the modules state. Nothing that matters is lost by this. `ControlChecks` has
all the events that `FlightPhase` is shown to trigger. A menu shares with the events
the simulator's thread and `eventsMutex`, but no entry of the map, and takes the
mutex for single steps: `Emplace`, `Collect` and `Close` have to wait for a dispatch
to end, which leaves out orders of steps and adds none. A script that waits there
while it is being stopped can be in the circle that `DeadlockOnlyNamed` is about, as
one that adds a callback can.

**Bounds.** `callback_runner` has one function, two coroutines, one name and two
callback objects: a callback being run and another one it acts on, with an object
reused after its callback has been removed, and three callables to fill them.
`MaxCalls = 4` calls are enough to add two callbacks, suspend one and wake or remove
it, two input events to run the queue ahead of its next wake-up; `MaxTime = 2` to
have deadlines in the past, now and in the future; `MaxDepth` to have a coroutine
started inside a coroutine. The 16-bit width is scaled down by `IntervalRange`; the
delays of the runs, 0 and 1, do not wrap around, so that nothing is shown of those
that do.
`event_dispatch` has two events, so that an event is triggered from the dispatch of
another and of itself, a function and two coroutines, the least that can wait for
one another; three triggers or stops nest a dispatch, queue an event and stop a
waiting coroutine; two edits order actions into a cycle, or order and then remove;
the queue holds two entries. `topological_sort` takes all graphs over at most three
elements: cycles of each length up to three, nodes on the way to a cycle and not in
it, a node reached twice, foreign dependencies. Its safety properties are proved for
all graphs. `wait_for_event` has two coroutines, so that each may wait for the end
of the other, and two waits of each, so that an action of the first could disturb
the second; an event that can be triggered again and one that is signalled once;
and `MaxEvents = 2`, lists of up to two events, all that it takes for one of them to
come first.
`recognizer` has two commands and one dummy rule they compete for, and four calls of
the script: enough to activate a command, deactivate and activate it again while its
result is on its way, with a call left for phrases or the grammar. `checklist` has a
checklist of two items, one without a check and one checked by a coroutine, and one
of a single item checked by a function; their first responses are the same command.
Four inputs start a checklist, answer, put it on standby or use the menu, and change
a command that is suspended. `FlightPhase` and `ControlChecks` need no bound: their
state spaces are finite.

`sim_connect` has two scripts, enough for one to add and remove what the other is
about to look at; two objects, so that a name is made anew and the objects of two
numbers exist at once; three callbacks, so that a script can subscribe twice beside
another. A menu has three showings: a result that is being handled, one on its
way, and one asked for.

`script_lifecycle` has one script running at first, another path, two detached
threads and three calls: a restart, a stop and an event in the middle of one
another, a launch that moves the vector under two others, a script that launches
another while it is restarted itself; the circles of waiting found outside the safe
combinations take two threads and two calls.

**Fairness.** `callback_runner_reused` checks `DueCallbacksRun` under weak fairness
of `update` (the thread of the script is scheduled; the wait of the main loop
returns on its timeout), of `LuaEnds` (each piece of Lua code ends) and of `Tick`
(the clock advances). The number of input events is bounded: with an endless stream
of them the wait would never time out, and the code gives callbacks no precedence.
`topological_sort` checks `SortEnds` under weak fairness of `SortNext`: the sort is
one call of a Lua function that nothing interrupts, so it takes a step whenever it
can. `recognizer` assumes it of the thread that fetches results and of the script's
main loop; neither holds the mutex for longer than a step. `checklist` assumes it of
the checklist's coroutine (waits have timeouts, checks end) and of the callbacks of
recognized commands, not of the user: the inputs are bounded, since a user who asks
to repeat for good keeps the checklist open for good. `flight` assumes that the
coroutine and the watch of the chocks, which suspend for fixed intervals, are
resumed, and that time passes; the simulator may stay as it is, and the two
properties are about what it shows for good. `wait_for_event` assumes that the
runner comes to each coroutine that is due (`DueCallbacksRun`) and that timeouts run
out. `flight` also assumes that the coroutine of the check is resumed and that ten
seconds pass; it does not assume that the pilot moves anything, since a step of the
pilot's side is fair only when the time is up. `event_dispatch`, `script_lifecycle`
and `sim_connect` check safety only. `CallsReturn` of `script_lifecycle` is stated
without fairness: each step of a call or a script takes it forward, so all comes to
a halt when there are no new calls, and the property says that a state in which
nothing can go on is not in the middle of a call. It assumes what the steps of a
script say: its code comes to the hook, to a wait or to its end. It leaves out a
background thread that was told to stop before it came to run (`MissedStop`): it
goes on for good, and the destructor with it.

Deadlock checking is off: with the bounds on calls, events and time used up the
models stop, and so may a script that has nothing to do.

**Known divergences without a run of their own.** The models show each of them when
the usages or the bounds named are changed.

* `CallbackRunner` with `readdDelay`: a callable that is added again with another
  delay can be run after it has been removed.
* A coroutine removed by its own callee goes on to its next yield, and so does one
  that removes itself.
* Delays are 16-bit numbers: one of more than 65535 ms is cut short.
* `EventDispatch` with `readd` (and four edits), `foreign` or `functionWaits`: a list
  that counts as sorted does not have the order asked for (`OrderRespected` fails).
* `EventDispatch` with `addedTwice`: the list holds an action twice
  (`SortedMatchesNodes` fails), and a dispatch that comes to the second occurrence of
  a coroutine that has been removed throws; as `inDispatch` stays, the event is
  not dispatched by `trigger` any more (`DispatchNotReentered` fails).
* `WaitForEvent` with `repeated`: the first of two actions stays with the event, and
  wakes its coroutine out of a later wait (`NoActionLeft` fails).
* `WaitForEvent`: each `waitForEventWithTimeout` for a single event that has been
  signalled adds an action that is never removed (`Event.lua:321`). It is never run
  again either, as nothing resets a single event, but the list grows.
* `EventDispatch`: a coroutine is kept apart only from the dependencies that run
  when it starts; a later trigger starts them beside it (`Action.lua:94`).
* `ScriptLifecycle`: two restarts of a script at once may leave two copies running;
  `stop`, `launch` and `close` together deadlock.
* `ControlChecks`: a check of the controls that an error ends leaves the command of
  the brake check in ignore mode until an event of the flight switches it (`failed`).
* `ControlChecks`: a check of the controls that an event stops, or an error ends, leaves
  `checkingFlightControls` set (`callouts.lua:289`), and until `chocksSet` or the
  next check the brake check does nothing, although the two may be done in any order
  (`topics/flows.md:54`).
* `ControlChecks`: the loop that hangs, above.
* `SimEvents`: the circle of waiting, and the null pointer, above.
* `TextMenu` with `drop`: the event of a menu is triggered with a menu that the
  script's function has dropped and the collector freed; with `quick`, the entry of
  a menu that is shown again is erased, perhaps while the map changes.
* `TextMenu` with `again`: the callback of one result lets go of the menu although
  another is outstanding, and the menu may be collected (`KeptUntilResult` fails),
  while `FSL2LuaScript.cpp:7` says that a menu that has been shown is kept alive
  until a result is received.
* `TextMenu` with `early`: a message that comes before the menu has its entry leaves
  an empty one, which the menu's own does not replace, and the result finds no menu
  (`ResultsFindMenu` fails; `SimConnect.cpp:313`).

## Proofs

`CallbackRunnerProofs` proves `TypeCorrect`, `Spec => []TypeOK`, for all sets of
callables, names and objects, all usages and all bounds. The invariant that is
inductive is `TypeInv`, `TypeOK` together with `ControlOK`: `TypeOK` alone is not
preserved, since `update()` goes on with `cb[currentCallback]` when a callback has
come back, and a coroutine that ends with the object of its frame; `ControlOK` says
that there is such an object whenever a callback of `update()` is being run or has
come back, and in every frame that executes a coroutine. The lemmas say what
inserting into and removing from the multimap do to its type (`InsertAtProperties`,
`RemoveAtProperties`, `QueueType`) and what the operations shared by several actions
preserve (`EnqueueType`, `ActuallyRemoveType`, `UnregisterType`, `LeaveType`,
`YieldIfCallingType`); `TypeNext` has one step per action.

For scripts that make none of the hazardous calls (`Usage = {}`; each of the four
breaks one of the properties) it proves all safety properties of the run
`callback_runner`: `IteratorsValid` (`NoInvalidIterator`), `QueueCorrect`
(`QueueExact`), which is `TypeCorrect`, `NodesCorrect` (`NothingLost`) and
`RemovalCorrect` (`NoZombies`), `WakesCorrect` (`WakesInTime`),
`EventsCorrect` (`ThreadEventTriggered`), and `Refinement`
(`ImplementsTimerQueue`). The invariant `IInv` is `TypeInv` and `Kept`:

* `TablesInv`: what the table of callbacks and that of names hold are exactly the
  callbacks that have been added and not removed, each under what it is called;
* `QueueInv`: the multimap is sorted, and has one node for each callback that is
  scheduled and for no other. Its key (`KeyOf`) is the deadline, except that the
  callback `update()` runs keeps the key it was found under until it is queued
  again; this is why `NothingLost` cannot be proved by itself;
* `ControlInv`: at the bottom of the stack runs an event of the main loop, or the
  callback of `update()`; above it are new coroutines, none of them twice, and what
  runs is not suspended. While a callback runs, and after it has come back, the
  iterator is valid exactly if the callback is still scheduled (`RunInv`), so that
  the branch `update()` takes is the one in which it may use it;
* `InTime`: the main loop, while it waits, wakes no later than any node asks for.

`EmplaceNodes`, `RemoveNodes`, `EraseNodes` and `RekeyNodes` turn the operations on
the sequence of nodes into ones on the set of its nodes, and the rest of the proof
speaks of sets; `EnqueueKept`, `RemovedKept` and `LeaveKept` are about what several
actions share; one lemma for each action (`AddKept`, `RequeueKept`, ...) says that
it keeps `IInv`. For the refinement one lemma for each action (`AddRefined`,
`RunRefined`, ...) says which step of `TimerQueue` it is, or that it is none. That
`update()` runs what is earliest there follows from `HeadEarliest`: the multimap is
sorted, and all that is scheduled is in it. TLC has checked `IInv` on the run's
instance, 1088853 states. The assumptions are those `CallbackRunner` states for its
constants: no clock and no deadline reaches `INDEFINITE`, and the minimal interval
is not zero.

`RecognizerProofs` proves the safety properties of the recognizer for all sets of
commands and dummy rules and all bounds: `TypeCorrect`; `EngineCorrect`
(`EngineFollowsState`, if `DummyWhileOn` is `FALSE`) and `GrammarCorrect`
(`GrammarFollowsPhrases`), together `EngineInStepCorrect` (`EngineInStep`);
`OnceCorrect` (`OnceForEachActivation`) and `DummiesCorrect` (`DummiesNeverTrigger`),
together `TriggersCorrect` (`OnlyActivatedTrigger`). The invariant `IInv` has four
parts:

* `RulesInv(rules)`: the rules are consistent by themselves: dummy rules have no
  state of their own and belong to one command at most. It is an operator on the
  rules, and the lemmas about the methods (`ChangeRuleState`, `ActivateRule`, ...)
  say that each returns rules that are consistent again, so that no action has to
  look inside;
* `TypeInv`, with only commands in `queue`: a dummy rule is never found active, and
  is dropped when its state is looked up;
* `ArmedInv`: what is active is armed, and what the thread is about to use up was
  found active. `OnceForEachActivation` alone is not inductive, since between the
  look-up and the use the script may do anything to the rule; that it cannot disarm
  it is the point;
* `PhrasesInv`: the phrases a rule lists and those the engine's rule has agree,
  outside `wiped`, whether the grammar is dirty or not.

TLC has checked `IInv` on the run's instance before. The assumptions are
`RulesAssumption` and `RecognizerBounds` of `Recognizer`.

`EventDispatchProofs` proves the safety properties of the event library for all
events, actions, initial lists and bounds: `TypeCorrect`, `NotReentered`
(`DispatchNotReentered`), `SameActions` (`SortedMatchesNodes`), `WaitsCorrect`
(`WaitsForRunningOnly`) and the action property `ListStable`
(`ListStableInDispatch`), if no action is added to an event that has it (`AddedOnce`);
and `OrderKept` (`OrderRespected`) for scripts that do none of the things in `Usage`.
Each of these breaks a property, and TLC finds the counterexamples. Its `IInv` has a
part for each group of variables:

* `EventsInv`: of each event, the list has no action twice, none that the event does
  not have, and all of them while it counts as sorted; there is one while the event
  is dispatched, and only then are there actions yet to be removed;
* `FramesInv`: a loop of a dispatch is over an event that is in dispatch and does
  not go past its list, and no two are over the same event; an event in dispatch has
  its loop. The last two make `DispatchNotReentered` inductive, and the second is
  why a list that may be edited is one that no loop is over;
* `ThreadsInv`, `QueueInv`, `CountersInv`: the types of the rest, and
  `WaitsForRunningOnly`.

The lemmas about events (`AddedEvent`, `RemovedEvent`, `OrderedEvent`, ...) say what
each method does to one event's record; those about steps (`AddActionKept`,
`NextActionKept`, ...) put this in its place. The order is a second invariant,
`InOrder` of each event, carried through the same lemmas: appending an action keeps
it only if no other depends on the new one. The assumption is `EventAssumption`.

It also proves every safety property of `TopologicalSort`, for every finite graph:
`SortTypeCorrect`, `SortCorrect` (`SortedTopologically`), `CycleCorrect`
(`CycleIsCycle`), `FailureCorrect` (`FailsOnCyclesOnly`), `OutcomeCorrect`
(`OrderOrFailure`, the two of them) and `DropsCorrect` (`DropsForeignOnly`). The
only assumption is that the elements are finitely many. All follow from one
invariant, `SortInvariance`, and none of them is inductive:

* `StackOK`: the open calls are of different nodes, all `PROCESSING`, each a
  dependency of the one below it; so a `PROCESSING` dependency of the innermost call
  is on the stack, and the calls between them are a cycle;
* `VisitedOK`: what an open call does not have to visit any more is `DEAD`, or is
  the call above it;
* `SortedOK`: the nodes that are `DEAD` are those in `sorted`, each once, and their
  dependencies are in front of them;
* `AcyclicOK`: each set of nodes that are `DEAD` has one without a dependency in the
  set. To state this of sets spares an induction along `sorted` at the end: when all
  are `DEAD`, it says that there is no cycle;
* `CycleOK`: while the calls return, `cycle` is a path of dependencies whose end is
  the call about to return, and it closes when it is complete;
* `OutcomeOK`: what holds when the sort has returned.

`CycleIsCycle` is proved only; no run checks it.

`SortImplementsOrders` ties the two models together: whatever graph the sort is
given, it returns one of the `Orders` that `EventDispatch` chooses from, of a graph
it has pruned as `EventDispatch` says, or there are none. It follows from the
properties of the sort and needs no more of the search.

`WaitForEventProofs` proves `NothingLeft` (`NoActionLeft`) and `WaitCorrect`
(`ReturnsWhatHappened`) for all sets of coroutines and events and all bounds, if no
wait names an event twice (`Distinct`). `IInv` is the types, and

* `LeftInv`, which is what `NoActionLeft` says of actions;
* `KnownInv`: every wait knows all of its actions, so that it can remove them. With a
  repeated event it would not;
* `EndsInv`: the event of a coroutine is signalled only when the coroutine has ended,
  so that `LeftInv` speaks of the ends of all that are still waited for;
* `HeardInv`: what the closures of a wait know is what has happened since it began;
* `ListensInv`: a wait listens to every event it has not heard, without which it
  could miss one;
* `DueInv`: a coroutine is to be resumed only if it has heard enough or its time has
  run out.

Nearly all the work is in the trigger (`TriggeredIInv`), since `Resume`, `Finish`
and the removal of a coroutine are made of it or simpler. The assumptions are
`SignalsAssumption`, `WaitsAssumption` and `NoneAssumption`.

`FlightProofs` proves of `FlightPhase` `TypeCorrect` and `Refinement`
(`ImplementsFlightEvents`). The stages of `FlightEvents` are computed from the phase
and its locals (`StageOf`, `StageAfter`), and there is a lemma for each loop:
`ParkedRefined`, `OnChocksRefined`, `TaxiRefined`, and so on. `TypeOK` does not
suffice: a step of a phase that has `landed` set, or `chocksReleased`, from another
phase would be one `FlightEvents` does not allow; `ChocksInv` and `LandedInv` say
where these locals belong.

`ScriptLifecycleProofs` proves `Orphans` (`NoOrphans`), `UseAfterDelete`
(`NoUseAfterDelete`) and the action property `NoneLeft` (`StopAllLeavesNone`) for
all paths, threads and bounds, and for every combination of uses of the API: what
goes wrong in those `script_lifecycle` leaves out is that threads wait for one
another, not that a script is used after its deletion. `DeadlockFree` (`NoDeadlock`)
is about the combinations in which they do not. The parts of `IInv` beside the types
say of each stack of calls what the rest of the state has to be:

* `MutexInv`: between two steps a mutex is held once at most, and by the thread that
  is at one of the places where the code holds it. `Does(s, op, at)` names a place
  by the outermost call of a stack; calls inside it hold nothing;
* `EntriesInv`: no two entries have the same script, and the path and ID of an entry
  are its script's. The script has been deleted exactly when the call that holds the
  entry's mutex has come back from the deletion and is about to forget it
  (`Forgets`): this is why a look at the entry under its mutex is enough for
  `withScript`, and a look under the list's is not. An entry a launch is about to
  fill has none;
* `DeletionInv`: a script is deleted by one thread, which holds the mutex of the
  entry that has it, or has taken it out of the list. `NoUseAfterDelete` alone does
  not say why a second thread cannot begin;
* `ExistInv`: `NoOrphans`, and that only scripts that have been made exist;
* `IDsInv`: IDs are given in their order, and enough are left for the launches under
  way;
* `StopAllInv`: the entries `stopAllScripts` has gone past are empty, and no launch
  is under way there. It holds since `launchScript` takes the entry's mutex before
  it gives up the list's.

A stack's part in all this are a few operators (`HoldsGlobal`, `Launches`, `Stops`,
`Deletes`, `Forgets`, `GoneTo`); a step that leaves them as they are is quiet
(`QuietStep`), and half of the actions are. The others have a lemma each, or share
one where the code does: `LockAndDeleteKept`, `EmptiedKept`, `GlobalKept`,
`LaunchLockKept`, `LaunchCreateKept`. That `std::find_if` returns a matching entry
(`FoundEntry`) needs that a set of numbers has a least one, `MinOf`, which follows
from the order of their segments by inclusion. TLC has checked `IInv` on the run's
instance, 463048 states, and with all uses together. The assumptions are
`PathsAssumption`, `BoundsAssumption` and `ThreadsAssumption`: the last says that
the names of threads and scripts are told apart.

`DeadlockFree` assumes of `Usages` that each of its members is `SafeUse`, of one of
three kinds: without `close`, `collect`, `control` and `scripted`, so that the
scripts' threads call nothing; without `stop`, `stopAll`, `collect` and `control`,
so that the only scripts to be deleted are those that a launch replaces; or without
`launch`, `stop` and `stopAll`, so that nothing is held. The three combinations of
the run are of these kinds, one each. What `IInv` does not say is who may be where,
and `WaitInv` does:

* `CallersInv`: which calls a thread may be in. Of the scripts only those launched
  first launch or stop others, and not one another;
* `ClosingInv`: a finaliser that runs as its script is deleted looks for that
  script, and if nothing is stopped never finds it;
* `HiddenInv`: the reason, since the launch that deletes the script has hidden its
  entry;
* `RestartInv`: a launch waits for the entry of the path it launches, and deletes
  the script of that path.

`WaitsAt`, `OuterPlace` and `InnerPlace` say at which places a thread waits, and for
what; `EntryHolder` and `GlobalHolder` what the owner of a mutex waits for, if it
waits. Each of the last three lemmas takes a set of threads that wait only for one
another and shows that it is empty. `IdleScripts`: a deletion waits for a script's
thread, which waits for nothing, so that none of them holds an entry, and whoever
holds the list's mutex waits for an entry. `NothingStopped`: a launch never waits
for a hidden entry, so that it does not wait under the list's mutex, and its
deletion waits for a script that would have to launch as well, but those launch only
paths of scripts that do not. `NothingHeld`: only messages to the simulator's thread
are waited for, and it sends none. TLC has checked `WaitInv` for all combinations of
uses, and `NoDeadlock` for the largest of each kind, 1276232 states.

`SimConnectProofs` is about `SimEvents` and `TextMenu`. Of the first it proves, for
any scripts, uses and bounds, every property the run `sim_connect` checks:
`EventListenersHear`, from `EventTypeCorrect`, `EventHeard` and
`EventRegisteredHear`; `EventObjectOfName`, from `EventOneObject` and `EventNull`;
`EventNothingLeft`, `EventDeadlockOnlyNamed` and the action property `EventWalks`.
Few of them are inductive; `EventInv` adds to them

* `ActorsOK`, `HoldersOK`, `DestroyedOK`: where a script is tells its phase and
  whether it holds the object; who is in `refs` has the object in its wrapper, or
  dispatches to it; an object that is being destroyed is held by nobody, and one not
  made yet is blank;
* `NamesOK`: the name is that of the object that is held or about to be destroyed,
  so that no two actors are in `Unname` at once, and none erases a name that has
  been made anew;
* `CallbacksOK`, `SubscribersOK`: a callback is that of a wrapper, and the one a
  script subscribes for is there;
* `EntriesOK`, `FlagsOK`: a flag that is set means that the event is in the group
  and has its entry; while one is not set, all who have a callback are about to set
  it. This is why `subscribe` may look at the flag without the mutex;
* `ForgottenOK`: an entry without a holder has a destroyer;
* `WalkOK`, `KnownOK`: whom an event is to be handed to has a callback, or is known
  to the manager, and none of those is about to register.

There is a lemma for each part, with a step for each action that can disturb it.
`NewObjectIs` says that a new object has a number nobody has used, `DestroysKept`
and `ForgottenKept` that an object's destroyer stays. Of the text menu it proves
`MenuNoUndefinedUse`, and `MenuLives`, from `MenuTypeCorrect`, `MenuKeptAlive`,
`MenuRegistered` and `MenuNotKeptForever`. What `MenuInv` adds is that at most one
result is on its way and the anchor means that it is (`OneAtATime`, `NothingLost`),
and that where it is tells whether there is an entry (`EntryFollows`). TLC has
checked both invariants, `EventInv` on 1162191 states. The assumptions are those the
two modules state for their constants.

`FlightProofs` also extends `ControlChecks`, whose names differ from those of
`FlightPhase` and whose stages and chocks are variables of their own, not those of a
phase: the theorems are about every order of events `FlightEvents` allows. It proves
`CommandCorrect` (`BrakeCommandGivenBack`) and `TaxiCorrect` (`ChecksInTaxiOnly`).
What is added to them is `VoiceInv`: without voice control no command is ever on,
heard or put aside; and `CommandInv`: the brake check's command is off outside the
taxi, and is ignored only if the brakes have been checked, or the check of the
controls has put it aside or failed, so that a check that is begun late has nothing
to put aside. `FlightStep` says all that the proof needs of `FlightEvents`, and
`NoEventAssumption` that `NoEvent` is none of its events.

`ChecklistProofs` proves `Restoration` (`StatesRestored`), `Suspension`
(`OthersSuspended`), together `SuspensionEnds` (`SuspendedAndRestored`), and
`OwnCommandsOff` (`NoStrayCommands`) for all checklists, items and commands. What
the script does between two waits is one step on a record, so that nearly all of
`IInv` is an operator on that record, `ScriptInv(s, R)`, where `R` are the commands
that were raced:

* `Typed`: the types, and that each command keeps its persistence mode;
* `PlaceInv`: what the wait a checklist is in says of the rest: of its own commands
  only the shared ones and the response of the current item may be on, and none when
  no checklist is executed; an event that ends a wait is one it waits for, or a menu
  selection;
* `Keeps`: unless a checklist has thrown, a suspended command is off, and what has
  been saved of it, or else that it was off, is what was wanted last; without a
  suspension it is in the state that was wanted. Neither `StatesRestored` nor
  `OthersSuspended` says what has been saved, without which nothing is known after
  the commands are given back.

One group of lemmas says what each function does to the record: `SetRuleIs`,
`SetAllIs`, `SuspendKeeps`, `ResumeKeeps`, `AskKeeps` for the commands,
`AwaitResponseInv`, `ItemDoneInv`, `CompleteInv`, `ThrowInv` for the checklist. The
other has one lemma for each action (`CoroutineKept`, `TriggerKept`, `MenuKept`,
`FetchKept`, ...). The recognizer's thread is where commands are raced: it may use up
a command after the script has suspended it, and `AfterRecoEventKept` shows that
this spoils `Keeps` for that command and for no other. TLC has checked `IInv` on the
run's instance, 238829 states. The assumptions are `ChecklistAssumption`,
`PersistenceAssumption` and `BoundAssumption`.

*Only model-checked* are liveness (`SortEnds`, `DueCallbacksRun`,
`HeardCommandsTrigger`, `ChecklistEnds`, `PhaseFollows`, which is `ShutdownNoticed`
and `ClimbNoticed`, `WaitsEnd`, `ControlCheckEnds`), out of the proof system's
reach, and `CallsReturn`, an invariant that uses `ENABLED` and is out of it too. All
other invariants, action properties and refinements that the passing runs check are
proved. The theorems about the callback runner for `Usage = {}` say nothing of
scripts that use it otherwise; for two of the four usages `callback_runner_reused`
does. `DeadlockFree`, the theorems of `EventDispatchProofs` about the event library and
those of `WaitForEventProofs` leave out the uses that break what they state.

## Not modelled

* `SimInterface`, FSUIPC, and the MCDU, keyboard, joystick and sound interfaces are
  calls of external libraries, parsing and bindings. Of SimConnect, what is external
  is when its messages come; the copilot's own menu and the mute controls are left
  out.
* Procedures and failures are sequences of cockpit operations with next to no state;
  the checks before takeoff are the exception, and are modelled. Callouts of speeds
  and distances are played once each.
* Options are read from ini files once.
* Of the event library: child events, key events, the Lua side of text menus,
  `EventUtils`.
* Of the script lifecycle: session variables; the launcher's Lua side.
* Of the main loop: starvation by a steady stream of input events
  (`FSL2LuaScript.cpp:637`), since the model bounds their number; text to speech.
* Vendored code (spdlog with fmt, LuaSocket, lfs, Lua itself, the headers of the
  sound library, the JSON and reactive libraries) and the generated table of cockpit
  controls are not part of the system's logic. They are most of the repository's
  lines.

## Plan

1. *Done:* `TimerQueue`, `CallbackRunner`, `EventDispatch`, type correctness.
2. *Done:* `TopologicalSort`, its correctness for any finite graph, and that it is
   what `EventDispatch` takes it for.
3. *Done:* `WaitForEvent`.
4. *Done:* `ScriptLifecycle`, its mutual exclusion
   and its safety proved, the absence of deadlocks for the safe uses.
5. *Done:* `Recognizer`, its safety properties for any set of commands, and
   `Checklist` over it.
6. *Done:* `FlightPhase`, `FlightEvents`, `ControlChecks`, the refinement and the
   safety properties proved.
7. *Done:* proofs of the safety properties of the callback runner and of its step
   simulation of `TimerQueue`; of the event library; of waits.
8. *Done:* proofs of the safety properties of checklists.
9. *Done:* `SimEvents` and `TextMenu`, their safety properties proved.
10. To do: child events and key events; the joysticks' callbacks.
