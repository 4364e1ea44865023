------------------------------ MODULE SimEvents ------------------------------
(***************************************************************************)
(* The simulator's events that scripts listen to: a named event            *)
(* (Copilot/SimConnect.cpp, NamedSimConnectEvent, and                      *)
(* Copilot/FSL2LuaScript.cpp, LuaNamedSimConnectEvent) and a system event  *)
(* (Copilot/SystemEventLuaManager.h).                                      *)
(*                                                                         *)
(* An actor for each script: its thread, and once that has ended the       *)
(* thread that deletes the script and closes its Lua state.  And the       *)
(* simulator's thread, which hands an event to one script after another:   *)
(* each time it locks the script's entry in the list of scripts, which is  *)
(* locked from the moment the script is being stopped until it is gone.    *)
(* Nobody else keeps a mutex from one step to the next.                    *)
(***************************************************************************)
EXTENDS Integers

CONSTANTS
  Scripts,
  Sim,              \* the simulator's thread
  NoObject,
  SimUsages,        \* the uses considered: subsets of SimUse
  MaxObjects,       \* bound: event objects made
  MaxCallbacks      \* bound: callbacks added

SimUse == {
  "again",          \* a script subscribes a second time before it unsubscribes
  "stray"}          \* the simulator sends the event when it is not registered

ObjectIds == 1..MaxObjects

ASSUME ScriptsAssumption == Sim \notin Scripts
ASSUME NoObjectAssumption == NoObject \notin ObjectIds
ASSUME SimUsagesAssumption == SimUsages \subseteq SUBSET SimUse
ASSUME SimBoundsAssumption == MaxObjects \in Nat /\ MaxCallbacks \in Nat

VARIABLES
  namedEvents,      \* the object of the name, or NoObject
  made,             \* objects made so far
  events,           \* by eventId: "absent", "event", or "empty", a null pointer
  group,            \* the objects in the simulator's notification group
  callbacks,        \* of an object: pairs of a script and a number
  subscribed,       \* the objects whose flag is set
  refs,             \* who holds a pointer to an object
  currCallbackId,
  wrapper,          \* a script's LuaNamedSimConnectEvent: its object
  callbackID,
  known,            \* the scripts whose registry has the system event
  scripts,          \* those the manager of the system event knows
  pc,               \* what a script's actor does next
  phase,            \* "running", "stopping", "closing", "gone"
  simAt,            \* "idle", "found", "named", "system", "release", "destroy", "forget"
  simId,
  todo, current,    \* the scripts to hand the event to, and the one whose turn it is
  null,             \* getNamedEvent has returned a null pointer
  simUsage

nameVars == <<namedEvents, made>>
entryVars == <<events, group, subscribed>>
callbackVars == <<callbacks, currCallbackId, callbackID>>
holdVars == <<refs, wrapper, null>>
namedVars == <<nameVars, entryVars, callbackVars, holdVars>>
systemVars == <<known, scripts>>
actorVars == <<pc, phase>>
threadVars == <<simAt, simId, todo, current>>
eventVars == <<namedVars, systemVars, actorVars, threadVars, simUsage>>

\* Variant: nobody locks it.
NeverLocked == FALSE

\* eventsMutex is held during a dispatch, the manager's mutex during its onEvent.
EventsLocked == simAt = "named"
ManagerLocked == simAt = "system"

GoTo(s, at) == pc' = [pc EXCEPT ![s] = at]

-----------------------------------------------------------------------------
(* What a script calls *)

\* The thread can make a call.
MayCall(s) == phase[s] \in {"running", "stopping"} /\ pc[s] = "idle"

\* Variant: a script is registered every time.
RegistersAgain(s) == TRUE

\* The script's registry does not have the event yet.
IsNew(s) == s \notin known

\* registerScript, up to the mutex.
BeginRegister(s) ==
  /\ MayCall(s)
  /\ IsNew(s)
  /\ known' = known \union {s}
  /\ GoTo(s, "register")
  /\ UNCHANGED <<namedVars, scripts, phase, threadVars, simUsage>>

Register(s) ==
  /\ pc[s] = "register"
  /\ ~ManagerLocked
  /\ scripts' = scripts \union {s}
  /\ GoTo(s, "idle")
  /\ UNCHANGED <<namedVars, known, phase, threadVars, simUsage>>

\* copilot.simConnectEvent, whose result is kept in the registry, subscribe, unsubscribe.
BeginCall(s) ==
  /\ MayCall(s)
  /\ \/ wrapper[s] = NoObject /\ GoTo(s, "getNamed")
     \/ /\ wrapper[s] # NoObject
        /\ "again" \in simUsage \/ <<s, callbackID[s]>> \notin callbacks[wrapper[s]]
        /\ GoTo(s, "add")
     \/ wrapper[s] # NoObject /\ GoTo(s, "remove")
  /\ UNCHANGED <<namedVars, systemVars, phase, threadVars, simUsage>>

NewObject(s) ==
  /\ made < MaxObjects
  /\ made' = made + 1
  /\ namedEvents' = made'
  /\ refs' = [refs EXCEPT ![made'] = {s}]
  /\ wrapper' = [wrapper EXCEPT ![s] = made']
  /\ UNCHANGED null

SharedObject(s) ==
  /\ refs[namedEvents] # {}
  /\ refs' = [refs EXCEPT ![namedEvents] = @ \union {s}]
  /\ wrapper' = [wrapper EXCEPT ![s] = namedEvents]
  /\ UNCHANGED <<nameVars, null>>

\* Variant: an object that is being destroyed is replaced.
Replaced(s) == refs[namedEvents] = {} /\ NewObject(s)

\* The pointer of the name is null from the end of the last one that was held until the
\* destructor has erased it.
NullObject(s) ==
  /\ refs[namedEvents] = {}
  /\ null' = TRUE
  /\ UNCHANGED <<nameVars, refs, wrapper>>

GetNamedEvent(s) ==
  /\ pc[s] = "getNamed"
  /\ ~EventsLocked
  /\ \/ namedEvents = NoObject /\ NewObject(s)
     \/ namedEvents # NoObject /\ (SharedObject(s) \/ NullObject(s))
  /\ GoTo(s, "idle")
  /\ UNCHANGED <<entryVars, callbackVars, systemVars, phase, threadVars, simUsage>>

AddCallback(s) ==
  /\ pc[s] = "add"
  /\ ~EventsLocked
  /\ currCallbackId < MaxCallbacks
  /\ currCallbackId' = currCallbackId + 1
  /\ callbacks' = [callbacks EXCEPT ![wrapper[s]] = @ \union {<<s, currCallbackId>>}]
  /\ callbackID' = [callbackID EXCEPT ![s] = currCallbackId]
  /\ GoTo(s, "subscribe")
  /\ UNCHANGED <<nameVars, entryVars, holdVars, systemVars, phase, threadVars, simUsage>>

\* The flag is read without the mutex.
Subscribe(s) ==
  /\ pc[s] = "subscribe"
  /\ \/ wrapper[s] \in subscribed /\ GoTo(s, "idle") /\ UNCHANGED group
     \/ /\ wrapper[s] \notin subscribed
        /\ group' = group \union {wrapper[s]}
        /\ GoTo(s, "emplace")
  /\ UNCHANGED <<nameVars, events, subscribed, callbackVars, holdVars, systemVars, phase,
                 threadVars, simUsage>>

\* An entry that is there stays as it is.
EmplaceEvent(s) ==
  /\ pc[s] = "emplace"
  /\ ~EventsLocked
  /\ events' = [events EXCEPT ![wrapper[s]] = IF @ = "absent" THEN "event" ELSE @]
  /\ subscribed' = subscribed \union {wrapper[s]}
  /\ GoTo(s, "idle")
  /\ UNCHANGED <<nameVars, group, callbackVars, holdVars, systemVars, phase, threadVars,
                 simUsage>>

RemoveCallback(s) ==
  /\ pc[s] = "remove"
  /\ ~EventsLocked
  /\ callbacks' = [callbacks EXCEPT ![wrapper[s]] = @ \ {<<s, callbackID[s]>>}]
  /\ GoTo(s, "check")
  /\ UNCHANGED <<nameVars, entryVars, currCallbackId, callbackID, holdVars, systemVars, phase,
                 threadVars, simUsage>>

\* Once it has been removed the destructor goes on.
Removed(s) == GoTo(s, IF phase[s] = "closing" THEN "release" ELSE "idle")

\* Variant: the callbacks are not looked at.
AlwaysUnused(id) == TRUE

IsUnused(id) == callbacks[id] = {}

\* The callbacks are looked at without the mutex, and again with it.
CheckCallbacks(s) ==
  /\ pc[s] = "check"
  /\ IF IsUnused(wrapper[s]) THEN GoTo(s, "unsubscribe") ELSE Removed(s)
  /\ UNCHANGED <<namedVars, systemVars, phase, threadVars, simUsage>>

Unsubscribe(s) ==
  LET id == wrapper[s] IN
  /\ pc[s] = "unsubscribe"
  /\ ~EventsLocked
  /\ \/ ~IsUnused(id) /\ UNCHANGED entryVars
     \/ /\ IsUnused(id)
        /\ group' = group \ {id}
        /\ events' = [events EXCEPT ![id] = "absent"]
        /\ subscribed' = subscribed \ {id}
  /\ Removed(s)
  /\ UNCHANGED <<nameVars, callbackVars, holdVars, systemVars, phase, threadVars, simUsage>>

-----------------------------------------------------------------------------
(* The end of a script *)

\* The entry of the script is locked, and its thread told to stop.
StopBegins(s) ==
  /\ phase[s] = "running"
  /\ phase' = [phase EXCEPT ![s] = "stopping"]
  /\ UNCHANGED <<namedVars, systemVars, pc, threadVars, simUsage>>

\* Variant: the wrapper goes without its callback.
OnlyReleases(s) == GoTo(s, "release")

\* ~LuaNamedSimConnectEvent.
Destructor(s) == GoTo(s, "remove")

Gone(s) == phase' = [phase EXCEPT ![s] = "gone"]

\* The thread has ended, and the Lua state is closed.
CloseState(s) ==
  /\ phase[s] = "stopping"
  /\ pc[s] = "idle"
  /\ \/ wrapper[s] = NoObject /\ Gone(s) /\ UNCHANGED pc
     \/ /\ wrapper[s] # NoObject
        /\ phase' = [phase EXCEPT ![s] = "closing"]
        /\ Destructor(s)
  /\ UNCHANGED <<namedVars, systemVars, threadVars, simUsage>>

ReleaseEvent(s) ==
  LET others == refs[wrapper[s]] \ {s} IN
  /\ pc[s] = "release"
  /\ refs' = [refs EXCEPT ![wrapper[s]] = others]
  /\ \/ others = {} /\ GoTo(s, "destroy") /\ UNCHANGED phase
     \/ others # {} /\ GoTo(s, "idle") /\ Gone(s)
  /\ UNCHANGED <<nameVars, entryVars, callbackVars, wrapper, null, systemVars, threadVars,
                 simUsage>>

EraseName == namedEvents' = NoObject

\* ~NamedSimConnectEvent, of the object id.
Unname(id) ==
  /\ ~EventsLocked
  /\ group' = group \ {id}
  /\ EraseName
  /\ UNCHANGED <<made, events, subscribed, callbackVars, holdVars, systemVars, simUsage>>

\* ~SimConnectEvent.
Forget(id) ==
  /\ ~EventsLocked
  /\ events' = [events EXCEPT ![id] = "absent"]
  /\ UNCHANGED <<nameVars, group, subscribed, callbackVars, holdVars, systemVars, simUsage>>

ScriptDestroys(s) ==
  /\ \/ pc[s] = "destroy" /\ Unname(wrapper[s]) /\ GoTo(s, "forget") /\ UNCHANGED phase
     \/ pc[s] = "forget" /\ Forget(wrapper[s]) /\ GoTo(s, "idle") /\ Gone(s)
  /\ UNCHANGED threadVars

-----------------------------------------------------------------------------
(* The simulator's thread *)

\* onCustomEvent, up to the call of dispatch. Looking an event up makes an empty entry if
\* there is none.
OnCustomEvent(id) ==
  /\ simAt = "idle"
  /\ id <= made
  /\ \/ /\ events[id] = "event" /\ refs[id] # {}
        /\ refs' = [refs EXCEPT ![id] = @ \union {Sim}]
        /\ simId' = id
        /\ simAt' = "found"
        /\ UNCHANGED events
     \/ /\ "stray" \in simUsage
        /\ events[id] # "event"
        /\ events' = [events EXCEPT ![id] = "empty"]
        /\ UNCHANGED <<refs, simId, simAt>>
  /\ UNCHANGED <<nameVars, group, subscribed, callbackVars, wrapper, null, systemVars,
                 actorVars, todo, current, simUsage>>

ScriptsOf(id) == {c[1] : c \in callbacks[id]}

\* NamedSimConnectEvent::dispatch.
DispatchNamed ==
  /\ simAt = "found"
  /\ simAt' = "named"
  /\ todo' = ScriptsOf(simId)
  /\ UNCHANGED <<namedVars, systemVars, actorVars, simId, current, simUsage>>

\* SystemEventLuaManager::onEvent.
OnSystemEvent ==
  /\ simAt = "idle"
  /\ simAt' = "system"
  /\ todo' = scripts
  /\ UNCHANGED <<namedVars, systemVars, actorVars, simId, current, simUsage>>

\* The entry of the next script is to be locked.
NextScript ==
  /\ simAt \in {"named", "system"}
  /\ current = Sim
  /\ current' \in todo
  /\ todo' = todo \ {current'}
  /\ UNCHANGED <<namedVars, systemVars, actorVars, simAt, simId, simUsage>>

\* The entry is locked for others while the script is being stopped.
EntryLocked(s) == phase[s] \in {"stopping", "closing"}

\* The manager removes a script that there is no more.
Remaining ==
  IF simAt = "system" /\ phase[current] = "gone" THEN scripts \ {current} ELSE scripts

\* withScript: the event is put in the script's queue.
Deliver ==
  /\ current # Sim
  /\ ~EntryLocked(current)
  /\ scripts' = Remaining
  /\ current' = Sim
  /\ UNCHANGED <<namedVars, known, actorVars, simAt, simId, todo, simUsage>>

EventDone ==
  /\ simAt \in {"named", "system"}
  /\ current = Sim /\ todo = {}
  /\ simAt' = IF simAt = "named" THEN "release" ELSE "idle"
  /\ UNCHANGED <<namedVars, systemVars, actorVars, simId, todo, current, simUsage>>

\* onCustomEvent lets go of the object, which is destroyed if no script holds it.
SimReleases ==
  LET others == refs[simId] \ {Sim} IN
  /\ simAt = "release"
  /\ refs' = [refs EXCEPT ![simId] = others]
  /\ simAt' = IF others = {} THEN "destroy" ELSE "idle"
  /\ UNCHANGED <<nameVars, entryVars, callbackVars, wrapper, null, systemVars, actorVars,
                 simId, todo, current, simUsage>>

SimDestroys ==
  /\ \/ simAt = "destroy" /\ Unname(simId) /\ simAt' = "forget"
     \/ simAt = "forget" /\ Forget(simId) /\ simAt' = "idle"
  /\ UNCHANGED <<actorVars, simId, todo, current>>

-----------------------------------------------------------------------------

EventInit ==
  /\ namedEvents = NoObject
  /\ made = 0
  /\ events = [id \in ObjectIds |-> "absent"]
  /\ group = {}
  /\ callbacks = [id \in ObjectIds |-> {}]
  /\ subscribed = {}
  /\ refs = [id \in ObjectIds |-> {}]
  /\ currCallbackId = 0
  /\ wrapper = [s \in Scripts |-> NoObject]
  /\ callbackID = [s \in Scripts |-> -1]
  /\ known = {}
  /\ scripts = {}
  /\ pc = [s \in Scripts |-> "idle"]
  /\ phase = [s \in Scripts |-> "running"]
  /\ simAt = "idle"
  /\ simId = 0
  /\ todo = {}
  /\ current = Sim
  /\ null = FALSE
  /\ simUsage \in SimUsages

ScriptStep(s) ==
  \/ BeginRegister(s) \/ BeginCall(s)
  \/ Register(s)
  \/ GetNamedEvent(s)
  \/ AddCallback(s) \/ Subscribe(s) \/ EmplaceEvent(s)
  \/ RemoveCallback(s) \/ CheckCallbacks(s) \/ Unsubscribe(s)
  \/ StopBegins(s) \/ CloseState(s) \/ ReleaseEvent(s) \/ ScriptDestroys(s)

SimStep ==
  \/ \E id \in ObjectIds : OnCustomEvent(id)
  \/ DispatchNamed \/ OnSystemEvent
  \/ NextScript \/ Deliver \/ EventDone
  \/ SimReleases \/ SimDestroys

EventNext == ~null /\ (SimStep \/ \E s \in Scripts : ScriptStep(s))

EventSpec == EventInit /\ [][EventNext]_eventVars

-----------------------------------------------------------------------------
(* Properties *)

Steps == {"idle", "register", "getNamed", "add", "subscribe", "emplace",
          "remove", "check", "unsubscribe", "release", "destroy", "forget"}

NameTypeOK == namedEvents \in ObjectIds \union {NoObject} /\ made \in 0..MaxObjects

EntryTypeOK ==
  /\ events \in [ObjectIds -> {"absent", "event", "empty"}]
  /\ group \subseteq ObjectIds /\ subscribed \subseteq ObjectIds

CallbackTypeOK ==
  /\ callbacks \in [ObjectIds -> SUBSET (Scripts \X (0..MaxCallbacks))]
  /\ currCallbackId \in 0..MaxCallbacks
  /\ callbackID \in [Scripts -> (0..MaxCallbacks) \union {-1}]

HoldTypeOK ==
  /\ refs \in [ObjectIds -> SUBSET (Scripts \union {Sim})]
  /\ wrapper \in [Scripts -> ObjectIds \union {NoObject}]

ActorTypeOK ==
  /\ known \subseteq Scripts /\ scripts \subseteq Scripts
  /\ pc \in [Scripts -> Steps]
  /\ phase \in [Scripts -> {"running", "stopping", "closing", "gone"}]

ThreadTypeOK ==
  /\ simAt \in {"idle", "found", "named", "system", "release", "destroy", "forget"}
  /\ simId \in 0..MaxObjects
  /\ todo \subseteq Scripts /\ current \in Scripts \union {Sim}
  /\ null \in BOOLEAN
  /\ simUsage \in SimUsages

\* The maps, the scripts' actors and the simulator's thread stay within their types.
EventTypeOK ==
  NameTypeOK /\ EntryTypeOK /\ CallbackTypeOK /\ HoldTypeOK /\ ActorTypeOK /\ ThreadTypeOK

\* Whoever has added a callback to an object hears the event, once subscribe has
\* returned, whatever the others add and remove meanwhile: the event is in the group,
\* and the object can be found unless an empty entry has taken its place.
Heard ==
  \A id \in ObjectIds :
    /\ refs[id] # {} /\ callbacks[id] # {}
    /\ \A s \in Scripts : wrapper[s] = id => pc[s] \notin {"subscribe", "emplace"}
    => /\ id \in subscribed \cap group
       /\ events[id] = "event" \/ "stray" \in simUsage

\* All scripts share one object of the name: one that is held is the name's.
OneObject == \A id \in ObjectIds : refs[id] # {} => namedEvents = id

\* The actor that destroys the object id, before or after the name has been erased.
Destroys(id, ats) ==
  \/ simId = id /\ simAt \in ats
  \/ \E s \in Scripts : wrapper[s] = id /\ pc[s] \in ats

\* A script is given a null pointer only while another one destroys the object.
NullWhileDestroyed == null => \E id \in ObjectIds : namedEvents = id /\ Destroys(id, {"destroy"})

\* What an object was found by is gone with it, and of a script that is gone no callback
\* is left, unless it had subscribed again.
NothingLeft ==
  /\ \A id \in ObjectIds :
       refs[id] = {} /\ events[id] = "event" => Destroys(id, {"destroy", "forget"})
  /\ "again" \notin simUsage =>
       \A id \in ObjectIds : \A c \in callbacks[id] : phase[c[1]] # "gone"

\* The maps the simulator's thread walks over do not change under it: the callbacks of
\* the object, and the manager's scripts but for the one it removes.
WalksUndisturbed ==
  [][/\ simAt = "named" => callbacks'[simId] = callbacks[simId]
     /\ simAt = "system" => scripts' \in {scripts, scripts \ {current}}]_eventVars

\* The script's actor waits for a mutex of the simulator's thread.
WaitsForSim(s) ==
  \/ pc[s] = "register" /\ ManagerLocked
  \/ /\ pc[s] \in {"getNamed", "add", "emplace", "remove", "unsubscribe", "destroy", "forget"}
     /\ EventsLocked

\* The simulator's thread and a script wait for each other only where a named event is
\* handed to a script that is being stopped; a system event never brings it about.
DeadlockOnlyNamed ==
  \A s \in Scripts : current = s /\ EntryLocked(s) /\ WaitsForSim(s) =>
    simAt = "named" /\ \E n \in 0..MaxCallbacks : <<s, n>> \in callbacks[simId]

\* A script that has been given the system event's Event hears it until it is gone.
RegisteredHear ==
  \A s \in known : s \in scripts \/ pc[s] = "register" \/ phase[s] = "gone"

\* Whoever listens to an event is told of it, a named one or one of the system.
ListenersHear == EventTypeOK /\ Heard /\ RegisteredHear

\* A script that asks for the event gets the object that all have, or nothing while it
\* is being destroyed.
ObjectOfName == OneObject /\ NullWhileDestroyed
=============================================================================
