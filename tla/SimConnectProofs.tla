-------------------------- MODULE SimConnectProofs --------------------------
(***************************************************************************)
(* Theorems about the objects that the simulator's thread calls.           *)
(*                                                                         *)
(* The events.  The invariant says who holds an object (HoldersOK), and    *)
(* that one that nobody holds is being destroyed by one actor, until the   *)
(* name and the entry are gone (NamesOK, ForgottenOK).  A callback is that *)
(* of a wrapper that is there (CallbacksOK), and the flag of its object    *)
(* is set, or every actor that has a callback is about to see to it        *)
(* (FlagsOK), whatever order they come in.  Without the flag being tied to *)
(* the group and the entry (EntriesOK) and to the callback of the actor in *)
(* subscribe (SubscribersOK), that a callback is heard is not inductive.   *)
(*                                                                         *)
(* The text menu.  Without "again" there is at most one result on its way: *)
(* with the simulator, with its thread or in the script's queue            *)
(* (OneAtATime).  That it is on its way is what the anchor means, and      *)
(* where it is tells whether there is an entry (EntryFollows).             *)
(***************************************************************************)
EXTENDS SimEvents, TextMenu, TLAPS

-----------------------------------------------------------------------------
(* The text menu *)

\* What is used is held, and nothing is once the state has been closed.
UseHolds ==
  /\ referenced \/ anchored \/ showing \/ handling = "call" => held
  /\ closed => ~held /\ queue = 0 /\ handling = "no"
  /\ entry = "menu" => Exists
  /\ "drop" \in menuUsage \/ referenced \/ closed

Underway == owed + queue + (IF dispatching = "found" THEN 1 ELSE 0)

\* A script that waits for the result has one on its way at most, and the menu is
\* anchored until the callback has begun.
OneAtATime ==
  "again" \notin menuUsage =>
    /\ Underway <= 1
    /\ Underway = 1 => anchored \/ closed

\* The entry is there for as long as the result is with the simulator or its thread.
EntryFollows ==
  Slow =>
    /\ dispatching = "erase" => queue = 1 \/ closed
    /\ entry = "menu" => owed = 1 \/ dispatching # "no" \/ closed
    /\ showing => dispatching = "no" /\ entry # "menu" /\ (entry = "absent" => owed = 1)

\* If nothing is overtaken the entry is never an empty one, and an anchor tells of a
\* result on its way.
NothingLost ==
  InStep =>
    /\ showing => owed = 1
    /\ owed = 1 /\ ~showing => entry = "menu" \/ closed
    /\ entry = "empty" => closed
    /\ anchored => Underway = 1 \/ "invalid" \in menuUsage

MenuInv ==
  /\ MenuTypeOK
  /\ UseHolds
  /\ OneAtATime
  /\ EntryFollows
  /\ NothingLost
  /\ Underway <= shows
  /\ NoUndefinedUse

LEMMA MenuInitial == MenuInit => MenuInv
<1> SUFFICES ASSUME MenuInit PROVE MenuInv
  OBVIOUS
<1> USE MaxShowsAssumption DEF MenuInit, Exists
<1>1. MenuTypeOK
  <2>1. owed \in 0..MaxShows /\ queue \in 0..MaxShows /\ shows \in 0..MaxShows
    OBVIOUS
  <2>2. MenuFlagsOK
    BY DEF MenuFlagsOK
  <2> QED
    BY <2>1, <2>2 DEF MenuTypeOK
<1>2. UseHolds
  BY DEF UseHolds
<1>3. OneAtATime
  BY DEF OneAtATime, Underway
<1>4. EntryFollows
  BY DEF EntryFollows, Slow
<1>5. NothingLost
  BY DEF NothingLost, InStep, Slow, Underway
<1>6. Underway <= shows
  BY DEF Underway
<1>7. NoUndefinedUse
  BY DEF NoUndefinedUse, Slow
<1> QED
  BY <1>1, <1>2, <1>3, <1>4, <1>5, <1>6, <1>7 DEF MenuInv

LEMMA MenuStep == MenuInv /\ [MenuNext]_menuVars => MenuInv'
<1> USE MaxShowsAssumption, MenuUsagesAssumption
    DEF MenuInv, MenuTypeOK, MenuFlagsOK, UseHolds, OneAtATime, EntryFollows, NothingLost, Underway,
        NoUndefinedUse, Exists, Outstanding, CanCall, Slow, InStep, simVars, luaVars, scriptVars
<1> SUFFICES ASSUME MenuInv, [MenuNext]_menuVars PROVE MenuInv'
  OBVIOUS
<1>1. CASE Show
  BY <1>1 DEF Show
<1>2. CASE ShowThrows
  BY <1>2 DEF ShowThrows
<1>3. CASE Emplace
  <2>1. MenuFlagsOK'
    BY <1>3 DEF Emplace
  <2>2. QED
    BY <1>3, <2>1 DEF Emplace
<1>4. CASE CallbackBegins
  <2>1. MenuFlagsOK'
    BY <1>4 DEF CallbackBegins
  <2>2. QED
    BY <1>4, <2>1 DEF CallbackBegins
<1>5. CASE CallReturns
  BY <1>5 DEF CallReturns
<1>6. CASE Trigger
  <2>1. MenuFlagsOK'
    BY <1>6 DEF Trigger
  <2>2. QED
    BY <1>6, <2>1 DEF Trigger
<1>7. CASE Drop
  BY <1>7 DEF Drop
<1>8. CASE Collect
  <2>1. MenuFlagsOK'
    BY <1>8 DEF Collect
  <2>2. QED
    BY <1>8, <2>1 DEF Collect, Released
<1>9. CASE Close
  <2>1. MenuFlagsOK'
    BY <1>9 DEF Close
  <2>2. QED
    BY <1>9, <2>1 DEF Close, Released
<1>10. ASSUME NEW isResult \in BOOLEAN, OnMessage(isResult) PROVE MenuInv'
  BY <1>10 DEF OnMessage
<1>11. CASE Dispatch
  BY <1>11 DEF Dispatch
<1>12. CASE Erase
  BY <1>12 DEF Erase
<1>13. CASE UNCHANGED menuVars
  BY <1>13 DEF menuVars
<1> QED
  BY <1>1, <1>2, <1>3, <1>4, <1>5, <1>6, <1>7, <1>8, <1>9, <1>10, <1>11, <1>12, <1>13
  DEF MenuNext

\* The inductive invariant of the text menu.
THEOREM MenuInvariance == MenuSpec => []MenuInv
BY MenuInitial, MenuStep, PTL DEF MenuSpec

\* The menu's variables stay within their types (TextMenuEvent, LuaTextMenu).
THEOREM MenuTypeCorrect == MenuSpec => []MenuTypeOK
<1>1. MenuInv => MenuTypeOK
  BY DEF MenuInv
<1> QED
  BY <1>1, MenuInvariance, PTL

\* A menu that has been shown is kept alive until its result has been handled, if the
\* script waits for that before it shows it again (LuaTextMenu::show and the callback).
THEOREM MenuKeptAlive == MenuSpec => []KeptAlive
<1>1. MenuInv => KeptAlive
  BY DEF MenuInv, MenuTypeOK, MenuFlagsOK, UseHolds, OneAtATime, Underway, KeptAlive,
         KeptUntilResult, Outstanding
<1> QED
  BY <1>1, MenuInvariance, PTL

\* While a result is to come the simulator's thread can find the menu, if no thread is
\* overtaken (TextMenuEvent::show, onCustomEvent).
THEOREM MenuRegistered == MenuSpec => []Registered
<1>1. MenuInv => Registered
  BY MaxShowsAssumption
  DEF MenuInv, MenuTypeOK, MenuFlagsOK, OneAtATime, Underway, NothingLost, Registered,
      ResultsFindMenu, InStep, Slow
<1> QED
  BY <1>1, MenuInvariance, PTL

\* An anchor tells of a result on its way, and an entry of a menu that exists (the
\* callback of LuaTextMenu, ~SimConnectEvent).
THEOREM MenuNotKeptForever == MenuSpec => []NotKeptForever
<1>1. MenuInv => NotKeptForever
  BY MaxShowsAssumption
  DEF MenuInv, MenuTypeOK, MenuFlagsOK, UseHolds, Underway, NothingLost, NotKeptForever,
      Outstanding, InStep, Slow
<1> QED
  BY <1>1, MenuInvariance, PTL

\* A menu lives and is found until its result has been handled, and no longer, whatever
\* the order of the script's and the simulator's steps.
THEOREM MenuLives == MenuSpec => []LivesUntilHandled
<1>1. MenuTypeOK /\ KeptAlive /\ Registered /\ NotKeptForever => LivesUntilHandled
  BY DEF LivesUntilHandled
<1> QED
  BY <1>1, MenuTypeCorrect, MenuKeptAlive, MenuRegistered, MenuNotKeptForever, PTL

\* The callback does not use a menu that is gone, nor do two threads change the map of
\* events at once, but for the uses that are named (LuaTextMenu, onCustomEvent).
THEOREM MenuNoUndefinedUse == MenuSpec => []NoUndefinedUse
<1>1. MenuInv => NoUndefinedUse
  BY DEF MenuInv
<1> QED
  BY <1>1, MenuInvariance, PTL

-----------------------------------------------------------------------------
(* The events: the inductive invariant *)

\* What a script's actor is about to do tells the phase the script is in, whether it has
\* a wrapper, and whether it holds the object.
ActorsOK ==
  \A s \in Scripts :
    /\ pc[s] \in {"register", "getNamed", "add", "subscribe", "emplace"} =>
         phase[s] \in {"running", "stopping"}
    /\ pc[s] \in {"release", "destroy", "forget"} => phase[s] = "closing"
    /\ phase[s] = "gone" => pc[s] = "idle"
    /\ phase[s] = "closing" => pc[s] # "idle"
    /\ pc[s] = "getNamed" => wrapper[s] = NoObject
    /\ wrapper[s] = NoObject => pc[s] \in {"idle", "register", "getNamed"}

\* The holders of an object are the scripts whose wrapper has it, and the simulator's
\* thread during a dispatch. One that has not been made is as at the start.
HoldersOK ==
  \A id \in ObjectIds :
    /\ \A s \in Scripts :
         s \in refs[id] <=> /\ wrapper[s] = id /\ phase[s] # "gone"
                            /\ pc[s] \notin {"destroy", "forget"}
    /\ Sim \in refs[id] <=> simId = id /\ simAt \in {"found", "named", "release"}
    /\ id > made =>
         /\ refs[id] = {} /\ callbacks[id] = {} /\ events[id] = "absent" /\ id \notin subscribed
         /\ \A s \in Scripts : wrapper[s] # id

\* An object that is being destroyed is held by nobody.
DestroyedOK ==
  /\ \A s \in Scripts : pc[s] \in {"destroy", "forget"} => refs[wrapper[s]] = {}
  /\ simAt \in {"found", "named", "release", "destroy", "forget"} => simId \in 1..made
  /\ simAt \in {"destroy", "forget"} => refs[simId] = {}

\* The name is that of the object that is held, or of the one that one actor is about to
\* destroy.
NamesOK ==
  /\ OneObject
  /\ namedEvents # NoObject => namedEvents \in 1..made
  /\ namedEvents # NoObject /\ refs[namedEvents] = {} => Destroys(namedEvents, {"destroy"})
  /\ \A s \in Scripts : pc[s] = "destroy" =>
       /\ namedEvents = wrapper[s]
       /\ simAt # "destroy"
       /\ \A t \in Scripts : pc[t] = "destroy" => t = s
  /\ simAt = "destroy" => namedEvents = simId

\* A callback is that of a script's wrapper: its last one, unless it subscribes again,
\* and not removed yet.
CallbacksOK ==
  \A id \in ObjectIds : \A c \in callbacks[id] :
    /\ wrapper[c[1]] = id
    /\ "again" \notin simUsage =>
         /\ c[2] = callbackID[c[1]]
         /\ phase[c[1]] # "gone"
         /\ pc[c[1]] \notin {"add", "check", "unsubscribe", "release", "destroy", "forget"}

\* An actor in subscribe has added its callback.
SubscribersOK ==
  \A s \in Scripts :
    /\ pc[s] \in {"subscribe", "emplace"} => <<s, callbackID[s]>> \in callbacks[wrapper[s]]
    /\ pc[s] = "emplace" => wrapper[s] \in group

\* The flag of an object tells of the group and the entry.
EntriesOK ==
  \A id \in ObjectIds :
    /\ "stray" \notin simUsage => events[id] # "empty"
    /\ refs[id] # {} /\ id \in subscribed =>
         id \in group /\ (events[id] = "event" \/ "stray" \in simUsage)

\* An entry is that of an object, or of one that is being destroyed.
ForgottenOK ==
  \A id \in ObjectIds :
    refs[id] = {} /\ events[id] = "event" => Destroys(id, {"destroy", "forget"})

\* Before an object is subscribed to, all who have a callback are about to.
FlagsOK ==
  \A id \in ObjectIds : \A c \in callbacks[id] :
    refs[id] # {} /\ id \notin subscribed => pc[c[1]] \in {"subscribe", "emplace"}

\* The scripts that are left to be handed an event are among those it is for.
WalkOK ==
  /\ simAt = "named" =>
       \A s \in Scripts : s \in todo \/ s = current => s \in ScriptsOf(simId)
  /\ simAt = "system" => \A s \in Scripts : s \in todo \/ s = current => s \in scripts
  /\ simAt \notin {"named", "system"} => current = Sim
  /\ current \notin todo

\* The manager's scripts, and the one that is about to be registered, are known.
KnownOK ==
  /\ \A s \in scripts : s \in known /\ pc[s] # "register"
  /\ \A s \in Scripts : pc[s] = "register" => s \in known
  /\ RegisteredHear

EventInv ==
  /\ EventTypeOK
  /\ ActorsOK
  /\ HoldersOK
  /\ DestroyedOK
  /\ NamesOK
  /\ CallbacksOK
  /\ SubscribersOK
  /\ EntriesOK
  /\ ForgottenOK
  /\ FlagsOK
  /\ WalkOK
  /\ KnownOK
  /\ NullWhileDestroyed

-----------------------------------------------------------------------------
(* What one step leaves of each part *)

\* A new object gets the next number, which nobody has used.
Makes(s, n) ==
  /\ n = made + 1 /\ made' = n /\ namedEvents' = n
  /\ refs' = [refs EXCEPT ![n] = {s}] /\ wrapper' = [wrapper EXCEPT ![s] = n]
  /\ UNCHANGED null
  /\ refs[n] = {} /\ callbacks[n] = {} /\ events[n] = "absent" /\ n \notin subscribed
  /\ \A t \in Scripts : wrapper[t] # n

LEMMA NewObjectIs ==
  ASSUME EventInv, NEW s \in Scripts, NewObject(s)
  PROVE  \E n \in ObjectIds : Makes(s, n)
<1> DEFINE n == made + 1
<1>1. n \in ObjectIds /\ n > made
  BY SimBoundsAssumption DEF NewObject, ObjectIds, EventInv, EventTypeOK, NameTypeOK
<1>2. /\ refs[n] = {} /\ callbacks[n] = {} /\ events[n] = "absent" /\ n \notin subscribed
      /\ \A t \in Scripts : wrapper[t] # n
  BY <1>1 DEF EventInv, HoldersOK
<1> QED
  BY <1>1, <1>2 DEF NewObject, Makes

\* The destroyers of objects stay with them.
DestroyersKept(ats) ==
  /\ \A s \in Scripts : pc[s] \in ats => pc'[s] \in ats /\ wrapper'[s] = wrapper[s]
  /\ simAt \in ats => simAt' \in ats /\ simId' = simId

LEMMA DestroysKept ==
  ASSUME NEW id, NEW ats, Destroys(id, ats), DestroyersKept(ats)
  PROVE  Destroys(id, ats)'
BY DEF Destroys, DestroyersKept

\* No other object has an entry and no holder.
EntriesKept ==
  \A id \in ObjectIds :
    refs'[id] = {} /\ events'[id] = "event" => refs[id] = {} /\ events[id] = "event"

LEMMA ForgottenKept ==
  ASSUME ForgottenOK, EntriesKept, DestroyersKept({"destroy", "forget"})
  PROVE  ForgottenOK'
<1> SUFFICES ASSUME NEW id \in ObjectIds, refs'[id] = {}, events'[id] = "event"
             PROVE  Destroys(id, {"destroy", "forget"})'
  BY DEF ForgottenOK
<1>1. Destroys(id, {"destroy", "forget"})
  BY DEF EntriesKept, ForgottenOK
<1> QED
  BY <1>1, DestroysKept

LEMMA NameTypeOKStep == EventInv /\ EventNext => NameTypeOK'
<1> SUFFICES ASSUME EventInv, EventNext PROVE NameTypeOK'
  OBVIOUS
<1> USE NoObjectAssumption, ScriptsAssumption, SimBoundsAssumption
    DEF EventInv, EventTypeOK, NameTypeOK, HoldTypeOK, ObjectIds, GoTo, EventsLocked,
        ManagerLocked, nameVars, entryVars, callbackVars, holdVars, namedVars, systemVars,
        actorVars, threadVars
<1>1. ASSUME NEW s \in Scripts, BeginRegister(s) \/ BeginCall(s) \/ Register(s) \/
     AddCallback(s) \/ Subscribe(s) \/ EmplaceEvent(s) \/ RemoveCallback(s) \/
     CheckCallbacks(s) \/ Unsubscribe(s) \/ StopBegins(s) \/ CloseState(s) \/
     ReleaseEvent(s)
     PROVE  NameTypeOK'
  BY <1>1 DEF BeginRegister, BeginCall, Register, AddCallback, Subscribe, EmplaceEvent,
         RemoveCallback, CheckCallbacks, Unsubscribe, StopBegins, CloseState, ReleaseEvent,
         MayCall, IsUnused, Removed, Gone, Destructor
<1>2. ASSUME NEW s \in Scripts, GetNamedEvent(s) PROVE NameTypeOK'
  BY <1>2 DEF GetNamedEvent, NewObject, SharedObject, NullObject
<1>3. ASSUME NEW s \in Scripts, ScriptDestroys(s) PROVE NameTypeOK'
  BY <1>3 DEF ScriptDestroys, Gone, Unname, EraseName, Forget
<1>4. CASE (\E id \in ObjectIds : OnCustomEvent(id)) \/ DispatchNamed \/ OnSystemEvent \/
       NextScript \/ Deliver \/ EventDone \/ SimReleases
  BY <1>4 DEF OnCustomEvent, DispatchNamed, OnSystemEvent, NextScript, Deliver, EventDone,
         SimReleases, ScriptsOf, Remaining, EntryLocked
<1>5. CASE SimDestroys
  BY <1>5 DEF SimDestroys, Unname, EraseName, Forget
<1> QED
  BY ONLY EventNext, <1>1, <1>2, <1>3, <1>4, <1>5 DEF EventNext, SimStep, ScriptStep

LEMMA EntryTypeOKStep == EventInv /\ EventNext => EntryTypeOK'
<1> SUFFICES ASSUME EventInv, EventNext PROVE EntryTypeOK'
  OBVIOUS
<1> USE NoObjectAssumption, ScriptsAssumption, SimBoundsAssumption
    DEF EventInv, EventTypeOK, EntryTypeOK, HoldTypeOK, ActorsOK, DestroyedOK, ObjectIds,
        GoTo, EventsLocked, ManagerLocked, nameVars, entryVars, callbackVars, holdVars,
        namedVars, systemVars, actorVars, threadVars
<1>1. ASSUME NEW s \in Scripts, BeginRegister(s) \/ BeginCall(s) \/ Register(s) \/
     GetNamedEvent(s) \/ AddCallback(s) \/ RemoveCallback(s) \/ CheckCallbacks(s) \/
     StopBegins(s) \/ CloseState(s) \/ ReleaseEvent(s)
     PROVE  EntryTypeOK'
  BY <1>1 DEF BeginRegister, BeginCall, Register, GetNamedEvent, AddCallback,
         RemoveCallback, CheckCallbacks, StopBegins, CloseState, ReleaseEvent, MayCall,
         NewObject, SharedObject, NullObject, IsUnused, Removed, Gone, Destructor
<1>2. ASSUME NEW s \in Scripts, Subscribe(s) PROVE EntryTypeOK'
  BY <1>2 DEF Subscribe
<1>3. ASSUME NEW s \in Scripts, EmplaceEvent(s) PROVE EntryTypeOK'
  BY <1>3 DEF EmplaceEvent
<1>4. ASSUME NEW s \in Scripts, Unsubscribe(s) PROVE EntryTypeOK'
  BY <1>4 DEF Unsubscribe, IsUnused, Removed
<1>5. ASSUME NEW s \in Scripts, ScriptDestroys(s) PROVE EntryTypeOK'
  BY <1>5 DEF ScriptDestroys, Gone, Unname, EraseName, Forget
<1>6. CASE DispatchNamed \/ OnSystemEvent \/ NextScript \/ Deliver \/ EventDone \/
       SimReleases
  BY <1>6 DEF DispatchNamed, OnSystemEvent, NextScript, Deliver, EventDone, SimReleases,
         ScriptsOf, Remaining, EntryLocked
<1>7. ASSUME NEW id \in ObjectIds, OnCustomEvent(id) PROVE EntryTypeOK'
  BY <1>7 DEF OnCustomEvent
<1>8. CASE SimDestroys
  BY <1>8 DEF SimDestroys, Unname, EraseName, Forget
<1> QED
  BY ONLY EventNext, <1>1, <1>2, <1>3, <1>4, <1>5, <1>6, <1>7, <1>8 DEF EventNext, SimStep,
     ScriptStep

LEMMA CallbackTypeOKStep == EventInv /\ EventNext => CallbackTypeOK'
<1> SUFFICES ASSUME EventInv, EventNext PROVE CallbackTypeOK'
  OBVIOUS
<1> USE NoObjectAssumption, ScriptsAssumption, SimBoundsAssumption
    DEF EventInv, EventTypeOK, CallbackTypeOK, HoldTypeOK, ActorsOK, ObjectIds, GoTo,
        EventsLocked, ManagerLocked, nameVars, entryVars, callbackVars, holdVars, namedVars,
        systemVars, actorVars, threadVars
<1>1. ASSUME NEW s \in Scripts, BeginRegister(s) \/ BeginCall(s) \/ Register(s) \/
     GetNamedEvent(s) \/ Subscribe(s) \/ EmplaceEvent(s) \/ CheckCallbacks(s) \/
     Unsubscribe(s) \/ StopBegins(s) \/ CloseState(s) \/ ReleaseEvent(s) \/
     ScriptDestroys(s)
     PROVE  CallbackTypeOK'
  BY <1>1 DEF BeginRegister, BeginCall, Register, GetNamedEvent, Subscribe, EmplaceEvent,
         CheckCallbacks, Unsubscribe, StopBegins, CloseState, ReleaseEvent, ScriptDestroys,
         MayCall, NewObject, SharedObject, NullObject, IsUnused, Removed, Gone, Destructor,
         Unname, EraseName, Forget
<1>2. ASSUME NEW s \in Scripts, AddCallback(s) PROVE CallbackTypeOK'
  BY <1>2 DEF AddCallback
<1>3. ASSUME NEW s \in Scripts, RemoveCallback(s) PROVE CallbackTypeOK'
  BY <1>3 DEF RemoveCallback
<1>4. CASE (\E id \in ObjectIds : OnCustomEvent(id)) \/ DispatchNamed \/ OnSystemEvent \/
       NextScript \/ Deliver \/ EventDone \/ SimReleases \/ SimDestroys
  BY <1>4 DEF OnCustomEvent, DispatchNamed, OnSystemEvent, NextScript, Deliver, EventDone,
         SimReleases, SimDestroys, ScriptsOf, Remaining, EntryLocked, Unname, EraseName,
         Forget
<1> QED
  BY ONLY EventNext, <1>1, <1>2, <1>3, <1>4 DEF EventNext, SimStep, ScriptStep

LEMMA HoldTypeOKStep == EventInv /\ EventNext => HoldTypeOK'
<1> SUFFICES ASSUME EventInv, EventNext PROVE HoldTypeOK'
  OBVIOUS
<1> USE NoObjectAssumption, ScriptsAssumption, SimBoundsAssumption
    DEF EventInv, EventTypeOK, HoldTypeOK, NameTypeOK, ActorsOK, ObjectIds, GoTo,
        EventsLocked, ManagerLocked, nameVars, entryVars, callbackVars, holdVars, namedVars,
        systemVars, actorVars, threadVars
<1>1. ASSUME NEW s \in Scripts, BeginRegister(s) \/ BeginCall(s) \/ Register(s) \/
     AddCallback(s) \/ Subscribe(s) \/ EmplaceEvent(s) \/ RemoveCallback(s) \/
     CheckCallbacks(s) \/ Unsubscribe(s) \/ StopBegins(s) \/ CloseState(s) \/
     ScriptDestroys(s)
     PROVE  HoldTypeOK'
  BY <1>1 DEF BeginRegister, BeginCall, Register, AddCallback, Subscribe, EmplaceEvent,
         RemoveCallback, CheckCallbacks, Unsubscribe, StopBegins, CloseState,
         ScriptDestroys, MayCall, IsUnused, Removed, Gone, Destructor, Unname, EraseName,
         Forget
<1>2. ASSUME NEW s \in Scripts, GetNamedEvent(s) PROVE HoldTypeOK'
  <2>1. CASE NewObject(s)
    <3>1. PICK n \in ObjectIds : Makes(s, n)
      BY <2>1, NewObjectIs
    <3> QED
      BY <1>2, <3>1 DEF GetNamedEvent, Makes
  <2>2. CASE SharedObject(s)
    BY <1>2, <2>2 DEF GetNamedEvent, SharedObject
  <2>3. CASE NullObject(s)
    BY <1>2, <2>3 DEF GetNamedEvent, NullObject
  <2> QED
    BY <1>2, <2>1, <2>2, <2>3 DEF GetNamedEvent
<1>3. ASSUME NEW s \in Scripts, ReleaseEvent(s) PROVE HoldTypeOK'
  BY <1>3 DEF ReleaseEvent, Gone
<1>4. CASE DispatchNamed \/ OnSystemEvent \/ NextScript \/ Deliver \/ EventDone \/
       SimDestroys
  BY <1>4 DEF DispatchNamed, OnSystemEvent, NextScript, Deliver, EventDone, SimDestroys,
         ScriptsOf, Remaining, EntryLocked, Unname, EraseName, Forget
<1>5. ASSUME NEW id \in ObjectIds, OnCustomEvent(id) PROVE HoldTypeOK'
  BY <1>5 DEF OnCustomEvent
<1>6. CASE SimReleases
  BY <1>6 DEF SimReleases
<1> QED
  BY ONLY EventNext, <1>1, <1>2, <1>3, <1>4, <1>5, <1>6 DEF EventNext, SimStep, ScriptStep

LEMMA ActorTypeOKStep == EventInv /\ EventNext => ActorTypeOK'
<1> SUFFICES ASSUME EventInv, EventNext PROVE ActorTypeOK'
  OBVIOUS
<1> USE NoObjectAssumption, ScriptsAssumption, SimBoundsAssumption
    DEF EventInv, EventTypeOK, ActorTypeOK, Steps, ObjectIds, GoTo, EventsLocked,
        ManagerLocked, nameVars, entryVars, callbackVars, holdVars, namedVars, systemVars,
        actorVars, threadVars
<1>1. ASSUME NEW s \in Scripts, BeginRegister(s) PROVE ActorTypeOK'
  BY <1>1 DEF BeginRegister, MayCall
<1>2. ASSUME NEW s \in Scripts, BeginCall(s) PROVE ActorTypeOK'
  BY <1>2 DEF BeginCall, MayCall
<1>3. ASSUME NEW s \in Scripts, Register(s) PROVE ActorTypeOK'
  BY <1>3 DEF Register
<1>4. ASSUME NEW s \in Scripts, GetNamedEvent(s) PROVE ActorTypeOK'
  BY <1>4 DEF GetNamedEvent, NewObject, SharedObject, NullObject
<1>5. ASSUME NEW s \in Scripts, AddCallback(s) PROVE ActorTypeOK'
  BY <1>5 DEF AddCallback
<1>6. ASSUME NEW s \in Scripts, Subscribe(s) PROVE ActorTypeOK'
  BY <1>6 DEF Subscribe
<1>7. ASSUME NEW s \in Scripts, EmplaceEvent(s) PROVE ActorTypeOK'
  BY <1>7 DEF EmplaceEvent
<1>8. ASSUME NEW s \in Scripts, RemoveCallback(s) PROVE ActorTypeOK'
  BY <1>8 DEF RemoveCallback
<1>9. ASSUME NEW s \in Scripts, CheckCallbacks(s) PROVE ActorTypeOK'
  BY <1>9 DEF CheckCallbacks, IsUnused, Removed
<1>10. ASSUME NEW s \in Scripts, Unsubscribe(s) PROVE ActorTypeOK'
  BY <1>10 DEF Unsubscribe, IsUnused, Removed
<1>11. ASSUME NEW s \in Scripts, StopBegins(s) PROVE ActorTypeOK'
  BY <1>11 DEF StopBegins
<1>12. ASSUME NEW s \in Scripts, CloseState(s) PROVE ActorTypeOK'
  BY <1>12 DEF CloseState, Gone, Destructor
<1>13. ASSUME NEW s \in Scripts, ReleaseEvent(s) PROVE ActorTypeOK'
  BY <1>13 DEF ReleaseEvent, Gone
<1>14. ASSUME NEW s \in Scripts, ScriptDestroys(s) PROVE ActorTypeOK'
  BY <1>14 DEF ScriptDestroys, Gone, Unname, EraseName, Forget
<1>15. CASE (\E id \in ObjectIds : OnCustomEvent(id)) \/ DispatchNamed \/ OnSystemEvent \/
       NextScript \/ EventDone \/ SimReleases \/ SimDestroys
  BY <1>15 DEF OnCustomEvent, DispatchNamed, OnSystemEvent, NextScript, EventDone,
         SimReleases, SimDestroys, ScriptsOf, Unname, EraseName, Forget
<1>16. CASE Deliver
  BY <1>16 DEF Deliver, Remaining, EntryLocked
<1> QED
  BY ONLY EventNext, <1>1, <1>2, <1>3, <1>4, <1>5, <1>6, <1>7, <1>8, <1>9, <1>10, <1>11,
     <1>12, <1>13, <1>14, <1>15, <1>16 DEF EventNext, SimStep, ScriptStep

LEMMA ThreadTypeOKStep == EventInv /\ EventNext => ThreadTypeOK'
<1> SUFFICES ASSUME EventInv, EventNext PROVE ThreadTypeOK'
  OBVIOUS
<1> USE NoObjectAssumption, ScriptsAssumption, SimBoundsAssumption
    DEF EventInv, EventTypeOK, ThreadTypeOK, CallbackTypeOK, ActorTypeOK, NameTypeOK,
        DestroyedOK, ObjectIds, GoTo, EventsLocked, ManagerLocked, nameVars, entryVars,
        callbackVars, holdVars, namedVars, systemVars, actorVars, threadVars
<1>1. ASSUME NEW s \in Scripts, BeginRegister(s) \/ BeginCall(s) \/ Register(s) \/
     AddCallback(s) \/ Subscribe(s) \/ EmplaceEvent(s) \/ RemoveCallback(s) \/
     CheckCallbacks(s) \/ Unsubscribe(s) \/ StopBegins(s) \/ CloseState(s) \/
     ReleaseEvent(s) \/ ScriptDestroys(s)
     PROVE  ThreadTypeOK'
  BY <1>1 DEF BeginRegister, BeginCall, Register, AddCallback, Subscribe, EmplaceEvent,
         RemoveCallback, CheckCallbacks, Unsubscribe, StopBegins, CloseState, ReleaseEvent,
         ScriptDestroys, MayCall, IsUnused, Removed, Gone, Destructor, Unname, EraseName,
         Forget
<1>2. ASSUME NEW s \in Scripts, GetNamedEvent(s) PROVE ThreadTypeOK'
  BY <1>2 DEF GetNamedEvent, NewObject, SharedObject, NullObject
<1>3. ASSUME NEW id \in ObjectIds, OnCustomEvent(id) PROVE ThreadTypeOK'
  BY <1>3 DEF OnCustomEvent
<1>4. CASE DispatchNamed
  BY <1>4 DEF DispatchNamed, ScriptsOf
<1>5. CASE OnSystemEvent
  BY <1>5 DEF OnSystemEvent
<1>6. CASE NextScript
  BY <1>6 DEF NextScript
<1>7. CASE Deliver
  BY <1>7 DEF Deliver, Remaining, EntryLocked
<1>8. CASE EventDone
  BY <1>8 DEF EventDone
<1>9. CASE SimReleases
  BY <1>9 DEF SimReleases
<1>10. CASE SimDestroys
  BY <1>10 DEF SimDestroys, Unname, EraseName, Forget
<1> QED
  BY ONLY EventNext, <1>1, <1>2, <1>3, <1>4, <1>5, <1>6, <1>7, <1>8, <1>9, <1>10 DEF
     EventNext, SimStep, ScriptStep

LEMMA ActorsOKStep == EventInv /\ EventNext => ActorsOK'
<1> SUFFICES ASSUME EventInv, EventNext PROVE ActorsOK'
  OBVIOUS
<1> USE NoObjectAssumption, ScriptsAssumption, SimBoundsAssumption
    DEF EventInv, EventTypeOK, HoldTypeOK, ActorTypeOK, ActorsOK, ObjectIds, GoTo,
        EventsLocked, ManagerLocked, nameVars, entryVars, callbackVars, holdVars, namedVars,
        systemVars, actorVars, threadVars
<1>1. ASSUME NEW s \in Scripts, BeginRegister(s) PROVE ActorsOK'
  BY <1>1 DEF BeginRegister, MayCall
<1>2. ASSUME NEW s \in Scripts, BeginCall(s) PROVE ActorsOK'
  BY <1>2 DEF BeginCall, MayCall
<1>3. ASSUME NEW s \in Scripts, Register(s) PROVE ActorsOK'
  BY <1>3 DEF Register
<1>4. ASSUME NEW s \in Scripts, GetNamedEvent(s) PROVE ActorsOK'
  BY <1>4 DEF GetNamedEvent, NewObject, SharedObject, NullObject
<1>5. ASSUME NEW s \in Scripts, AddCallback(s) PROVE ActorsOK'
  BY <1>5 DEF AddCallback
<1>6. ASSUME NEW s \in Scripts, Subscribe(s) PROVE ActorsOK'
  BY <1>6 DEF Subscribe
<1>7. ASSUME NEW s \in Scripts, EmplaceEvent(s) PROVE ActorsOK'
  BY <1>7 DEF EmplaceEvent
<1>8. ASSUME NEW s \in Scripts, RemoveCallback(s) PROVE ActorsOK'
  BY <1>8 DEF RemoveCallback
<1>9. ASSUME NEW s \in Scripts, CheckCallbacks(s) PROVE ActorsOK'
  BY <1>9 DEF CheckCallbacks, IsUnused, Removed
<1>10. ASSUME NEW s \in Scripts, Unsubscribe(s) PROVE ActorsOK'
  BY <1>10 DEF Unsubscribe, IsUnused, Removed
<1>11. ASSUME NEW s \in Scripts, StopBegins(s) PROVE ActorsOK'
  BY <1>11 DEF StopBegins
<1>12. ASSUME NEW s \in Scripts, CloseState(s) PROVE ActorsOK'
  BY <1>12 DEF CloseState, Gone, Destructor
<1>13. ASSUME NEW s \in Scripts, ReleaseEvent(s) PROVE ActorsOK'
  BY <1>13 DEF ReleaseEvent, Gone
<1>14. ASSUME NEW s \in Scripts, ScriptDestroys(s) PROVE ActorsOK'
  BY <1>14 DEF ScriptDestroys, Gone, Unname, EraseName, Forget
<1>15. CASE (\E id \in ObjectIds : OnCustomEvent(id)) \/ DispatchNamed \/ OnSystemEvent \/
       NextScript \/ Deliver \/ EventDone \/ SimReleases \/ SimDestroys
  BY <1>15 DEF OnCustomEvent, DispatchNamed, OnSystemEvent, NextScript, Deliver, EventDone,
         SimReleases, SimDestroys, ScriptsOf, Remaining, EntryLocked, Unname, EraseName,
         Forget
<1> QED
  BY ONLY EventNext, <1>1, <1>2, <1>3, <1>4, <1>5, <1>6, <1>7, <1>8, <1>9, <1>10, <1>11,
     <1>12, <1>13, <1>14, <1>15 DEF EventNext, SimStep, ScriptStep

LEMMA HoldersOKStep == EventInv /\ EventNext => HoldersOK'
<1> SUFFICES ASSUME EventInv, EventNext PROVE HoldersOK'
  OBVIOUS
<1> USE NoObjectAssumption, ScriptsAssumption, SimBoundsAssumption
    DEF EventInv, NameTypeOK, EntryTypeOK, CallbackTypeOK, HoldTypeOK, ActorTypeOK,
        ThreadTypeOK, Steps, EventTypeOK, ActorsOK, HoldersOK, DestroyedOK, ObjectIds, GoTo,
        EventsLocked, ManagerLocked, nameVars, entryVars, callbackVars, holdVars, namedVars,
        systemVars, actorVars, threadVars
<1>1. ASSUME NEW s \in Scripts, BeginRegister(s) PROVE HoldersOK'
  BY <1>1 DEF BeginRegister, MayCall
<1>2. ASSUME NEW s \in Scripts, BeginCall(s) PROVE HoldersOK'
  <2>1. CASE GoTo(s, "getNamed")
    BY <1>2, <2>1 DEF BeginCall, MayCall
  <2>2. CASE GoTo(s, "add")
    BY <1>2, <2>2 DEF BeginCall, MayCall
  <2>3. CASE GoTo(s, "remove")
    BY <1>2, <2>3 DEF BeginCall, MayCall
  <2> QED
    BY <1>2, <2>1, <2>2, <2>3 DEF BeginCall, MayCall
<1>3. ASSUME NEW s \in Scripts, Register(s) PROVE HoldersOK'
  BY <1>3 DEF Register
<1>4. ASSUME NEW s \in Scripts, GetNamedEvent(s) PROVE HoldersOK'
  <2>1. CASE NewObject(s)
    <3>1. PICK n \in ObjectIds : Makes(s, n)
      BY <2>1, NewObjectIs
    <3> QED
      BY <1>4, <3>1 DEF GetNamedEvent, Makes
  <2>2. CASE SharedObject(s)
    BY <1>4, <2>2 DEF GetNamedEvent, SharedObject
  <2>3. CASE NullObject(s)
    BY <1>4, <2>3 DEF GetNamedEvent, NullObject
  <2> QED
    BY <1>4, <2>1, <2>2, <2>3 DEF GetNamedEvent
<1>5. ASSUME NEW s \in Scripts, AddCallback(s) PROVE HoldersOK'
  BY <1>5 DEF AddCallback
<1>6. ASSUME NEW s \in Scripts, Subscribe(s) PROVE HoldersOK'
  <2>1. \A t \in Scripts : pc'[t] \in {"destroy", "forget"} <=> pc[t] \in {"destroy", "forget"}
    BY <1>6 DEF Subscribe
  <2>2. UNCHANGED <<refs, wrapper, phase, simId, simAt, made, callbacks, events, subscribed>>
    BY <1>6 DEF Subscribe
  <2>3. HoldersOK
    OBVIOUS
  <2> QED
    BY ONLY <2>1, <2>2, <2>3 DEF HoldersOK
<1>7. ASSUME NEW s \in Scripts, EmplaceEvent(s) PROVE HoldersOK'
  BY <1>7 DEF EmplaceEvent
<1>8. ASSUME NEW s \in Scripts, RemoveCallback(s) PROVE HoldersOK'
  BY <1>8 DEF RemoveCallback
<1>9. ASSUME NEW s \in Scripts, CheckCallbacks(s) PROVE HoldersOK'
  BY <1>9 DEF CheckCallbacks, IsUnused, Removed
<1>10. ASSUME NEW s \in Scripts, Unsubscribe(s) PROVE HoldersOK'
  BY <1>10 DEF Unsubscribe, IsUnused, Removed
<1>11. ASSUME NEW s \in Scripts, StopBegins(s) PROVE HoldersOK'
  BY <1>11 DEF StopBegins
<1>12. ASSUME NEW s \in Scripts, CloseState(s) PROVE HoldersOK'
  BY <1>12 DEF CloseState, Gone, Destructor
<1>13. ASSUME NEW s \in Scripts, ReleaseEvent(s) PROVE HoldersOK'
  BY <1>13 DEF ReleaseEvent, Gone
<1>14. ASSUME NEW s \in Scripts, ScriptDestroys(s) PROVE HoldersOK'
  <2>1. CASE pc[s] = "destroy"
    <3>1. UNCHANGED <<refs, wrapper, phase, simId, simAt, made, callbacks, events, subscribed>>
      BY <1>14, <2>1 DEF ScriptDestroys, Unname
    <3>2. \A t \in Scripts : pc'[t] \in {"destroy", "forget"} <=> pc[t] \in {"destroy", "forget"}
      BY <1>14, <2>1 DEF ScriptDestroys
    <3>3. HoldersOK
      OBVIOUS
    <3> QED
      BY ONLY <3>1, <3>2, <3>3 DEF HoldersOK
  <2>2. CASE pc[s] = "forget"
    <3>1. /\ UNCHANGED <<refs, wrapper, simId, simAt, made, callbacks, subscribed>>
          /\ \A id \in ObjectIds : events[id] = "absent" => events'[id] = "absent"
      BY <1>14, <2>2 DEF ScriptDestroys, Forget
    <3>2. /\ \A t \in Scripts \ {s} : pc'[t] = pc[t] /\ phase'[t] = phase[t]
          /\ phase'[s] = "gone"
      BY <1>14, <2>2 DEF ScriptDestroys, Gone
    <3>3. \A id \in ObjectIds : s \notin refs[id]
      BY <2>2
    <3>4. HoldersOK
      OBVIOUS
    <3> QED
      BY ONLY <2>2, <3>1, <3>2, <3>3, <3>4 DEF HoldersOK
  <2> QED
    BY <1>14, <2>1, <2>2 DEF ScriptDestroys
<1>15. CASE NextScript \/ Deliver
  BY <1>15 DEF NextScript, Deliver, Remaining, EntryLocked
<1>16. ASSUME NEW id \in ObjectIds, OnCustomEvent(id) PROVE HoldersOK'
  BY <1>16 DEF OnCustomEvent
<1>17. CASE DispatchNamed
  BY <1>17 DEF DispatchNamed, ScriptsOf
<1>18. CASE OnSystemEvent
  BY <1>18 DEF OnSystemEvent
<1>19. CASE EventDone
  BY <1>19 DEF EventDone
<1>20. CASE SimReleases
  BY <1>20 DEF SimReleases
<1>21. CASE SimDestroys
  BY <1>21 DEF SimDestroys, Unname, EraseName, Forget
<1> QED
  BY ONLY EventNext, <1>1, <1>2, <1>3, <1>4, <1>5, <1>6, <1>7, <1>8, <1>9, <1>10, <1>11,
     <1>12, <1>13, <1>14, <1>15, <1>16, <1>17, <1>18, <1>19, <1>20, <1>21 DEF EventNext,
     SimStep, ScriptStep

LEMMA DestroyedOKStep == EventInv /\ EventNext => DestroyedOK'
<1> SUFFICES ASSUME EventInv, EventNext PROVE DestroyedOK'
  OBVIOUS
<1> USE NoObjectAssumption, ScriptsAssumption, SimBoundsAssumption
    DEF EventInv, EventTypeOK, HoldTypeOK, NameTypeOK, ActorTypeOK, ThreadTypeOK, ActorsOK,
        HoldersOK, DestroyedOK, ObjectIds, GoTo, EventsLocked, ManagerLocked, nameVars,
        entryVars, callbackVars, holdVars, namedVars, systemVars, actorVars, threadVars
<1>1. ASSUME NEW s \in Scripts, BeginRegister(s) PROVE DestroyedOK'
  BY <1>1 DEF BeginRegister, MayCall
<1>2. ASSUME NEW s \in Scripts, BeginCall(s) PROVE DestroyedOK'
  BY <1>2 DEF BeginCall, MayCall
<1>3. ASSUME NEW s \in Scripts, Register(s) PROVE DestroyedOK'
  BY <1>3 DEF Register
<1>4. ASSUME NEW s \in Scripts, GetNamedEvent(s) PROVE DestroyedOK'
  <2>1. CASE NewObject(s)
    <3>1. PICK n \in ObjectIds : Makes(s, n)
      BY <2>1, NewObjectIs
    <3> QED
      BY <1>4, <3>1 DEF GetNamedEvent, Makes
  <2>2. CASE SharedObject(s)
    BY <1>4, <2>2 DEF GetNamedEvent, SharedObject
  <2>3. CASE NullObject(s)
    BY <1>4, <2>3 DEF GetNamedEvent, NullObject
  <2> QED
    BY <1>4, <2>1, <2>2, <2>3 DEF GetNamedEvent
<1>5. ASSUME NEW s \in Scripts, AddCallback(s) PROVE DestroyedOK'
  BY <1>5 DEF AddCallback
<1>6. ASSUME NEW s \in Scripts, Subscribe(s) PROVE DestroyedOK'
  BY <1>6 DEF Subscribe
<1>7. ASSUME NEW s \in Scripts, EmplaceEvent(s) PROVE DestroyedOK'
  BY <1>7 DEF EmplaceEvent
<1>8. ASSUME NEW s \in Scripts, RemoveCallback(s) PROVE DestroyedOK'
  BY <1>8 DEF RemoveCallback
<1>9. ASSUME NEW s \in Scripts, CheckCallbacks(s) PROVE DestroyedOK'
  <2>1. CASE GoTo(s, "unsubscribe")
    BY <1>9, <2>1 DEF CheckCallbacks
  <2>2. CASE GoTo(s, "release")
    BY <1>9, <2>2 DEF CheckCallbacks
  <2>3. CASE GoTo(s, "idle")
    BY <1>9, <2>3 DEF CheckCallbacks
  <2> QED
    BY <1>9, <2>1, <2>2, <2>3 DEF CheckCallbacks, IsUnused, Removed
<1>10. ASSUME NEW s \in Scripts, Unsubscribe(s) PROVE DestroyedOK'
  BY <1>10 DEF Unsubscribe, IsUnused, Removed
<1>11. ASSUME NEW s \in Scripts, StopBegins(s) PROVE DestroyedOK'
  BY <1>11 DEF StopBegins
<1>12. ASSUME NEW s \in Scripts, CloseState(s) PROVE DestroyedOK'
  BY <1>12 DEF CloseState, Gone, Destructor
<1>13. ASSUME NEW s \in Scripts, ReleaseEvent(s) PROVE DestroyedOK'
  <2>1. CASE refs[wrapper[s]] \ {s} = {}
    BY <1>13, <2>1 DEF ReleaseEvent, Gone
  <2>2. CASE refs[wrapper[s]] \ {s} # {}
    BY <1>13, <2>2 DEF ReleaseEvent, Gone
  <2> QED
    BY <1>13, <2>1, <2>2 DEF ReleaseEvent, Gone
<1>14. ASSUME NEW s \in Scripts, ScriptDestroys(s) PROVE DestroyedOK'
  BY <1>14 DEF ScriptDestroys, Gone, Unname, EraseName, Forget
<1>15. CASE NextScript \/ Deliver
  BY <1>15 DEF NextScript, Deliver, Remaining, EntryLocked
<1>16. ASSUME NEW id \in ObjectIds, OnCustomEvent(id) PROVE DestroyedOK'
  <2>1. CASE events[id] = "event"
    BY <1>16, <2>1 DEF OnCustomEvent
  <2>2. CASE events[id] # "event"
    BY <1>16, <2>2 DEF OnCustomEvent
  <2> QED
    BY <1>16, <2>1, <2>2 DEF OnCustomEvent
<1>17. CASE DispatchNamed
  BY <1>17 DEF DispatchNamed, ScriptsOf
<1>18. CASE OnSystemEvent
  BY <1>18 DEF OnSystemEvent
<1>19. CASE EventDone
  BY <1>19 DEF EventDone
<1>20. CASE SimReleases
  BY <1>20 DEF SimReleases
<1>21. CASE SimDestroys
  BY <1>21 DEF SimDestroys, Unname, EraseName, Forget
<1> QED
  BY ONLY EventNext, <1>1, <1>2, <1>3, <1>4, <1>5, <1>6, <1>7, <1>8, <1>9, <1>10, <1>11,
     <1>12, <1>13, <1>14, <1>15, <1>16, <1>17, <1>18, <1>19, <1>20, <1>21 DEF EventNext,
     SimStep, ScriptStep

LEMMA NamesOKStep == EventInv /\ EventNext => NamesOK'
<1> SUFFICES ASSUME EventInv, EventNext PROVE NamesOK'
  OBVIOUS
<1> USE NoObjectAssumption, ScriptsAssumption, SimBoundsAssumption
    DEF EventInv, EventTypeOK, HoldTypeOK, NameTypeOK, ActorTypeOK, ThreadTypeOK, ActorsOK,
        HoldersOK, DestroyedOK, NamesOK, OneObject, Destroys, ObjectIds, GoTo, EventsLocked,
        ManagerLocked, nameVars, entryVars, callbackVars, holdVars, namedVars, systemVars,
        actorVars, threadVars
<1>1. ASSUME NEW s \in Scripts, BeginRegister(s) PROVE NamesOK'
  BY <1>1 DEF BeginRegister, MayCall
<1>2. ASSUME NEW s \in Scripts, BeginCall(s) PROVE NamesOK'
  BY <1>2 DEF BeginCall, MayCall
<1>3. ASSUME NEW s \in Scripts, Register(s) PROVE NamesOK'
  BY <1>3 DEF Register
<1>4. ASSUME NEW s \in Scripts, GetNamedEvent(s) PROVE NamesOK'
  <2>1. CASE NewObject(s)
    <3>1. PICK n \in ObjectIds : Makes(s, n)
      BY <2>1, NewObjectIs
    <3>2. /\ namedEvents = NoObject
          /\ \A id \in ObjectIds : refs[id] = {}
          /\ simAt # "destroy"
          /\ \A t \in Scripts : pc[t] # "destroy"
      <4>1. namedEvents = NoObject
        BY <1>4, <3>1 DEF GetNamedEvent, SharedObject, NullObject, Makes
      <4>2. simAt # "destroy" /\ \A id \in ObjectIds : refs[id] = {}
        BY <4>1
      <4>3. \A t \in Scripts : pc[t] # "destroy"
        BY <4>1
      <4> QED
        BY <4>1, <4>2, <4>3
    <3>3. \A t \in Scripts : pc'[t] # "destroy"
      BY <1>4, <3>2 DEF GetNamedEvent
    <3>4. \A id \in ObjectIds : refs'[id] # {} => id = n
      BY <3>1, <3>2 DEF Makes
    <3> QED
      BY <1>4, <3>1, <3>2, <3>3, <3>4 DEF GetNamedEvent, Makes
  <2>2. CASE SharedObject(s)
    <3>1. /\ refs[namedEvents] # {} /\ refs'[namedEvents] # {}
          /\ \A id \in ObjectIds : refs'[id] # {} => refs[id] # {}
          /\ \A t \in Scripts : pc[t] = "destroy" => t # s
      BY <1>4, <2>2 DEF GetNamedEvent, SharedObject
    <3> QED
      BY <1>4, <2>2, <3>1 DEF GetNamedEvent, SharedObject
  <2>3. CASE NullObject(s)
    BY <1>4, <2>3 DEF GetNamedEvent, NullObject
  <2> QED
    BY <1>4, <2>1, <2>2, <2>3 DEF GetNamedEvent
<1>5. ASSUME NEW s \in Scripts, AddCallback(s) PROVE NamesOK'
  BY <1>5 DEF AddCallback
<1>6. ASSUME NEW s \in Scripts, Subscribe(s) PROVE NamesOK'
  BY <1>6 DEF Subscribe
<1>7. ASSUME NEW s \in Scripts, EmplaceEvent(s) PROVE NamesOK'
  BY <1>7 DEF EmplaceEvent
<1>8. ASSUME NEW s \in Scripts, RemoveCallback(s) PROVE NamesOK'
  BY <1>8 DEF RemoveCallback
<1>9. ASSUME NEW s \in Scripts, CheckCallbacks(s) PROVE NamesOK'
  BY <1>9 DEF CheckCallbacks, IsUnused, Removed
<1>10. ASSUME NEW s \in Scripts, Unsubscribe(s) PROVE NamesOK'
  BY <1>10 DEF Unsubscribe, IsUnused, Removed
<1>11. ASSUME NEW s \in Scripts, StopBegins(s) PROVE NamesOK'
  BY <1>11 DEF StopBegins
<1>12. ASSUME NEW s \in Scripts, CloseState(s) PROVE NamesOK'
  BY <1>12 DEF CloseState, Gone, Destructor
<1>13. ASSUME NEW s \in Scripts, ReleaseEvent(s) PROVE NamesOK'
  <2>1. CASE refs[wrapper[s]] \ {s} = {}
    BY <1>13, <2>1 DEF ReleaseEvent, Gone
  <2>2. CASE refs[wrapper[s]] \ {s} # {}
    BY <1>13, <2>2 DEF ReleaseEvent, Gone
  <2> QED
    BY <1>13, <2>1, <2>2 DEF ReleaseEvent, Gone
<1>14. ASSUME NEW s \in Scripts, ScriptDestroys(s) PROVE NamesOK'
  <2>1. CASE pc[s] = "destroy"
    BY <1>14, <2>1 DEF ScriptDestroys, Gone, Unname, EraseName
  <2>2. CASE pc[s] = "forget"
    BY <1>14, <2>2 DEF ScriptDestroys, Gone, Forget
  <2> QED
    BY <1>14, <2>1, <2>2 DEF ScriptDestroys, Gone, Unname, EraseName, Forget
<1>15. CASE NextScript \/ Deliver
  BY <1>15 DEF NextScript, Deliver, Remaining, EntryLocked
<1>16. ASSUME NEW id \in ObjectIds, OnCustomEvent(id) PROVE NamesOK'
  BY <1>16 DEF OnCustomEvent
<1>17. CASE DispatchNamed
  BY <1>17 DEF DispatchNamed, ScriptsOf
<1>18. CASE OnSystemEvent
  BY <1>18 DEF OnSystemEvent
<1>19. CASE EventDone
  BY <1>19 DEF EventDone
<1>20. CASE SimReleases
  <2>1. /\ UNCHANGED <<namedEvents, made, pc, wrapper, simId>>
        /\ simAt = "release" /\ simId \in ObjectIds /\ Sim \in refs[simId]
        /\ refs' = [refs EXCEPT ![simId] = @ \ {Sim}]
        /\ simAt' = IF refs[simId] \ {Sim} = {} THEN "destroy" ELSE "idle"
    BY <1>20 DEF SimReleases
  <2>2. namedEvents = simId /\ \A t \in Scripts : pc[t] # "destroy"
    BY <2>1
  <2> QED
    BY <2>1, <2>2
<1>21. CASE SimDestroys
  BY <1>21 DEF SimDestroys, Unname, EraseName, Forget
<1> QED
  BY ONLY EventNext, <1>1, <1>2, <1>3, <1>4, <1>5, <1>6, <1>7, <1>8, <1>9, <1>10, <1>11,
     <1>12, <1>13, <1>14, <1>15, <1>16, <1>17, <1>18, <1>19, <1>20, <1>21 DEF EventNext,
     SimStep, ScriptStep

LEMMA CallbacksOKStep == EventInv /\ EventNext => CallbacksOK'
<1> SUFFICES ASSUME EventInv, EventNext PROVE CallbacksOK'
  OBVIOUS
<1> USE NoObjectAssumption, ScriptsAssumption, SimBoundsAssumption
    DEF EventInv, EventTypeOK, HoldTypeOK, CallbackTypeOK, ActorTypeOK, ActorsOK, HoldersOK,
        CallbacksOK, ObjectIds, GoTo, EventsLocked, ManagerLocked, nameVars, entryVars,
        callbackVars, holdVars, namedVars, systemVars, actorVars, threadVars
<1>1. ASSUME NEW s \in Scripts, BeginRegister(s) PROVE CallbacksOK'
  BY <1>1 DEF BeginRegister, MayCall
<1>2. ASSUME NEW s \in Scripts, BeginCall(s) PROVE CallbacksOK'
  <2>1. UNCHANGED <<callbacks, wrapper, callbackID, phase, simUsage>>
    BY <1>2 DEF BeginCall
  <2>2. CASE GoTo(s, "add")
    <3>1. "again" \in simUsage \/ <<s, callbackID[s]>> \notin callbacks[wrapper[s]]
      BY <1>2, <2>2 DEF BeginCall
    <3>2. ASSUME NEW id \in ObjectIds, NEW c \in callbacks[id], "again" \notin simUsage
          PROVE  c[1] \in Scripts \ {s}
      <4>1. c[1] \in Scripts /\ c = <<c[1], c[2]>> /\ wrapper[c[1]] = id /\ c[2] = callbackID[c[1]]
        BY <3>2
      <4> QED
        BY ONLY <2>1, <3>1, <3>2, <4>1
    <3> QED
      BY <2>1, <2>2, <3>2
  <2>3. CASE ~GoTo(s, "add")
    <3>1. /\ \A t \in Scripts \ {s} : pc'[t] = pc[t]
          /\ pc'[s] \in {"getNamed", "remove"}
      BY <1>2, <2>3 DEF BeginCall
    <3> QED
      BY <2>1, <3>1
  <2> QED
    BY <2>2, <2>3
<1>3. ASSUME NEW s \in Scripts, Register(s) PROVE CallbacksOK'
  BY <1>3 DEF Register
<1>4. ASSUME NEW s \in Scripts, GetNamedEvent(s) PROVE CallbacksOK'
  BY <1>4 DEF GetNamedEvent, NewObject, SharedObject, NullObject
<1>5. ASSUME NEW s \in Scripts, AddCallback(s) PROVE CallbacksOK'
  BY <1>5 DEF AddCallback
<1>6. ASSUME NEW s \in Scripts, Subscribe(s) PROVE CallbacksOK'
  BY <1>6 DEF Subscribe
<1>7. ASSUME NEW s \in Scripts, EmplaceEvent(s) PROVE CallbacksOK'
  BY <1>7 DEF EmplaceEvent
<1>8. ASSUME NEW s \in Scripts, RemoveCallback(s) PROVE CallbacksOK'
  BY <1>8 DEF RemoveCallback
<1>9. ASSUME NEW s \in Scripts, CheckCallbacks(s) PROVE CallbacksOK'
  BY <1>9 DEF CheckCallbacks, IsUnused, Removed
<1>10. ASSUME NEW s \in Scripts, Unsubscribe(s) PROVE CallbacksOK'
  BY <1>10 DEF Unsubscribe, IsUnused, Removed
<1>11. ASSUME NEW s \in Scripts, StopBegins(s) PROVE CallbacksOK'
  BY <1>11 DEF StopBegins
<1>12. ASSUME NEW s \in Scripts, CloseState(s) PROVE CallbacksOK'
  BY <1>12 DEF CloseState, Gone, Destructor
<1>13. ASSUME NEW s \in Scripts, ReleaseEvent(s) PROVE CallbacksOK'
  BY <1>13 DEF ReleaseEvent, Gone
<1>14. ASSUME NEW s \in Scripts, ScriptDestroys(s) PROVE CallbacksOK'
  BY <1>14 DEF ScriptDestroys, Gone, Unname, EraseName, Forget
<1>15. CASE (\E id \in ObjectIds : OnCustomEvent(id)) \/ DispatchNamed \/ OnSystemEvent \/
       NextScript \/ Deliver \/ EventDone \/ SimReleases \/ SimDestroys
  BY <1>15 DEF OnCustomEvent, DispatchNamed, OnSystemEvent, NextScript, Deliver, EventDone,
         SimReleases, SimDestroys, ScriptsOf, Remaining, EntryLocked, Unname, EraseName,
         Forget
<1> QED
  BY ONLY EventNext, <1>1, <1>2, <1>3, <1>4, <1>5, <1>6, <1>7, <1>8, <1>9, <1>10, <1>11,
     <1>12, <1>13, <1>14, <1>15 DEF EventNext, SimStep, ScriptStep

LEMMA SubscribersOKStep == EventInv /\ EventNext => SubscribersOK'
<1> SUFFICES ASSUME EventInv, EventNext PROVE SubscribersOK'
  OBVIOUS
<1> USE NoObjectAssumption, ScriptsAssumption, SimBoundsAssumption
    DEF EventInv, EventTypeOK, HoldTypeOK, NameTypeOK, CallbackTypeOK, EntryTypeOK,
        ActorTypeOK, ActorsOK, HoldersOK, DestroyedOK, SubscribersOK, ObjectIds, GoTo,
        EventsLocked, ManagerLocked, nameVars, entryVars, callbackVars, holdVars, namedVars,
        systemVars, actorVars, threadVars
<1>1. ASSUME NEW s \in Scripts, BeginRegister(s) PROVE SubscribersOK'
  BY <1>1 DEF BeginRegister, MayCall
<1>2. ASSUME NEW s \in Scripts, BeginCall(s) PROVE SubscribersOK'
  BY <1>2 DEF BeginCall, MayCall
<1>3. ASSUME NEW s \in Scripts, Register(s) PROVE SubscribersOK'
  BY <1>3 DEF Register
<1>4. ASSUME NEW s \in Scripts, GetNamedEvent(s) PROVE SubscribersOK'
  BY <1>4 DEF GetNamedEvent, NewObject, SharedObject, NullObject
<1>5. ASSUME NEW s \in Scripts, AddCallback(s) PROVE SubscribersOK'
  BY <1>5 DEF AddCallback
<1>6. ASSUME NEW s \in Scripts, Subscribe(s) PROVE SubscribersOK'
  <2>1. CASE wrapper[s] \in subscribed
    BY <1>6, <2>1 DEF Subscribe
  <2>2. CASE wrapper[s] \notin subscribed
    BY <1>6, <2>2 DEF Subscribe
  <2> QED
    BY <1>6, <2>1, <2>2 DEF Subscribe
<1>7. ASSUME NEW s \in Scripts, EmplaceEvent(s) PROVE SubscribersOK'
  BY <1>7 DEF EmplaceEvent
<1>8. ASSUME NEW s \in Scripts, RemoveCallback(s) PROVE SubscribersOK'
  BY <1>8 DEF RemoveCallback
<1>9. ASSUME NEW s \in Scripts, CheckCallbacks(s) PROVE SubscribersOK'
  BY <1>9 DEF CheckCallbacks, IsUnused, Removed
<1>10. ASSUME NEW s \in Scripts, Unsubscribe(s) PROVE SubscribersOK'
  <2>1. CASE IsUnused(wrapper[s])
    BY <1>10, <2>1 DEF Unsubscribe, IsUnused, Removed
  <2>2. CASE ~IsUnused(wrapper[s])
    BY <1>10, <2>2 DEF Unsubscribe, Removed
  <2> QED
    BY <1>10, <2>1, <2>2 DEF Unsubscribe, IsUnused, Removed
<1>11. ASSUME NEW s \in Scripts, StopBegins(s) PROVE SubscribersOK'
  BY <1>11 DEF StopBegins
<1>12. ASSUME NEW s \in Scripts, CloseState(s) PROVE SubscribersOK'
  BY <1>12 DEF CloseState, Gone, Destructor
<1>13. ASSUME NEW s \in Scripts, ReleaseEvent(s) PROVE SubscribersOK'
  BY <1>13 DEF ReleaseEvent, Gone
<1>14. ASSUME NEW s \in Scripts, ScriptDestroys(s) PROVE SubscribersOK'
  <2>1. CASE pc[s] = "destroy"
    BY <1>14, <2>1 DEF ScriptDestroys, Gone, Unname, EraseName
  <2>2. CASE pc[s] = "forget"
    BY <1>14, <2>2 DEF ScriptDestroys, Gone, Forget
  <2> QED
    BY <1>14, <2>1, <2>2 DEF ScriptDestroys, Gone, Unname, EraseName, Forget
<1>15. CASE (\E id \in ObjectIds : OnCustomEvent(id)) \/ DispatchNamed \/ OnSystemEvent \/
       NextScript \/ Deliver \/ EventDone \/ SimReleases
  BY <1>15 DEF OnCustomEvent, DispatchNamed, OnSystemEvent, NextScript, Deliver, EventDone,
         SimReleases, ScriptsOf, Remaining, EntryLocked
<1>16. CASE SimDestroys
  <2>1. UNCHANGED <<pc, callbackID, callbacks, wrapper>>
    BY <1>16 DEF SimDestroys, Unname, Forget
  <2>2. simId \in ObjectIds /\ refs[simId] = {}
    BY <1>16 DEF SimDestroys
  <2>3. \A id \in group : id # simId => id \in group'
    BY ONLY <1>16 DEF SimDestroys, Unname, Forget
  <2>4. \A t \in Scripts : pc[t] = "emplace" => wrapper[t] # simId
    BY <2>2
  <2> QED
    BY <2>1, <2>3, <2>4
<1> QED
  BY ONLY EventNext, <1>1, <1>2, <1>3, <1>4, <1>5, <1>6, <1>7, <1>8, <1>9, <1>10, <1>11,
     <1>12, <1>13, <1>14, <1>15, <1>16 DEF EventNext, SimStep, ScriptStep

LEMMA EntriesOKStep == EventInv /\ EventNext => EntriesOK'
<1> SUFFICES ASSUME EventInv, EventNext PROVE EntriesOK'
  OBVIOUS
<1> USE NoObjectAssumption, ScriptsAssumption, SimBoundsAssumption
    DEF EventInv, EventTypeOK, EntryTypeOK, HoldTypeOK, ActorsOK, HoldersOK, DestroyedOK,
        SubscribersOK, EntriesOK, ObjectIds, GoTo, EventsLocked, ManagerLocked, nameVars,
        entryVars, callbackVars, holdVars, namedVars, systemVars, actorVars, threadVars
<1>1. ASSUME NEW s \in Scripts, BeginRegister(s) \/ BeginCall(s) \/ Register(s) \/
     AddCallback(s) \/ RemoveCallback(s) \/ CheckCallbacks(s) \/ StopBegins(s) \/
     CloseState(s)
     PROVE  EntriesOK'
  BY <1>1 DEF BeginRegister, BeginCall, Register, AddCallback, RemoveCallback,
         CheckCallbacks, StopBegins, CloseState, MayCall, IsUnused, Removed, Gone,
         Destructor
<1>2. ASSUME NEW s \in Scripts, GetNamedEvent(s) PROVE EntriesOK'
  <2>1. CASE NewObject(s)
    <3>1. PICK n \in ObjectIds : Makes(s, n)
      BY <2>1, NewObjectIs
    <3> QED
      BY <1>2, <3>1 DEF GetNamedEvent, Makes
  <2>2. CASE SharedObject(s)
    BY <1>2, <2>2 DEF GetNamedEvent, SharedObject
  <2>3. CASE NullObject(s)
    BY <1>2, <2>3 DEF GetNamedEvent, NullObject
  <2> QED
    BY <1>2, <2>1, <2>2, <2>3 DEF GetNamedEvent
<1>3. ASSUME NEW s \in Scripts, Subscribe(s) PROVE EntriesOK'
  BY <1>3 DEF Subscribe
<1>4. ASSUME NEW s \in Scripts, EmplaceEvent(s) PROVE EntriesOK'
  <2>1. pc[s] = "emplace" /\ wrapper[s] \in group /\ wrapper[s] \in ObjectIds
    BY <1>4 DEF EmplaceEvent
  <2>2. /\ UNCHANGED <<refs, group, simUsage>>
        /\ subscribed' = subscribed \union {wrapper[s]}
        /\ \A id \in ObjectIds : events'[id] =
             IF id = wrapper[s] /\ events[id] = "absent" THEN "event" ELSE events[id]
    BY <1>4, <2>1 DEF EmplaceEvent
  <2>3. "stray" \notin simUsage => events'[wrapper[s]] = "event"
    BY <2>1, <2>2
  <2> QED
    BY <2>1, <2>2, <2>3
<1>5. ASSUME NEW s \in Scripts, Unsubscribe(s) PROVE EntriesOK'
  BY <1>5 DEF Unsubscribe, IsUnused, Removed
<1>6. ASSUME NEW s \in Scripts, ReleaseEvent(s) PROVE EntriesOK'
  BY <1>6 DEF ReleaseEvent, Gone
<1>7. ASSUME NEW s \in Scripts, ScriptDestroys(s) PROVE EntriesOK'
  BY <1>7 DEF ScriptDestroys, Gone, Unname, EraseName, Forget
<1>8. CASE DispatchNamed \/ OnSystemEvent \/ NextScript \/ Deliver \/ EventDone
  BY <1>8 DEF DispatchNamed, OnSystemEvent, NextScript, Deliver, EventDone, ScriptsOf,
         Remaining, EntryLocked
<1>9. ASSUME NEW id \in ObjectIds, OnCustomEvent(id) PROVE EntriesOK'
  BY <1>9 DEF OnCustomEvent
<1>10. CASE SimReleases
  BY <1>10 DEF SimReleases
<1>11. CASE SimDestroys
  BY <1>11 DEF SimDestroys, Unname, EraseName, Forget
<1> QED
  BY ONLY EventNext, <1>1, <1>2, <1>3, <1>4, <1>5, <1>6, <1>7, <1>8, <1>9, <1>10, <1>11 DEF
     EventNext, SimStep, ScriptStep

LEMMA ForgottenOKStep == EventInv /\ EventNext => ForgottenOK'
<1> SUFFICES ASSUME EventInv, EventNext PROVE ForgottenOK'
  OBVIOUS
<1> DEFINE ats == {"destroy", "forget"}
<1> USE NoObjectAssumption, ScriptsAssumption, SimBoundsAssumption
    DEF EventInv, EventTypeOK, EntryTypeOK, HoldTypeOK, ActorTypeOK, ThreadTypeOK, ActorsOK,
        HoldersOK, DestroyedOK, ObjectIds, GoTo, EventsLocked, ManagerLocked, nameVars,
        entryVars, callbackVars, holdVars, namedVars, systemVars, actorVars, threadVars
<1>1. ASSUME NEW s \in Scripts, BeginRegister(s) \/ BeginCall(s) \/ Register(s) \/
     AddCallback(s) \/ Subscribe(s) \/ RemoveCallback(s) \/ CheckCallbacks(s) \/
     StopBegins(s) \/ CloseState(s)
     PROVE  EntriesKept /\ DestroyersKept(ats)
  BY <1>1 DEF BeginRegister, BeginCall, Register, AddCallback, Subscribe, RemoveCallback,
         CheckCallbacks, StopBegins, CloseState, MayCall, IsUnused, Removed, Gone,
         Destructor, EntriesKept, DestroyersKept
<1>2. ASSUME NEW s \in Scripts, GetNamedEvent(s)
     PROVE  EntriesKept /\ DestroyersKept(ats)
  <2>1. CASE NewObject(s)
    <3>1. PICK n \in ObjectIds : Makes(s, n)
      BY <2>1, NewObjectIs
    <3> QED
      BY <1>2, <3>1 DEF GetNamedEvent, Makes, EntriesKept, DestroyersKept
  <2>2. CASE SharedObject(s)
    BY <1>2, <2>2 DEF GetNamedEvent, SharedObject, EntriesKept, DestroyersKept
  <2>3. CASE NullObject(s)
    BY <1>2, <2>3 DEF GetNamedEvent, NullObject, EntriesKept, DestroyersKept
  <2> QED
    BY <1>2, <2>1, <2>2, <2>3 DEF GetNamedEvent
<1>3. ASSUME NEW s \in Scripts, EmplaceEvent(s)
     PROVE  EntriesKept /\ DestroyersKept(ats)
  <2>1. pc[s] = "emplace" /\ refs[wrapper[s]] # {}
    BY <1>3 DEF EmplaceEvent
  <2>2. /\ UNCHANGED <<refs, wrapper, simAt, simId>>
        /\ \A id \in ObjectIds \ {wrapper[s]} : events'[id] = events[id]
        /\ \A t \in Scripts \ {s} : pc'[t] = pc[t]
    BY <1>3 DEF EmplaceEvent
  <2> QED
    BY <2>1, <2>2 DEF EntriesKept, DestroyersKept
<1>4. ASSUME NEW s \in Scripts, Unsubscribe(s)
     PROVE  EntriesKept /\ DestroyersKept(ats)
  BY <1>4 DEF Unsubscribe, IsUnused, Removed, EntriesKept, DestroyersKept
<1>5. ASSUME DispatchNamed \/ OnSystemEvent \/ NextScript \/ Deliver \/ EventDone
     PROVE  EntriesKept /\ DestroyersKept(ats)
  BY <1>5 DEF DispatchNamed, OnSystemEvent, NextScript, Deliver, EventDone, ScriptsOf,
         Remaining, EntryLocked, EntriesKept, DestroyersKept
<1>6. ASSUME (\E id \in ObjectIds : OnCustomEvent(id))
     PROVE  EntriesKept /\ DestroyersKept(ats)
  BY <1>6 DEF OnCustomEvent, EntriesKept, DestroyersKept
<1>7. ASSUME NEW s \in Scripts, ReleaseEvent(s) PROVE ForgottenOK'
  <2>1. DestroyersKept(ats)
    BY <1>7 DEF ReleaseEvent, DestroyersKept
  <2> SUFFICES ASSUME NEW id \in ObjectIds, refs'[id] = {}, events'[id] = "event"
               PROVE  Destroys(id, ats)'
    BY DEF ForgottenOK
  <2>2. CASE refs[id] = {}
    <3>1. Destroys(id, ats)
      BY <1>7, <2>2 DEF ReleaseEvent, ForgottenOK
    <3> QED
      BY <2>1, <3>1, DestroysKept
  <2>3. CASE refs[id] # {}
    <3>1. id = wrapper[s] /\ refs[wrapper[s]] \ {s} = {}
      BY <1>7, <2>3 DEF ReleaseEvent
    <3>2. pc'[s] = "destroy" /\ wrapper'[s] = id
      BY <1>7, <3>1 DEF ReleaseEvent
    <3> QED
      BY <3>2 DEF Destroys
  <2> QED
    BY <2>2, <2>3
<1>8. ASSUME NEW s \in Scripts, ScriptDestroys(s) PROVE ForgottenOK'
  <2>1. CASE pc[s] = "destroy"
    <3>1. EntriesKept /\ DestroyersKept(ats)
      BY <1>8, <2>1 DEF ScriptDestroys, Unname, EntriesKept, DestroyersKept
    <3> QED
      BY <3>1, ForgottenKept
  <2>2. CASE pc[s] = "forget"
    <3>1. /\ UNCHANGED <<refs, wrapper, simAt, simId>>
          /\ \A id \in ObjectIds : events'[id] = IF id = wrapper[s] THEN "absent" ELSE events[id]
          /\ \A t \in Scripts \ {s} : pc'[t] = pc[t]
      BY <1>8, <2>2 DEF ScriptDestroys, Forget
    <3> QED
      BY <3>1 DEF ForgottenOK, Destroys
  <2> QED
    BY <1>8, <2>1, <2>2 DEF ScriptDestroys
<1>9. CASE SimReleases
  <2>1. DestroyersKept(ats)
    BY <1>9 DEF SimReleases, DestroyersKept
  <2> SUFFICES ASSUME NEW id \in ObjectIds, refs'[id] = {}, events'[id] = "event"
               PROVE  Destroys(id, ats)'
    BY DEF ForgottenOK
  <2>2. CASE refs[id] = {}
    <3>1. Destroys(id, ats)
      BY <1>9, <2>2 DEF SimReleases, ForgottenOK
    <3> QED
      BY <2>1, <3>1, DestroysKept
  <2>3. CASE refs[id] # {}
    <3>1. id = simId /\ refs[simId] \ {Sim} = {}
      BY <1>9, <2>3 DEF SimReleases
    <3>2. simAt' = "destroy" /\ simId' = id
      BY <1>9, <3>1 DEF SimReleases
    <3> QED
      BY <3>2 DEF Destroys
  <2> QED
    BY <2>2, <2>3
<1>10. CASE SimDestroys
  <2>1. CASE simAt = "destroy"
    <3>1. EntriesKept /\ DestroyersKept(ats)
      BY <1>10, <2>1 DEF SimDestroys, Unname, EntriesKept, DestroyersKept
    <3> QED
      BY <3>1, ForgottenKept
  <2>2. CASE simAt = "forget"
    <3>1. /\ UNCHANGED <<refs, wrapper, pc, simId>>
          /\ \A id \in ObjectIds : events'[id] = IF id = simId THEN "absent" ELSE events[id]
      BY <1>10, <2>2 DEF SimDestroys, Forget
    <3> QED
      BY <3>1 DEF ForgottenOK, Destroys
  <2> QED
    BY <1>10, <2>1, <2>2 DEF SimDestroys
<1> QED
  BY ONLY EventInv, EventNext, ForgottenKept, <1>1, <1>2, <1>3, <1>4, <1>5, <1>6, <1>7,
     <1>8, <1>9, <1>10 DEF EventInv, EventNext, SimStep, ScriptStep

LEMMA FlagsOKStep == EventInv /\ EventNext => FlagsOK'
<1> SUFFICES ASSUME EventInv, EventNext PROVE FlagsOK'
  OBVIOUS
<1> USE NoObjectAssumption, ScriptsAssumption, SimBoundsAssumption
    DEF EventInv, EventTypeOK, EntryTypeOK, HoldTypeOK, CallbackTypeOK, ActorTypeOK,
        ActorsOK, HoldersOK, CallbacksOK, FlagsOK, ObjectIds, GoTo, EventsLocked,
        ManagerLocked, nameVars, entryVars, callbackVars, holdVars, namedVars, systemVars,
        actorVars, threadVars
<1>1. ASSUME NEW s \in Scripts, BeginRegister(s) PROVE FlagsOK'
  BY <1>1 DEF BeginRegister, MayCall
<1>2. ASSUME NEW s \in Scripts, BeginCall(s) PROVE FlagsOK'
  BY <1>2 DEF BeginCall, MayCall
<1>3. ASSUME NEW s \in Scripts, Register(s) PROVE FlagsOK'
  BY <1>3 DEF Register
<1>4. ASSUME NEW s \in Scripts, GetNamedEvent(s) PROVE FlagsOK'
  <2>1. CASE NewObject(s)
    <3>1. PICK n \in ObjectIds : Makes(s, n)
      BY <2>1, NewObjectIs
    <3> QED
      BY <1>4, <3>1 DEF GetNamedEvent, Makes
  <2>2. CASE SharedObject(s)
    BY <1>4, <2>2 DEF GetNamedEvent, SharedObject
  <2>3. CASE NullObject(s)
    BY <1>4, <2>3 DEF GetNamedEvent, NullObject
  <2> QED
    BY <1>4, <2>1, <2>2, <2>3 DEF GetNamedEvent
<1>5. ASSUME NEW s \in Scripts, AddCallback(s) PROVE FlagsOK'
  BY <1>5 DEF AddCallback
<1>6. ASSUME NEW s \in Scripts, Subscribe(s) PROVE FlagsOK'
  <2>1. CASE wrapper[s] \in subscribed
    BY <1>6, <2>1 DEF Subscribe
  <2>2. CASE wrapper[s] \notin subscribed
    BY <1>6, <2>2 DEF Subscribe
  <2> QED
    BY <1>6, <2>1, <2>2 DEF Subscribe
<1>7. ASSUME NEW s \in Scripts, EmplaceEvent(s) PROVE FlagsOK'
  BY <1>7 DEF EmplaceEvent
<1>8. ASSUME NEW s \in Scripts, RemoveCallback(s) PROVE FlagsOK'
  BY <1>8 DEF RemoveCallback
<1>9. ASSUME NEW s \in Scripts, CheckCallbacks(s) PROVE FlagsOK'
  <2>1. CASE GoTo(s, "unsubscribe")
    BY <1>9, <2>1 DEF CheckCallbacks
  <2>2. CASE GoTo(s, "release")
    BY <1>9, <2>2 DEF CheckCallbacks
  <2>3. CASE GoTo(s, "idle")
    BY <1>9, <2>3 DEF CheckCallbacks
  <2> QED
    BY <1>9, <2>1, <2>2, <2>3 DEF CheckCallbacks, IsUnused, Removed
<1>10. ASSUME NEW s \in Scripts, Unsubscribe(s) PROVE FlagsOK'
  BY <1>10 DEF Unsubscribe, IsUnused, Removed
<1>11. ASSUME NEW s \in Scripts, StopBegins(s) PROVE FlagsOK'
  BY <1>11 DEF StopBegins
<1>12. ASSUME NEW s \in Scripts, CloseState(s) PROVE FlagsOK'
  BY <1>12 DEF CloseState, Gone, Destructor
<1>13. ASSUME NEW s \in Scripts, ReleaseEvent(s) PROVE FlagsOK'
  <2>1. /\ UNCHANGED <<callbacks, subscribed>>
        /\ \A id \in ObjectIds : refs'[id] # {} => refs[id] # {}
        /\ \A t \in Scripts : pc'[t] = pc[t] \/ (t = s /\ pc[t] = "release")
    BY <1>13 DEF ReleaseEvent
  <2>2. FlagsOK /\ \A id \in ObjectIds : \A c \in callbacks[id] : c[1] \in Scripts
    OBVIOUS
  <2> QED
    BY ONLY <2>1, <2>2 DEF FlagsOK
<1>14. ASSUME NEW s \in Scripts, ScriptDestroys(s) PROVE FlagsOK'
  <2>1. CASE pc[s] = "destroy"
    BY <1>14, <2>1 DEF ScriptDestroys, Gone, Unname, EraseName
  <2>2. CASE pc[s] = "forget"
    BY <1>14, <2>2 DEF ScriptDestroys, Gone, Forget
  <2> QED
    BY <1>14, <2>1, <2>2 DEF ScriptDestroys, Gone, Unname, EraseName, Forget
<1>15. CASE DispatchNamed \/ OnSystemEvent \/ NextScript \/ Deliver \/ EventDone \/
       SimDestroys
  BY <1>15 DEF DispatchNamed, OnSystemEvent, NextScript, Deliver, EventDone, SimDestroys,
         ScriptsOf, Remaining, EntryLocked, Unname, EraseName, Forget
<1>16. ASSUME NEW id \in ObjectIds, OnCustomEvent(id) PROVE FlagsOK'
  BY <1>16 DEF OnCustomEvent
<1>17. CASE SimReleases
  BY <1>17 DEF SimReleases
<1> QED
  BY ONLY EventNext, <1>1, <1>2, <1>3, <1>4, <1>5, <1>6, <1>7, <1>8, <1>9, <1>10, <1>11,
     <1>12, <1>13, <1>14, <1>15, <1>16, <1>17 DEF EventNext, SimStep, ScriptStep

LEMMA WalkOKStep == EventInv /\ EventNext => WalkOK'
<1> SUFFICES ASSUME EventInv, EventNext PROVE WalkOK'
  OBVIOUS
<1> USE NoObjectAssumption, ScriptsAssumption, SimBoundsAssumption
    DEF EventInv, EventTypeOK, ActorTypeOK, CallbackTypeOK, NameTypeOK, ThreadTypeOK,
        DestroyedOK, WalkOK, ScriptsOf, ObjectIds, GoTo, EventsLocked, ManagerLocked,
        nameVars, entryVars, callbackVars, holdVars, namedVars, systemVars, actorVars,
        threadVars
<1>1. ASSUME NEW s \in Scripts, BeginRegister(s) \/ BeginCall(s) \/ GetNamedEvent(s) \/
     Subscribe(s) \/ EmplaceEvent(s) \/ CheckCallbacks(s) \/ Unsubscribe(s) \/ StopBegins(s)
     \/ CloseState(s) \/ ReleaseEvent(s) \/ ScriptDestroys(s)
     PROVE  WalkOK'
  BY <1>1 DEF BeginRegister, BeginCall, GetNamedEvent, Subscribe, EmplaceEvent,
         CheckCallbacks, Unsubscribe, StopBegins, CloseState, ReleaseEvent, ScriptDestroys,
         MayCall, NewObject, SharedObject, NullObject, IsUnused, Removed, Gone, Destructor,
         Unname, EraseName, Forget
<1>2. ASSUME NEW s \in Scripts, Register(s) PROVE WalkOK'
  BY <1>2 DEF Register
<1>3. ASSUME NEW s \in Scripts, AddCallback(s) PROVE WalkOK'
  BY <1>3 DEF AddCallback
<1>4. ASSUME NEW s \in Scripts, RemoveCallback(s) PROVE WalkOK'
  BY <1>4 DEF RemoveCallback
<1>5. ASSUME NEW id \in ObjectIds, OnCustomEvent(id) PROVE WalkOK'
  BY <1>5 DEF OnCustomEvent
<1>6. CASE DispatchNamed
  <2>1. simAt = "found" /\ current = Sim /\ simId \in ObjectIds
    BY <1>6 DEF DispatchNamed
  <2>2. ScriptsOf(simId) \subseteq Scripts
    BY <2>1
  <2>3. /\ todo' = ScriptsOf(simId) /\ simAt' = "named"
        /\ UNCHANGED <<callbacks, simId, current, scripts, known, pc, phase>>
    BY <1>6 DEF DispatchNamed
  <2> QED
    BY <2>1, <2>2, <2>3
<1>7. CASE OnSystemEvent
  BY <1>7 DEF OnSystemEvent
<1>8. CASE NextScript
  BY <1>8 DEF NextScript
<1>9. CASE Deliver
  <2>1. /\ UNCHANGED <<simAt, todo, callbacks, simId, known, phase, pc>>
        /\ scripts' \subseteq scripts /\ current' = Sim /\ Sim \notin Scripts
        /\ \A t \in scripts : t \in scripts' \/ (phase[t] = "gone" /\ t = current /\ simAt = "system")
    BY <1>9 DEF Deliver, Remaining
  <2> QED
    BY <2>1
<1>10. CASE EventDone
  BY <1>10 DEF EventDone
<1>11. CASE SimReleases
  BY <1>11 DEF SimReleases
<1>12. CASE SimDestroys
  BY <1>12 DEF SimDestroys, Unname, EraseName, Forget
<1> QED
  BY ONLY EventNext, <1>1, <1>2, <1>3, <1>4, <1>5, <1>6, <1>7, <1>8, <1>9, <1>10, <1>11,
     <1>12 DEF EventNext, SimStep, ScriptStep

LEMMA KnownOKStep == EventInv /\ EventNext => KnownOK'
<1> SUFFICES ASSUME EventInv, EventNext PROVE KnownOK'
  OBVIOUS
<1> USE NoObjectAssumption, ScriptsAssumption, SimBoundsAssumption
    DEF EventInv, EventTypeOK, ActorTypeOK, ActorsOK, KnownOK, RegisteredHear, ObjectIds,
        GoTo, EventsLocked, ManagerLocked, nameVars, entryVars, callbackVars, holdVars,
        namedVars, systemVars, actorVars, threadVars
<1>1. ASSUME NEW s \in Scripts, BeginRegister(s) PROVE KnownOK'
  <2>1. /\ UNCHANGED <<scripts, phase>>
        /\ s \notin known /\ known' = known \union {s}
        /\ \A t \in Scripts : pc'[t] = IF t = s THEN "register" ELSE pc[t]
    BY <1>1 DEF BeginRegister, IsNew
  <2>2. s \notin scripts /\ scripts \subseteq Scripts /\ known \subseteq Scripts
    BY <2>1
  <2>3. \A t \in scripts \union known : t \in Scripts
    OBVIOUS
  <2> QED
    BY <2>1, <2>2, <2>3
<1>2. ASSUME NEW s \in Scripts, BeginCall(s) PROVE KnownOK'
  BY <1>2 DEF BeginCall, MayCall
<1>3. ASSUME NEW s \in Scripts, Register(s) PROVE KnownOK'
  <2>1. /\ UNCHANGED <<known, phase>>
        /\ pc[s] = "register" /\ scripts' = scripts \union {s}
        /\ \A t \in Scripts : pc'[t] = IF t = s THEN "idle" ELSE pc[t]
    BY <1>3 DEF Register
  <2>2. s \in known
    BY <2>1
  <2>3. \A t \in scripts \union known : t \in Scripts
    OBVIOUS
  <2> QED
    BY <2>1, <2>2, <2>3
<1>4. ASSUME NEW s \in Scripts, GetNamedEvent(s) PROVE KnownOK'
  BY <1>4 DEF GetNamedEvent, NewObject, SharedObject, NullObject
<1>5. ASSUME NEW s \in Scripts, AddCallback(s) PROVE KnownOK'
  BY <1>5 DEF AddCallback
<1>6. ASSUME NEW s \in Scripts, Subscribe(s) PROVE KnownOK'
  BY <1>6 DEF Subscribe
<1>7. ASSUME NEW s \in Scripts, EmplaceEvent(s) PROVE KnownOK'
  BY <1>7 DEF EmplaceEvent
<1>8. ASSUME NEW s \in Scripts, RemoveCallback(s) PROVE KnownOK'
  BY <1>8 DEF RemoveCallback
<1>9. ASSUME NEW s \in Scripts, CheckCallbacks(s) PROVE KnownOK'
  BY <1>9 DEF CheckCallbacks, IsUnused, Removed
<1>10. ASSUME NEW s \in Scripts, Unsubscribe(s) PROVE KnownOK'
  BY <1>10 DEF Unsubscribe, IsUnused, Removed
<1>11. ASSUME NEW s \in Scripts, StopBegins(s) PROVE KnownOK'
  BY <1>11 DEF StopBegins
<1>12. ASSUME NEW s \in Scripts, CloseState(s) PROVE KnownOK'
  <2>1. UNCHANGED <<scripts, known>>
    BY <1>12 DEF CloseState
  <2>2. \A t \in Scripts : /\ pc'[t] \in {pc[t], "remove"}
                           /\ phase[t] = "gone" => phase'[t] = "gone"
                           /\ pc[t] = "register" => pc'[t] = "register"
    BY <1>12 DEF CloseState, Gone, Destructor
  <2>3. \A t \in scripts \union known : t \in Scripts
    OBVIOUS
  <2> QED
    BY <2>1, <2>2, <2>3
<1>13. ASSUME NEW s \in Scripts, ReleaseEvent(s) PROVE KnownOK'
  <2>1. UNCHANGED <<scripts, known>>
    BY <1>13 DEF ReleaseEvent
  <2>2. \A t \in Scripts : /\ pc'[t] \in {pc[t], "destroy", "idle"}
                           /\ phase[t] = "gone" => phase'[t] = "gone"
                           /\ pc[t] = "register" => pc'[t] = "register"
    BY <1>13 DEF ReleaseEvent, Gone
  <2>3. \A t \in scripts \union known : t \in Scripts
    OBVIOUS
  <2> QED
    BY <2>1, <2>2, <2>3
<1>14. ASSUME NEW s \in Scripts, ScriptDestroys(s) PROVE KnownOK'
  <2>1. CASE pc[s] = "destroy"
    BY <1>14, <2>1 DEF ScriptDestroys, Gone, Unname, EraseName
  <2>2. CASE pc[s] = "forget"
    BY <1>14, <2>2 DEF ScriptDestroys, Gone, Forget
  <2> QED
    BY <1>14, <2>1, <2>2 DEF ScriptDestroys, Gone, Unname, EraseName, Forget
<1>15. CASE (\E id \in ObjectIds : OnCustomEvent(id)) \/ DispatchNamed \/ OnSystemEvent \/
       NextScript \/ EventDone \/ SimReleases \/ SimDestroys
  BY <1>15 DEF OnCustomEvent, DispatchNamed, OnSystemEvent, NextScript, EventDone,
         SimReleases, SimDestroys, ScriptsOf, Unname, EraseName, Forget
<1>16. CASE Deliver
  BY <1>16 DEF Deliver, Remaining, EntryLocked
<1> QED
  BY ONLY EventNext, <1>1, <1>2, <1>3, <1>4, <1>5, <1>6, <1>7, <1>8, <1>9, <1>10, <1>11,
     <1>12, <1>13, <1>14, <1>15, <1>16 DEF EventNext, SimStep, ScriptStep

LEMMA NullWhileDestroyedStep == EventInv /\ EventNext => NullWhileDestroyed'
<1> SUFFICES ASSUME EventInv, EventNext, null'
             PROVE  \E id \in ObjectIds : namedEvents' = id /\ Destroys(id, {"destroy"})'
  BY DEF NullWhileDestroyed
<1>1. UNCHANGED null \/ \E s \in Scripts : GetNamedEvent(s) /\ namedEvents # NoObject /\ NullObject(s)
  BY DEF EventNext, SimStep, ScriptStep, BeginRegister, BeginCall, Register, GetNamedEvent,
         NewObject, SharedObject, AddCallback, Subscribe, EmplaceEvent, RemoveCallback,
         CheckCallbacks, Unsubscribe, StopBegins, CloseState, ReleaseEvent, ScriptDestroys,
         Unname, Forget, OnCustomEvent, DispatchNamed, OnSystemEvent, NextScript, Deliver,
         EventDone, SimReleases, SimDestroys, namedVars, holdVars
<1>2. PICK s \in Scripts : GetNamedEvent(s) /\ namedEvents # NoObject /\ NullObject(s)
  BY <1>1 DEF EventNext
<1>3. namedEvents \in ObjectIds /\ refs[namedEvents] = {} /\ namedEvents' = namedEvents
  BY <1>2 DEF NullObject, nameVars, EventInv, EventTypeOK, NameTypeOK
<1>4. Destroys(namedEvents, {"destroy"})
  BY <1>2, <1>3 DEF EventInv, NamesOK
<1>5. DestroyersKept({"destroy"})
  BY <1>2 DEF GetNamedEvent, NullObject, GoTo, threadVars, DestroyersKept, EventInv, EventTypeOK,
              ActorTypeOK
<1> QED
  BY <1>3, <1>4, <1>5, DestroysKept

-----------------------------------------------------------------------------
(* The theorems about the events *)

LEMMA EventInitial == EventInit => EventInv
<1> SUFFICES ASSUME EventInit PROVE EventInv
  OBVIOUS
<1> USE NoObjectAssumption, ScriptsAssumption, SimBoundsAssumption DEF EventInit
<1>1. NameTypeOK /\ EntryTypeOK /\ HoldTypeOK
  BY DEF NameTypeOK, EntryTypeOK, HoldTypeOK
<1>2. CallbackTypeOK
  BY DEF CallbackTypeOK
<1>3. ActorTypeOK
  BY DEF ActorTypeOK, Steps
<1>4. ThreadTypeOK
  <2>1. simId \in 0..MaxObjects /\ todo \subseteq Scripts /\ simUsage \in SimUsages
    OBVIOUS
  <2>2. null \in BOOLEAN
    BY Zenon
  <2> QED
    BY <2>1, <2>2 DEF ThreadTypeOK
<1>5. ActorsOK /\ DestroyedOK /\ SubscribersOK
  BY DEF ActorsOK, DestroyedOK, SubscribersOK
<1>6. HoldersOK
  BY DEF HoldersOK, ObjectIds
<1>7. NamesOK
  BY DEF NamesOK, OneObject
<1>8. CallbacksOK /\ EntriesOK /\ ForgottenOK /\ FlagsOK
  BY DEF CallbacksOK, EntriesOK, ForgottenOK, FlagsOK
<1>9. WalkOK
  BY DEF WalkOK
<1>10. KnownOK
  BY DEF KnownOK, RegisteredHear
<1>11. NullWhileDestroyed
  BY Zenon DEF NullWhileDestroyed
<1> QED
  BY <1>1, <1>2, <1>3, <1>4, <1>5, <1>6, <1>7, <1>8, <1>9, <1>10, <1>11 DEF EventInv, EventTypeOK

LEMMA EventStep == EventInv /\ [EventNext]_eventVars => EventInv'
<1> SUFFICES ASSUME EventInv, [EventNext]_eventVars PROVE EventInv'
  OBVIOUS
<1>1. CASE EventNext
  BY <1>1, NameTypeOKStep, EntryTypeOKStep, CallbackTypeOKStep, HoldTypeOKStep,
     ActorTypeOKStep, ThreadTypeOKStep, ActorsOKStep, HoldersOKStep, DestroyedOKStep,
     NamesOKStep, CallbacksOKStep, SubscribersOKStep, EntriesOKStep, ForgottenOKStep,
     FlagsOKStep, WalkOKStep, KnownOKStep, NullWhileDestroyedStep
  DEF EventInv, EventTypeOK
<1>2. CASE UNCHANGED eventVars
  BY <1>2
  DEF EventInv, EventTypeOK, NameTypeOK, EntryTypeOK, CallbackTypeOK, HoldTypeOK, ActorTypeOK,
      ThreadTypeOK, ActorsOK, HoldersOK, DestroyedOK, NamesOK, OneObject, Destroys, CallbacksOK,
      SubscribersOK, EntriesOK, ForgottenOK, FlagsOK, WalkOK, KnownOK, RegisteredHear, ScriptsOf,
      NullWhileDestroyed, eventVars, namedVars, nameVars, entryVars, callbackVars, holdVars,
      systemVars, actorVars, threadVars
<1> QED
  BY <1>1, <1>2

\* The invariant holds in every state.
THEOREM EventInvariance == EventSpec => []EventInv
BY EventInitial, EventStep, PTL DEF EventSpec

\* The maps, the scripts' actors and the simulator's thread stay within their types
\* (SimConnect.h, SystemEventLuaManager.h).
THEOREM EventTypeCorrect == EventSpec => []EventTypeOK
<1>1. EventInv => EventTypeOK
  BY DEF EventInv
<1> QED
  BY <1>1, EventInvariance, PTL

\* Whoever has added a callback to an object hears the event once subscribe has returned
\* (SimConnect.cpp, addCallback, subscribe, unsubscribe and the destructors).
THEOREM EventHeard == EventSpec => []Heard
<1>1. EventInv => Heard
  <2> SUFFICES ASSUME EventInv, NEW id \in ObjectIds, refs[id] # {}, callbacks[id] # {},
                      \A s \in Scripts : wrapper[s] = id => pc[s] \notin {"subscribe", "emplace"}
               PROVE  id \in subscribed \cap group /\ (events[id] = "event" \/ "stray" \in simUsage)
    BY DEF Heard
  <2>1. PICK c \in callbacks[id] : c[1] \in Scripts /\ wrapper[c[1]] = id
    BY DEF EventInv, EventTypeOK, CallbackTypeOK, CallbacksOK
  <2>2. id \in subscribed
    BY <2>1 DEF EventInv, FlagsOK
  <2> QED
    BY <2>2 DEF EventInv, EntriesOK
<1> QED
  BY <1>1, EventInvariance, PTL

\* All scripts share one object of a name (SimConnect.cpp, getNamedEvent and the
\* destructor, which erases the name).
THEOREM EventOneObject == EventSpec => []OneObject
<1>1. EventInv => OneObject
  BY DEF EventInv, NamesOK
<1> QED
  BY <1>1, EventInvariance, PTL

\* A script is given a null pointer only while another actor destroys the object
\* (SimConnect.cpp, getNamedEvent, which locks a pointer that may have expired).
THEOREM EventNull == EventSpec => []NullWhileDestroyed
<1>1. EventInv => NullWhileDestroyed
  BY DEF EventInv
<1> QED
  BY <1>1, EventInvariance, PTL

\* Neither an entry of an object that is gone nor a callback of a script that is gone
\* is left (FSL2LuaScript.cpp, ~LuaNamedSimConnectEvent, and SimConnect.cpp, the destructors).
THEOREM EventNothingLeft == EventSpec => []NothingLeft
<1>1. EventInv => NothingLeft
  BY DEF EventInv, ForgottenOK, CallbacksOK, NothingLeft
<1> QED
  BY <1>1, EventInvariance, PTL

\* A circular wait of the simulator's thread and a script that is being stopped is one
\* over a named event (SimConnect.cpp, dispatch, which holds eventsMutex over withScript).
THEOREM EventDeadlockOnlyNamed == EventSpec => []DeadlockOnlyNamed
<1>1. EventInv => DeadlockOnlyNamed
  <2> SUFFICES ASSUME EventInv, NEW s \in Scripts, current = s, EntryLocked(s), WaitsForSim(s)
               PROVE  simAt = "named" /\ \E n \in 0..MaxCallbacks : <<s, n>> \in callbacks[simId]
    BY DEF DeadlockOnlyNamed
  <2>1. simAt \in {"named", "system"}
    BY ScriptsAssumption DEF EventInv, WalkOK
  <2>2. CASE simAt = "named"
    <3>1. s \in ScriptsOf(simId) /\ simId \in ObjectIds
      BY <2>2, SimBoundsAssumption
      DEF EventInv, WalkOK, DestroyedOK, EventTypeOK, NameTypeOK, ObjectIds
    <3>2. PICK c \in callbacks[simId] : c[1] = s
      BY <3>1 DEF ScriptsOf
    <3>3. c[2] \in 0..MaxCallbacks /\ c = <<s, c[2]>>
      BY <3>1, <3>2 DEF EventInv, EventTypeOK, CallbackTypeOK
    <3> QED
      BY <2>2, <3>2, <3>3
  <2>3. CASE simAt = "system"
    BY <2>3 DEF EventInv, WalkOK, KnownOK, WaitsForSim, EventsLocked
  <2> QED
    BY <2>1, <2>2, <2>3
<1> QED
  BY <1>1, EventInvariance, PTL

\* A script that has been given the system event's Event hears it until it is gone
\* (SystemEventLuaManager.h, registerScript, onEvent).
THEOREM EventRegisteredHear == EventSpec => []RegisteredHear
<1>1. EventInv => RegisteredHear
  BY DEF EventInv, KnownOK
<1> QED
  BY <1>1, EventInvariance, PTL

\* What the simulator's thread walks over does not change under it: the mutex is held
\* (SimConnect.cpp, dispatch, and SystemEventLuaManager.h, onEvent).
THEOREM EventWalks == EventSpec => WalksUndisturbed
<1> DEFINE Walk == /\ simAt = "named" => callbacks'[simId] = callbacks[simId]
                   /\ simAt = "system" => scripts' \in {scripts, scripts \ {current}}
<1>1. EventNext => Walk
  BY DEF EventNext, SimStep, ScriptStep, BeginRegister, BeginCall, Register, GetNamedEvent,
         AddCallback, Subscribe, EmplaceEvent, RemoveCallback, CheckCallbacks, Unsubscribe,
         StopBegins, CloseState, ReleaseEvent, ScriptDestroys, Unname, Forget, OnCustomEvent,
         DispatchNamed, OnSystemEvent, NextScript, Deliver, Remaining, EventDone, SimReleases,
         SimDestroys, EventsLocked, ManagerLocked, namedVars, callbackVars, systemVars
<1>2. [EventNext]_eventVars => [Walk]_eventVars
  BY <1>1
<1> QED
  BY <1>2, PTL DEF EventSpec, WalksUndisturbed


\* Whoever listens to an event is told of it, for any scripts and bounds (subscribe,
\* unsubscribe, registerScript, dispatch, onEvent).
THEOREM EventListenersHear == EventSpec => []ListenersHear
<1>1. EventTypeOK /\ Heard /\ RegisteredHear => ListenersHear
  BY DEF ListenersHear
<1> QED
  BY <1>1, EventTypeCorrect, EventHeard, EventRegisteredHear, PTL

\* All scripts share one object of a name, and are given none only while it is being
\* destroyed (getNamedEvent, ~NamedSimConnectEvent).
THEOREM EventObjectOfName == EventSpec => []ObjectOfName
<1>1. OneObject /\ NullWhileDestroyed => ObjectOfName
  BY DEF ObjectOfName
<1> QED
  BY <1>1, EventOneObject, EventNull, PTL
=============================================================================
