------------------------------ MODULE TextMenu ------------------------------
(***************************************************************************)
(* A text menu of a script (Copilot/SimConnect.cpp, TextMenuEvent, and     *)
(* Copilot/FSL2LuaScript.cpp, LuaTextMenu): who keeps the object alive,    *)
(* the entry that the simulator's thread finds it by, and the callback     *)
(* that its result puts in the script's queue.                             *)
(*                                                                         *)
(* Two threads: the script's, which also collects Lua's garbage, and the   *)
(* simulator's, which hands on the messages about a menu on the screen.    *)
(***************************************************************************)
EXTENDS Integers

CONSTANTS
  MenuUsages,       \* the uses of the menu considered: subsets of MenuUse
  MaxShows          \* bound: calls of show

MenuUse == {
  "drop",           \* the script keeps no reference of its own
  "again",          \* it shows the menu before the last result has been handled
  "invalid",        \* it shows the menu without a title, items, ...
  "early",          \* a message overtakes the thread that has asked for the menu
  "quick"}          \* a callback overtakes the thread that has put it in the queue

ASSUME MenuUsagesAssumption == MenuUsages \subseteq SUBSET MenuUse
ASSUME MaxShowsAssumption == MaxShows \in Nat

VARIABLES
  entry,            \* events[eventId]: "absent", "menu", or "empty", a null pointer
  dispatching,      \* onCustomEvent: "no", "found", "erase"
  owed,             \* results the simulator has yet to send
  queue,            \* callbacks in the script's queue
  anchored,         \* lua.registry()[sol::light(this)]
  referenced,       \* by the script
  held,             \* by Lua, if only by garbage
  showing,          \* between SimConnect_Text and the entry
  handling,         \* the callback: "no", "call", "trigger"
  closed,           \* the Lua state
  shows,
  freed,            \* a use of what has been freed, or of a map while it changes
  menuUsage

simVars == <<entry, dispatching, owed>>
luaVars == <<anchored, referenced, held>>
scriptVars == <<showing, handling, closed, shows>>
menuVars == <<simVars, luaVars, scriptVars, queue, freed, menuUsage>>

\* The simulator's thread holds a pointer from the lookup on.
Exists == held \/ dispatching # "no"

-----------------------------------------------------------------------------
(* The script's thread *)

CanCall == ~closed /\ ~showing

\* A result has not come yet, or has not been handled.
Outstanding == owed + queue > 0 \/ dispatching = "found"

\* Variant: a menu is anchored once it has been shown.
ShowUnanchored ==
  /\ CanCall
  /\ referenced /\ handling # "trigger"
  /\ shows < MaxShows
  /\ "again" \in menuUsage \/ ~Outstanding
  /\ owed' = owed + 1
  /\ showing' = TRUE
  /\ shows' = shows + 1
  /\ UNCHANGED <<entry, dispatching, luaVars, handling, closed, queue, freed, menuUsage>>

\* show, up to SimConnect_Text.
Show ==
  /\ CanCall
  /\ referenced /\ handling # "trigger"
  /\ shows < MaxShows
  /\ "again" \in menuUsage \/ ~Outstanding
  /\ anchored' = TRUE
  /\ owed' = owed + 1
  /\ showing' = TRUE
  /\ shows' = shows + 1
  /\ UNCHANGED <<entry, dispatching, referenced, held, handling, closed, queue, freed,
                 menuUsage>>

\* buildBuffer throws: the menu has been anchored.
ShowThrows ==
  /\ "invalid" \in menuUsage
  /\ CanCall
  /\ referenced /\ handling # "trigger"
  /\ anchored' = TRUE
  /\ UNCHANGED <<simVars, referenced, held, scriptVars, queue, freed, menuUsage>>

\* emplace leaves an entry that there is as it is.
Emplace ==
  /\ showing
  /\ entry' = IF entry = "absent" THEN "menu" ELSE entry
  /\ showing' = FALSE
  /\ UNCHANGED <<dispatching, owed, luaVars, handling, closed, shows, queue, freed,
                 menuUsage>>

\* The callback reads the menu through a plain pointer, lets go of the anchor and calls
\* the script's function with the menu.
CallbackBegins ==
  /\ CanCall
  /\ handling = "no"
  /\ queue > 0
  /\ "quick" \in menuUsage \/ dispatching = "no"
  /\ queue' = queue - 1
  /\ \/ /\ Exists
        /\ anchored' = FALSE
        /\ referenced' = TRUE
        /\ held' = TRUE
        /\ handling' = "call"
        /\ UNCHANGED freed
     \/ /\ ~Exists
        /\ freed' = "callback"
        /\ UNCHANGED <<luaVars, handling>>
  /\ UNCHANGED <<simVars, showing, closed, shows, menuUsage>>

CallReturns ==
  /\ CanCall
  /\ handling = "call"
  /\ handling' = "trigger"
  /\ UNCHANGED <<simVars, luaVars, showing, closed, shows, queue, freed, menuUsage>>

\* The event is triggered with the menu, through the same pointer.
Trigger ==
  /\ CanCall
  /\ handling = "trigger"
  /\ \/ /\ Exists
        /\ referenced' = TRUE
        /\ held' = TRUE
        /\ UNCHANGED freed
     \/ /\ ~Exists
        /\ freed' = "trigger"
        /\ UNCHANGED <<referenced, held>>
  /\ handling' = "no"
  /\ UNCHANGED <<simVars, anchored, showing, closed, shows, queue, menuUsage>>

Drop ==
  /\ "drop" \in menuUsage
  /\ CanCall
  /\ handling # "call"
  /\ referenced
  /\ referenced' = FALSE
  /\ UNCHANGED <<simVars, anchored, held, scriptVars, queue, freed, menuUsage>>

\* Lua's last pointer goes. The destructor, now or when dispatch has returned, removes
\* the entry.
Released == entry' = IF dispatching = "no" THEN "absent" ELSE entry

Collect ==
  /\ CanCall
  /\ handling # "call"
  /\ held /\ ~referenced /\ ~anchored
  /\ held' = FALSE
  /\ Released
  /\ UNCHANGED <<dispatching, owed, anchored, referenced, scriptVars, queue, freed,
                 menuUsage>>

\* The script's thread has ended; its queue is run no more.
Close ==
  /\ CanCall
  /\ handling = "no"
  /\ closed' = TRUE
  /\ anchored' = FALSE /\ referenced' = FALSE /\ held' = FALSE
  /\ queue' = 0
  /\ Released
  /\ UNCHANGED <<dispatching, owed, showing, handling, shows, freed, menuUsage>>

-----------------------------------------------------------------------------
(* The simulator's thread *)

\* onCustomEvent, up to the call of dispatch, which ignores what is not a result.
\* Looking an event up makes an empty entry if there is none.
OnMessage(isResult) ==
  /\ dispatching = "no"
  /\ owed > 0
  /\ showing => "early" \in menuUsage
  /\ owed' = IF isResult THEN owed - 1 ELSE owed
  /\ entry' = IF entry = "absent" THEN "empty" ELSE entry
  /\ dispatching' = IF isResult /\ entry = "menu" THEN "found" ELSE "no"
  /\ UNCHANGED <<luaVars, scriptVars, queue, freed, menuUsage>>

\* Variant: the anchor goes with the result.
DispatchReleases ==
  /\ dispatching = "found"
  /\ queue' = IF closed THEN queue ELSE queue + 1
  /\ anchored' = FALSE
  /\ dispatching' = "erase"
  /\ UNCHANGED <<entry, owed, referenced, held, scriptVars, freed, menuUsage>>

\* dispatch puts the callback in the queue of the script, if withScript finds it.
Dispatch ==
  /\ dispatching = "found"
  /\ queue' = IF closed THEN queue ELSE queue + 1
  /\ dispatching' = "erase"
  /\ UNCHANGED <<entry, owed, luaVars, scriptVars, freed, menuUsage>>

\* The entry is erased without the mutex. The map may be changing.
Erase ==
  /\ dispatching = "erase"
  /\ entry' = "absent"
  /\ dispatching' = "no"
  /\ freed' \in {freed} \union {u \in {"events"} : showing}
  /\ UNCHANGED <<owed, luaVars, scriptVars, queue, menuUsage>>

-----------------------------------------------------------------------------

MenuInit ==
  /\ entry = "absent"
  /\ dispatching = "no"
  /\ owed = 0
  /\ queue = 0
  /\ anchored = FALSE
  /\ referenced = TRUE
  /\ held = TRUE
  /\ showing = FALSE
  /\ handling = "no"
  /\ closed = FALSE
  /\ shows = 0
  /\ freed = "nothing"
  /\ menuUsage \in MenuUsages

MenuNext ==
  /\ freed = "nothing"
  /\ \/ Show \/ ShowThrows \/ Emplace
     \/ CallbackBegins \/ CallReturns \/ Trigger
     \/ Drop \/ Collect \/ Close
     \/ \E isResult \in BOOLEAN : OnMessage(isResult)
     \/ Dispatch \/ Erase

MenuSpec == MenuInit /\ [][MenuNext]_menuVars

-----------------------------------------------------------------------------
(* Properties *)

MenuFlagsOK ==
  /\ anchored \in BOOLEAN /\ referenced \in BOOLEAN /\ held \in BOOLEAN
  /\ showing \in BOOLEAN /\ closed \in BOOLEAN

\* The entry, the counters and the flags stay within their types.
MenuTypeOK ==
  /\ entry \in {"absent", "menu", "empty"}
  /\ dispatching \in {"no", "found", "erase"}
  /\ owed \in 0..MaxShows
  /\ queue \in 0..MaxShows
  /\ MenuFlagsOK
  /\ handling \in {"no", "call", "trigger"}
  /\ shows \in 0..MaxShows
  /\ freed \in {"nothing", "callback", "trigger", "events"}
  /\ menuUsage \in MenuUsages

\* A menu that has been shown is kept alive until its result has been received: from
\* the call of show on, in the simulator's queue and in the script's.
KeptUntilResult == Outstanding => held \/ closed

\* A script that waits for the result before it shows the menu again can rely on it.
KeptAlive == "again" \in menuUsage \/ KeptUntilResult

\* While a result is to come, the simulator's thread can find the menu.
ResultsFindMenu == owed > 0 /\ ~showing => entry = "menu" \/ closed

\* The menu is not shown again too soon, and no callback, and no message, overtakes the
\* thread that has caused it.
Slow == "again" \notin menuUsage /\ "quick" \notin menuUsage
InStep == Slow /\ "early" \notin menuUsage

\* They do if nothing is overtaken.
Registered == InStep => ResultsFindMenu

\* Once the results have been handled, the menu is the script's to drop, and no entry
\* is left of one that is gone.
NotKeptForever ==
  /\ InStep /\ "invalid" \notin menuUsage => (anchored => Outstanding)
  /\ entry = "menu" => Exists

\* A menu lives, and is found, from its showing until its result has been handled, and
\* nothing but the script keeps it afterwards.
LivesUntilHandled == MenuTypeOK /\ KeptAlive /\ Registered /\ NotKeptForever

\* The callback does not use a menu that is gone: at its start unless the menu has been
\* shown again too soon, and between its two calls if the script has kept the menu.
\* Two threads change the map of events at once only if a menu is shown again before
\* the simulator's thread has done with its result.
NoUndefinedUse ==
  /\ freed = "callback" => "drop" \in menuUsage /\ "again" \in menuUsage
  /\ freed = "trigger" => "drop" \in menuUsage
  /\ Slow => freed # "events"
=============================================================================
