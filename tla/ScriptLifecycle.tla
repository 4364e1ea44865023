--------------------------- MODULE ScriptLifecycle ---------------------------
(***************************************************************************)
(* The list of scripts (Copilot/LuaPlugin.{h,cpp}) and the threads that    *)
(* launch, restart, stop and call scripts: threads detached for the        *)
(* entries of the simulator's menus, the simulator's own thread, and the   *)
(* threads of the scripts.                                                 *)
(*                                                                         *)
(* A script is a LuaPlugin object with a thread; the list has an entry for *)
(* each path, with a mutex that outlives the script.  A thread's stack     *)
(* holds the calls it has not returned from.  To use memory that has been  *)
(* freed is undefined behaviour: `ub' names the place, and the model stops. *)
(***************************************************************************)
EXTENDS Integers, Sequences, FiniteSets, SequencesExt

CONSTANTS
  Paths,
  Detached,         \* threads started for a menu entry
  UI,               \* the simulator's thread
  None,
  Initial,          \* the paths of the scripts that have been launched already
  Usages,           \* the uses of the API considered: subsets of Use
  MaxCalls          \* bound: calls of the API

Use == {
  "launch", "stop", "stopAll", "with",
  "launcher",       \* a script is launched without a thread, which is started later
  "collect",        \* a script's thread finalises Lua objects that call withScript
  "close",          \* so does whoever closes a script's Lua state
  "control",        \* a script's thread sends messages to the simulator's window
  "scripted"}       \* the threads of Initial launch and stop other scripts

ASSUME PathsAssumption == Initial \in Seq(Paths)
ASSUME UsagesAssumption == Usages \subseteq SUBSET Use
ASSUME BoundsAssumption == MaxCalls \in Nat

ScriptIDs == 1..(Len(Initial) + MaxCalls)

Threads == Detached \union {UI} \union ScriptIDs

ASSUME ThreadsAssumption ==
  /\ IsFiniteSet(Detached) /\ UI \notin Detached
  /\ ScriptIDs \cap (Paths \union Detached \union {UI}) = {}
  /\ None \notin Paths \union Threads

VARIABLES
  scripts,          \* entries: path, script, scriptID, and the mutex
  buffer,           \* how often its elements have been moved
  globalMutex,
  plugins,          \* the LuaPlugin objects
  stack,
  calls,
  ub,
  usage             \* the element of Usages a behaviour is about

listVars == <<scripts, buffer>>
vars == <<listVars, globalMutex, plugins, stack, calls, ub, usage>>

-----------------------------------------------------------------------------
(* Recursive mutexes *)

Free == [owner |-> None, count |-> 0]

CanLock(m, t) == m.owner \in {None, t}

Locked(m, t) == [owner |-> t, count |-> m.count + 1]

\* Variant: the owner stays.
OwnerKept(m) == [m EXCEPT !.count = @ - 1]

Unlocked(m) == IF m.count = 1 THEN Free ELSE [m EXCEPT !.count = @ - 1]

-----------------------------------------------------------------------------
(* Calls *)

Call(op, at, key) == [op |-> op, at |-> at, key |-> key, ref |-> None]

Top(t) == Last(stack[t])

At(t, op, at) == stack[t] # <<>> /\ Top(t).op = op /\ Top(t).at = at

Idle(t) == stack[t] = <<>>

\* The innermost call of t goes on as c.
GoOn(t, c) == stack' = [stack EXCEPT ![t] = Append(Front(@), c)]

\* It goes on as c once the calls ds have returned.
GoOnAfter(t, c, ds) == stack' = [stack EXCEPT ![t] = Append(Front(@), c) \o ds]

Return(t) == stack' = [stack EXCEPT ![t] = Front(@)]

IsDeleting(t, n) ==
  \E k \in DOMAIN stack[t] : stack[t][k].op = "delete" /\ stack[t][k].key = n

\* A reference to an element of the vector, and whether it still is one.
Ref(i) == [i |-> i, buffer |-> buffer]

IsValid(ref) == ref.buffer = buffer

\* An element is used after the vector has moved.
UseAfterMove(t) ==
  /\ ~IsValid(Top(t).ref)
  /\ ub' = "vector"
  /\ UNCHANGED <<listVars, globalMutex, plugins, stack, calls, usage>>

Entry(t) == scripts[Top(t).ref.i]

\* std::find_if over the entries; a key is a path or an ID.
Matches(e, key) == key \in {e.path, e.scriptID}

Find(key) ==
  LET found == {i \in DOMAIN scripts : Matches(scripts[i], key)}
  IN IF found = {} THEN 0 ELSE Min(found)

-----------------------------------------------------------------------------
(* The LuaPlugin objects *)

NewPlugin(path, thread) ==
  [path |-> path, thread |-> thread, running |-> TRUE, shutdownEvent |-> FALSE,
   background |-> "none", backgroundThreadRunning |-> FALSE, deleted |-> FALSE]

\* One that has not been made, or is no more.
NoPlugin == [NewPlugin(None, "none") EXCEPT !.deleted = TRUE]

\* An ID is not used again: the path stays, to tell it from one yet to be used.
Freed(p) == [NoPlugin EXCEPT !.path = p.path]

-----------------------------------------------------------------------------
(* Deletion of a script, inside a call of launch, stop or stopAll *)

\* Variant: SetEvent is not called.
NotSignalled(p) == IF p.thread = "none" THEN p ELSE [p EXCEPT !.running = FALSE]

\* stopThread, up to the join.
Stopped(p) ==
  IF p.thread = "none" THEN p ELSE [p EXCEPT !.running = FALSE, !.shutdownEvent = TRUE]

DeleteStop(t) ==
  /\ At(t, "delete", "stop")
  /\ plugins' = [plugins EXCEPT ![Top(t).key] = Stopped(@)]
  /\ GoOn(t, [Top(t) EXCEPT !.at = "join"])
  /\ UNCHANGED <<listVars, globalMutex, calls, ub, usage>>

DeleteJoin(t) ==
  LET n == Top(t).key IN
  /\ At(t, "delete", "join")
  /\ plugins[n].thread \in {"none", "ended"}
  /\ plugins' = [plugins EXCEPT ![n].backgroundThreadRunning = FALSE]
  /\ GoOn(t, [Top(t) EXCEPT !.at = "joinBackground"])
  /\ UNCHANGED <<listVars, globalMutex, calls, ub, usage>>

\* The Lua state is closed: the finalisers of its objects look for the script.
DeleteClose(t) ==
  LET n == Top(t).key IN
  /\ At(t, "delete", "joinBackground")
  /\ plugins[n].background \in {"none", "ended"}
  /\ LET closing == [Top(t) EXCEPT !.at = "free"]
     IN \/ "close" \in usage /\ GoOnAfter(t, closing, <<Call("with", "find", n)>>)
        \/ GoOn(t, closing)
  /\ UNCHANGED <<listVars, globalMutex, plugins, calls, ub, usage>>

DeleteFree(t) ==
  /\ At(t, "delete", "free")
  /\ plugins' = [plugins EXCEPT ![Top(t).key] = Freed(@)]
  /\ Return(t)
  /\ UNCHANGED <<listVars, globalMutex, calls, ub, usage>>

Delete(t) == DeleteStop(t) \/ DeleteJoin(t) \/ DeleteClose(t) \/ DeleteFree(t)

-----------------------------------------------------------------------------
(* launchScript *)

\* emplace_back: if the vector is full its elements move.
Emplace(path) ==
  /\ scripts' = Append(scripts, [path |-> path, script |-> None, scriptID |-> None,
                                 mutex |-> Free])
  /\ buffer' \in {buffer, buffer + 1}

LaunchFind(t) ==
  LET i == Find(Top(t).key) IN
  /\ At(t, "launch", "find")
  /\ CanLock(globalMutex, t)
  /\ globalMutex' = Locked(globalMutex, t)
  /\ \/ i # 0
        /\ UNCHANGED listVars
        /\ GoOn(t, [Top(t) EXCEPT !.at = "lock", !.ref = Ref(i)])
     \/ i = 0
        /\ Emplace(Top(t).key)
        /\ GoOn(t, [Top(t) EXCEPT !.at = "lock",
                                  !.ref = [i |-> Len(scripts) + 1, buffer |-> buffer']])
  /\ UNCHANGED <<plugins, calls, ub, usage>>

\* Variant: the pointer is forgotten.
NotDeleted(e) == <<>>

\* delete of an entry's script, which may be null.
DeleteScript(e) ==
  IF e.script = None THEN <<>> ELSE <<Call("delete", "stop", e.script)>>

\* Variant: the entry can still be found by its path.
PathKept(e) == [e EXCEPT !.script = None, !.scriptID = None]

Hidden(e) == [e EXCEPT !.script = None, !.scriptID = None, !.path = None]

\* The entry's mutex is locked before the other one is unlocked.
LaunchLock(t) ==
  LET i == Top(t).ref.i
      e == scripts[i]
  IN
  /\ At(t, "launch", "lock")
  /\ CanLock(e.mutex, t)
  /\ scripts' = [scripts EXCEPT ![i] = [Hidden(e) EXCEPT !.mutex = Locked(e.mutex, t)]]
  /\ globalMutex' = Unlocked(globalMutex)
  /\ GoOnAfter(t, [Top(t) EXCEPT !.at = "create"], DeleteScript(e))
  /\ UNCHANGED <<buffer, plugins, calls, ub, usage>>

NextID == Cardinality({n \in ScriptIDs : plugins[n].path # None}) + 1

\* A loader of scripts.ini gets the script without a thread.
LaunchCreate(t) ==
  /\ At(t, "launch", "create")
  /\ IsValid(Top(t).ref)
  /\ \E later \in {FALSE} \union {"launcher" \in usage /\ t \in Detached} :
       /\ plugins' = [plugins EXCEPT
            ![NextID] = NewPlugin(Top(t).key, IF later THEN "none" ELSE "starting")]
       /\ IF later THEN GoOn(t, Call("launcher", "start", NextID)) ELSE Return(t)
  /\ scripts' = [scripts EXCEPT ![Top(t).ref.i] =
       [path |-> Top(t).key, script |-> NextID, scriptID |-> NextID,
        mutex |-> Unlocked(@.mutex)]]
  /\ UNCHANGED <<buffer, globalMutex, calls, ub, usage>>

\* loadScriptsIni: the script is used without a lock, whatever has become of it.
LauncherStart(t) ==
  LET n == Top(t).key
      isGone == plugins[n].deleted \/ \E u \in Threads : IsDeleting(u, n)
  IN
  /\ At(t, "launcher", "start")
  /\ \/ isGone
        /\ ub' = "launcher"
        /\ UNCHANGED plugins
     \/ ~isGone
        /\ plugins' = [plugins EXCEPT ![n].thread = "starting"]
        /\ UNCHANGED ub
  /\ Return(t)
  /\ UNCHANGED <<listVars, globalMutex, calls, usage>>

Launch(t) ==
  \/ LaunchFind(t)
  \/ LaunchLock(t)
  \/ LaunchCreate(t)
  \/ At(t, "launch", "create") /\ UseAfterMove(t)
  \/ LauncherStart(t)

-----------------------------------------------------------------------------
(* stopScript and stopAllScripts *)

\* The list is searched under the global mutex, which is released at once.
StopFind(t) ==
  LET i == Find(Top(t).key) IN
  /\ At(t, "stop", "find")
  /\ CanLock(globalMutex, t)
  /\ IF i = 0 THEN Return(t) ELSE GoOn(t, [Top(t) EXCEPT !.at = "lock", !.ref = Ref(i)])
  /\ UNCHANGED <<listVars, globalMutex, plugins, calls, ub, usage>>

\* Locks the entry and deletes its script; shared by stop and stopAll.
LockAndDelete(t, i) ==
  /\ CanLock(scripts[i].mutex, t)
  /\ scripts' = [scripts EXCEPT ![i].mutex = Locked(@, t)]
  /\ GoOnAfter(t, [Top(t) EXCEPT !.at = "deleted"], DeleteScript(scripts[i]))
  /\ UNCHANGED <<buffer, globalMutex, plugins, calls, ub, usage>>

StopLock(t) ==
  /\ At(t, "stop", "lock")
  /\ IsValid(Top(t).ref)
  /\ LockAndDelete(t, Top(t).ref.i)

Emptied(e) == [e EXCEPT !.script = None, !.mutex = Unlocked(@)]

StopDone(t) ==
  /\ At(t, "stop", "deleted")
  /\ IsValid(Top(t).ref)
  /\ scripts' = [scripts EXCEPT ![Top(t).ref.i] = Emptied(@)]
  /\ Return(t)
  /\ UNCHANGED <<buffer, globalMutex, plugins, calls, ub, usage>>

Stop(t) ==
  \/ StopFind(t)
  \/ StopLock(t)
  \/ StopDone(t)
  \/ At(t, "stop", "lock") /\ UseAfterMove(t)
  \/ At(t, "stop", "deleted") /\ UseAfterMove(t)

\* Variant: the list is not locked.
StopAllUnlocked(t) ==
  /\ At(t, "stopAll", "begin")
  /\ CanLock(globalMutex, t)
  /\ GoOn(t, [Top(t) EXCEPT !.at = "next", !.key = 1])
  /\ UNCHANGED <<listVars, globalMutex, plugins, calls, ub, usage>>

StopAllBegin(t) ==
  /\ At(t, "stopAll", "begin")
  /\ CanLock(globalMutex, t)
  /\ globalMutex' = Locked(globalMutex, t)
  /\ GoOn(t, [Top(t) EXCEPT !.at = "next", !.key = 1])
  /\ UNCHANGED <<listVars, plugins, calls, ub, usage>>

StopAllNext(t) ==
  /\ At(t, "stopAll", "next")
  /\ Top(t).key <= Len(scripts)
  /\ LockAndDelete(t, Top(t).key)

StopAllDone(t) ==
  LET i == Top(t).key IN
  /\ At(t, "stopAll", "deleted")
  /\ scripts' = [scripts EXCEPT ![i] = Emptied(@)]
  /\ GoOn(t, [Top(t) EXCEPT !.at = "next", !.key = i + 1])
  /\ UNCHANGED <<buffer, globalMutex, plugins, calls, ub, usage>>

StopAllEnd(t) ==
  /\ At(t, "stopAll", "next")
  /\ Top(t).key > Len(scripts)
  /\ globalMutex' = Unlocked(globalMutex)
  /\ Return(t)
  /\ UNCHANGED <<listVars, plugins, calls, ub, usage>>

StopAll(t) == StopAllBegin(t) \/ StopAllNext(t) \/ StopAllDone(t) \/ StopAllEnd(t)

-----------------------------------------------------------------------------
(* withScript *)

WithFind(t) ==
  LET i == Find(Top(t).key) IN
  /\ At(t, "with", "find")
  /\ CanLock(globalMutex, t)
  /\ IF i = 0 THEN Return(t) ELSE GoOn(t, [Top(t) EXCEPT !.at = "lock", !.ref = Ref(i)])
  /\ UNCHANGED <<listVars, globalMutex, plugins, calls, ub, usage>>

\* Variant: what has been found under the other mutex is not looked at again.
NotRechecked(e, key) == e.script # None

RunsBlock(e, key) == e.script # None /\ Matches(e, key)

\* The block is run on the script that was asked for, and it is there.
IsUsable(e, key) ==
  /\ e.script # None
  /\ key \in {e.script, plugins[e.script].path}
  /\ ~plugins[e.script].deleted

\* The block puts a callback in the script's queue, under the entry's mutex. A script
\* that t is deleting is an FSL2LuaScript no more: the cast fails.
WithBlock(t) ==
  LET e == Entry(t)
      key == Top(t).key
  IN
  /\ At(t, "with", "lock")
  /\ IsValid(Top(t).ref)
  /\ CanLock(e.mutex, t)
  /\ ub' = IF /\ RunsBlock(e, key)
              /\ ~IsDeleting(t, e.script)
              /\ ~IsUsable(e, key)
           THEN "withScript" ELSE ub
  /\ Return(t)
  /\ UNCHANGED <<listVars, globalMutex, plugins, calls, usage>>

With(t) ==
  \/ WithFind(t)
  \/ WithBlock(t)
  \/ At(t, "with", "lock") /\ UseAfterMove(t)

-----------------------------------------------------------------------------
(* The threads of a script *)

IsRunning(n) == plugins[n].thread \in {"script", "loop"}

\* The thread has come to run, and only now says so.
ThreadStarts(n) ==
  /\ plugins[n].thread = "starting"
  /\ plugins' = [plugins EXCEPT ![n].thread = "script", ![n].running = TRUE]
  /\ UNCHANGED <<listVars, globalMutex, stack, calls, ub, usage>>

\* LuaPlugin::run returns; the background thread is started.
LoopBegins(n) ==
  /\ plugins[n].thread = "script"
  /\ Idle(n)
  /\ plugins' = [plugins EXCEPT ![n].thread = "loop", ![n].background = "starting"]
  /\ UNCHANGED <<listVars, globalMutex, stack, calls, ub, usage>>

\* LuaPlugin::run throws.
ScriptFails(n) ==
  /\ plugins[n].thread = "script"
  /\ Idle(n)
  /\ plugins' = [plugins EXCEPT ![n].thread = "ended"]
  /\ UNCHANGED <<listVars, globalMutex, stack, calls, ub, usage>>

\* hookFunc sees that running is FALSE, or the script or the main loop waits for the
\* handle, which is reset.
ThreadEnds(n) ==
  /\ IsRunning(n)
  /\ Idle(n)
  /\ \/ plugins[n].thread = "script" /\ ~plugins[n].running
        /\ plugins' = [plugins EXCEPT ![n].thread = "ended"]
     \/ plugins[n].shutdownEvent
        /\ plugins' = [plugins EXCEPT ![n].thread = "ended", ![n].shutdownEvent = FALSE]
  /\ UNCHANGED <<listVars, globalMutex, stack, calls, ub, usage>>

\* The hook sees it in a callback, if there is one.
CallbackEnds(n) ==
  /\ plugins[n].thread = "loop"
  /\ Idle(n)
  /\ ~plugins[n].running
  /\ plugins' = [plugins EXCEPT ![n].thread = "ended"]
  /\ UNCHANGED <<listVars, globalMutex, stack, calls, ub, usage>>

BackgroundStarts(n) ==
  /\ plugins[n].background = "starting"
  /\ plugins' = [plugins EXCEPT ![n].background = "running",
                                ![n].backgroundThreadRunning = TRUE]
  /\ UNCHANGED <<listVars, globalMutex, stack, calls, ub, usage>>

BackgroundEnds(n) ==
  /\ plugins[n].background = "running"
  /\ ~plugins[n].backgroundThreadRunning
  /\ plugins' = [plugins EXCEPT ![n].background = "ended"]
  /\ UNCHANGED <<listVars, globalMutex, stack, calls, ub, usage>>

\* SendMessage returns when the simulator's thread has handled the message.
ControlSent(n) ==
  /\ At(n, "control", "wait")
  /\ Idle(UI)
  /\ Return(n)
  /\ UNCHANGED <<listVars, globalMutex, plugins, calls, ub, usage>>

-----------------------------------------------------------------------------
(* Who calls what *)

Begins(t, use, c) ==
  /\ use \in usage
  /\ Idle(t)
  /\ calls < MaxCalls
  /\ calls' = calls + 1
  /\ stack' = [stack EXCEPT ![t] = <<c>>]
  /\ UNCHANGED <<listVars, globalMutex, plugins, ub, usage>>

\* An entry of a menu is chosen.
MenuBegins(t, path) ==
  \/ Begins(t, "launch", Call("launch", "find", path))
  \/ Begins(t, "stop", Call("stop", "find", path))

\* The simulator's thread hands an event to a script, which it knows by its path or its
\* ID, or closes down.
SimulatorBegins ==
  \/ \E key \in Paths \union 1..(NextID - 1) :
       Begins(UI, "with", Call("with", "find", key))
  \/ Begins(UI, "stopAll", Call("stopAll", "begin", None))

\* A script does not launch or stop itself, or one that launches it: a thread cannot
\* join itself.
ScriptBegins(n) ==
  /\ IsRunning(n)
  /\ \/ Begins(n, "collect", Call("with", "find", n))
     \/ Begins(n, "control", Call("control", "wait", None))
     \/ /\ "scripted" \in usage
        /\ plugins[n].path \in Range(Initial)
        /\ \E path \in Paths \ Range(Initial) : MenuBegins(n, path)

-----------------------------------------------------------------------------

Init ==
  /\ scripts = [i \in DOMAIN Initial |->
                  [path |-> Initial[i], script |-> i, scriptID |-> i, mutex |-> Free]]
  /\ buffer = 0
  /\ globalMutex = Free
  /\ plugins = [n \in ScriptIDs |->
       IF n \in DOMAIN Initial THEN NewPlugin(Initial[n], "starting") ELSE NoPlugin]
  /\ stack = [t \in Threads |-> <<>>]
  /\ calls = 0
  /\ ub = "none"
  /\ usage \in Usages

\* A thread goes on with the call it is in.
Step(t) == Launch(t) \/ Stop(t) \/ StopAll(t) \/ With(t) \/ Delete(t)

\* A script's threads go on, without a new call. A script comes to a wait, to the hook or
\* to its end, and the main loop to its wait.
Runs(n) ==
  \/ ThreadStarts(n)
  \/ LoopBegins(n)
  \/ ThreadEnds(n)
  \/ BackgroundStarts(n)
  \/ BackgroundEnds(n)
  \/ ControlSent(n)

Next ==
  /\ ub = "none"
  /\ \/ \E t \in Detached, path \in Paths : MenuBegins(t, path)
     \/ SimulatorBegins
     \/ \E n \in ScriptIDs : ScriptBegins(n) \/ ScriptFails(n) \/ CallbackEnds(n) \/ Runs(n)
     \/ \E t \in Threads : Step(t)

Spec == Init /\ [][Next]_vars

-----------------------------------------------------------------------------
(* Properties *)

Plugin == [
  path : Paths \union {None}, thread : {"none", "starting", "script", "loop", "ended"},
  running : BOOLEAN, shutdownEvent : BOOLEAN,
  background : {"none", "starting", "running", "ended"},
  backgroundThreadRunning : BOOLEAN, deleted : BOOLEAN]

MutexOK(m) == m.count \in Nat /\ m.owner \in Threads \union {None} /\
              (m.owner = None <=> m.count = 0)

\* The list, the locks, the scripts and the stacks stay within their types.
TypeOK ==
  /\ \A i \in DOMAIN scripts :
       /\ scripts[i].path \in Paths \union {None}
       /\ {scripts[i].script, scripts[i].scriptID} \subseteq ScriptIDs \union {None}
       /\ MutexOK(scripts[i].mutex)
  /\ buffer \in Nat
  /\ MutexOK(globalMutex)
  /\ plugins \in [ScriptIDs -> Plugin]
  /\ \A t \in Threads : \A k \in DOMAIN stack[t] :
       DOMAIN stack[t][k] = {"op", "at", "key", "ref"}
  /\ calls \in 0..MaxCalls
  /\ ub \in {"none", "vector", "launcher", "withScript"}
  /\ usage \in Usages

\* The thread t waits for: the owner of the mutex it is to lock, the script it joins,
\* or the simulator's thread.
WaitsFor(t) ==
  LET c == Top(t)
      owner(m) == IF CanLock(m, t) THEN {} ELSE {m.owner}
  IN
  IF Idle(t) THEN {} ELSE
    CASE c.at \in {"find", "begin"} -> owner(globalMutex)
      [] c.at = "lock" -> owner(scripts[c.ref.i].mutex)
      [] c.at = "next" /\ c.key <= Len(scripts) -> owner(scripts[c.key].mutex)
      [] c.at = "join" /\ plugins[c.key].thread \notin {"none", "ended"} -> {c.key}
      [] c.at = "wait" /\ ~Idle(UI) -> {UI}
      [] OTHER -> {}

\* No threads wait for one another for good: for mutexes, for the end of a script's
\* thread, for an answer of the simulator's thread.
NoDeadlock ==
  ~ \E K \in SUBSET {t \in Threads : WaitsFor(t) # {}} :
      K # {} /\ \A t \in K : WaitsFor(t) \subseteq K

\* A block is only run on the script that was looked for, while it exists, and no
\* script is deleted twice.
NoUseAfterDelete ==
  /\ ub # "withScript"
  /\ \A n \in ScriptIDs :
       Cardinality({t \in Threads : IsDeleting(t, n)}) <= (IF plugins[n].deleted THEN 0 ELSE 1)

\* Every script that exists is in the list or is being deleted: none runs on with
\* nobody able to stop it.
NoOrphans ==
  /\ TypeOK
  /\ \A n \in ScriptIDs : ~plugins[n].deleted =>
       \/ \E i \in DOMAIN scripts : scripts[i].script = n
       \/ \E t \in Threads : IsDeleting(t, n)

\* When stopAllScripts returns no script is left, whatever was being launched, stopped
\* or restarted meanwhile.
StopAllLeavesNone ==
  [][\A t \in Threads : StopAllEnd(t) => \A n \in ScriptIDs : plugins[n].deleted]_vars

\* The background thread came to run when it had been told to stop, and goes on.
MissedStop(n) ==
  /\ plugins[n].thread = "ended"
  /\ plugins[n].background = "running"
  /\ plugins[n].backgroundThreadRunning

\* Every call returns, those that wait for the end of a script's threads too, unless the
\* script's main loop ended before its background thread had come to run. Each step of a
\* call or of a script takes it forward, so that without new calls all come to a halt:
\* with nothing left to do, and not in the middle of a call.
CallsReturn ==
  ub = "none" =>
    \/ \A t \in Threads : Idle(t)
    \/ \E n \in ScriptIDs : MissedStop(n)
    \/ ENABLED ((\E t \in Threads : Step(t)) \/ (\E n \in ScriptIDs : Runs(n)))
=============================================================================
