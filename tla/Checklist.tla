------------------------------ MODULE Checklist ------------------------------
(***************************************************************************)
(* Checklists (copilot/Checklist.lua) and the voice commands they suspend  *)
(* (copilot/VoiceCommand.lua), composed with the recognizer.               *)
(*                                                                         *)
(* A checklist is a coroutine of the script.  Between two of its waits the *)
(* script's thread does nothing else, so what it does there is one step;   *)
(* the thread of the recognizer goes on meanwhile, and so does the user,   *)
(* who speaks, and uses the menu.  What the script does in one step is     *)
(* computed on a record of the variables it changes.                       *)
(***************************************************************************)
EXTENDS Integers, Sequences, FiniteSets

CONSTANTS
  Commands, None,
  Checklists,
  Trigger,          \* the command that starts a checklist
  Items,            \* its items: [response |-> a command, check |-> how it is checked]
  sayAgain, standby, resume, restart,   \* the commands the checklists share
  PersistenceOf,    \* the persistence mode of each command
  MaxQueued,        \* bound: callbacks that wait for the script
  MaxInputs         \* bound: phrases, menu selections and changes by other scripts

Checks == {"none", "function", "coroutine"}
Shared == {sayAgain, standby, resume, restart}
Responses(c) == {Items[c][i].response : i \in DOMAIN Items[c]}

\* Checklist.voiceCommands: the commands that are never suspended.
Own == Shared \union UNION {Responses(c) : c \in Checklists}
Others == Commands \ Own

ASSUME ChecklistAssumption ==
  /\ Own \subseteq Commands
  /\ Trigger \in [Checklists -> Others]
  /\ Items \in [Checklists -> Seq([response : Commands, check : Checks])]
  /\ \A c \in Checklists : Len(Items[c]) > 0 /\ Responses(c) \cap Shared = {}
  /\ None \notin Checklists \union {"Active", "Ignore"}

\* No command of the repository's checklists is made with persistent = "ignore": one
\* recognized just as it is deactivated would come on again.
ASSUME PersistenceAssumption ==
  /\ PersistenceOf \in [Commands -> {"NonPersistent", "Persistent", "Ignore"}]
  /\ \A v \in Own : PersistenceOf[v] # "Ignore"

ASSUME BoundAssumption == MaxInputs \in Nat

VARIABLES
  rules, armed, heard, reco, queue,     \* of the recognizer
  current,          \* Checklist._currChecklist
  item,             \* its _currItemIdx
  at,               \* where the coroutine of the checklist waits
  event,            \* the event that has ended the wait: a command, or the
                    \* payload of Checklist.checklistEvent
  created,          \* checklists whose coroutines have yet to run
  suspended,        \* voiceCommandsSuspended of each checklist
  vcStates,         \* the states it has saved
  wanted,           \* the state that each of the other commands was last put in
  raced,            \* commands that were recognized as they were suspended
  failed,           \* a checklist's coroutine has thrown
  inputs

recoVars == <<heard, reco, queue>>
scriptVars == <<current, item, at, event, suspended, vcStates, failed>>
vars == <<rules, armed, recoVars, scriptVars, created, wanted, raced, inputs>>

\* The grammar is fixed, and the mute key is not used.  (TLC wants expressions
\* and not constants for what is left unchanged.)
V == INSTANCE Recognizer WITH
       DummyRules <- {}, DummyWhileOn <- FALSE, committed <- Commands \union {},
       grammarIsDirty <- ~TRUE, listening <- ~FALSE, muted <- ~TRUE, wiped <- {},
       requests <- 0, MaxRequests <- 0, MaxHeard <- 1

MenuActions == {"checklist_repeat_prev", "item_skip", "checklist_reset",
                "checklist_cancel", "checklist_skip"}

-----------------------------------------------------------------------------
(* The script's steps: each takes the state as a record and returns one *)

State ==
  [rules |-> rules, current |-> current, item |-> item, at |-> at, event |-> event,
   suspended |-> suspended, vcStates |-> vcStates, wanted |-> wanted, failed |-> failed]

Becomes(state) ==
  \E s \in {state} :
    /\ rules' = s.rules /\ armed' = armed \union V!Activated(s.rules)
    /\ current' = s.current /\ item' = s.item /\ at' = s.at /\ event' = s.event
    /\ suspended' = s.suspended /\ vcStates' = s.vcStates
    /\ wanted' = s.wanted /\ failed' = s.failed

\* Op(state), with the state evaluated once.
Then(state, Op(_)) == CHOOSE r \in {Op(s) : s \in {state}} : TRUE

SetRule(rs, v, state) ==
  CASE state = "Active" -> V!activateRule(rs, v)
    [] state = "Ignore" -> V!ignoreRule(rs, v)
    [] OTHER            -> V!deactivateRule(rs, v)

onVcStateChange(s, v) ==
  v \in Others /\ s.current # None /\ s.suspended[s.current]

\* VoiceCommand:activate, ignore and deactivate.
SetState(s, v, state) ==
  IF onVcStateChange(s, v)
  THEN [s EXCEPT !.vcStates[s.current][v] = state]
  ELSE [s EXCEPT !.rules = SetRule(@, v, state)]

SetAll(s, vs, state) ==
  [s EXCEPT !.rules = [v \in Commands |-> IF v \in vs THEN SetRule(@, v, state)[v] ELSE @[v]]]

\* The same, when it is a wish about one of the other commands.
Ask(s, v, state) ==
  Then([s EXCEPT !.wanted[v] = state], LAMBDA t : SetState(t, v, state))

Saved(rs) ==
  [v \in Others |-> IF rs[v].state = "Inactive" THEN None ELSE rs[v].state]

suspendVoiceCommands(s) ==
  IF s.suspended[s.current] THEN s
  ELSE [SetAll(s, Others, "Inactive") EXCEPT !.vcStates[s.current] = Saved(s.rules),
                                             !.suspended[s.current] = TRUE]

\* Variant: commands that were in ignore mode are not put back in it.
resumeActiveCommands(s) ==
  IF ~s.suspended[s.current] THEN s
  ELSE SetAll([s EXCEPT !.suspended[s.current] = FALSE],
              {v \in Others : s.vcStates[s.current][v] = "Active"}, "Active")

resumeVoiceCommands(s) ==
  IF ~s.suspended[s.current] THEN s
  ELSE LET saved(state) == {v \in Others : s.vcStates[s.current][v] = state}
       IN SetAll(SetAll([s EXCEPT !.suspended[s.current] = FALSE],
                        saved("Active"), "Active"), saved("Ignore"), "Ignore")

Item(s) == Items[s.current][s.item]

\* Variant: the event that has ended the last wait ends this one.
awaitResponseAgain(s) ==
  [SetAll(s, {restart, standby, sayAgain, Item(s).response}, "Active")
     EXCEPT !.at = "response"]

awaitResponse(s) ==
  [SetAll(s, {restart, standby, sayAgain, Item(s).response}, "Active")
     EXCEPT !.at = "response", !.event = None]

awaitResume(s) ==
  [SetAll(s, {resume, restart}, "Active") EXCEPT !.at = "standby", !.event = None]

onStby(s) ==
  Then(Then(SetAll(s, {standby, Item(s).response}, "Ignore"), resumeVoiceCommands),
       awaitResume)

\* Variant: the checklist stays the current one.
resetCurrItem(s) == [s EXCEPT !.at = "idle", !.event = None]

resetCurrChecklist(s) == [s EXCEPT !.current = None, !.at = "idle", !.event = None]

\* The end of execute.
Complete(s) ==
  resetCurrChecklist(Then(SetAll(s, Shared, "Inactive"), resumeVoiceCommands))

\* The checklist's coroutine throws, and the action's doneEvent is told.
Throw(s) ==
  resetCurrChecklist([SetAll(s, Shared, "Inactive") EXCEPT !.failed = TRUE])

Begin(s, c) ==
  Then(Then([s EXCEPT !.current = c, !.item = 1], suspendVoiceCommands), awaitResponse)

ExecuteItem(s, i) ==
  IF i > Len(Items[s.current]) THEN Complete(s)
  ELSE Then([s EXCEPT !.item = i], awaitResponse)

\* What execute does with the result of an item.
HandleResult(s, res) ==
  CASE res = "checklist_reset"  -> Begin(s, s.current)
    [] res = "checklist_cancel" -> Then(Ask(s, Trigger[s.current], "Active"), Complete)
    [] res = "checklist_skip"   -> Complete(s)
    [] res \in {"checklist_continue", "item_skip"} -> ExecuteItem(s, s.item + 1)
    [] res = "checklist_repeat_prev" /\ s.item > 1 -> ExecuteItem(s, s.item - 1)
    [] OTHER -> Throw(s)

\* Variant: the response stays on when the item is left without one.
ItemDoneOnly(s, res) == HandleResult(s, res)

ItemDone(s, res) ==
  Then(SetAll(s, {Item(s).response}, "Inactive"), LAMBDA t : HandleResult(t, res))

-----------------------------------------------------------------------------
(* The checklist's coroutine *)

UnchangedByScript == UNCHANGED <<recoVars, raced, inputs>>

\* A checklist that finds another one being executed gives its trigger back;
\* when its coroutine ends, it deactivates the shared commands.
execute(c) ==
  /\ c \in created
  /\ created' = created \ {c}
  /\ Becomes(IF current = None THEN Begin(State, c)
             ELSE SetAll(Ask(State, Trigger[c], "Active"), Shared, "Inactive"))
  /\ UnchangedByScript

Waits(place) == at = place /\ UNCHANGED created /\ UnchangedByScript

ResponseGiven ==
  /\ Waits("response")
  /\ event = Item(State).response
  /\ \E s \in {SetAll(State, {event}, "Inactive")} :
        \/ /\ Item(s).check # "coroutine"
           /\ Becomes(ItemDone(s, "checklist_continue"))
        \/ /\ Item(s).check = "function"                  \* double check
           /\ Becomes(awaitResponse(s))
        \/ /\ Item(s).check = "coroutine"
           /\ Becomes([SetAll(s, {restart}, "Inactive")
                         EXCEPT !.at = "check", !.event = None])

AskedAgain ==
  /\ Waits("response")
  /\ event = sayAgain
  /\ Becomes(awaitResponse(State))

\* The wait for the response times out like one that is put off.
StandBy ==
  /\ Waits("response")
  /\ event \in {standby, None}
  /\ Becomes(onStby(State))

CommonEvent ==
  /\ Waits("response") \/ Waits("standby")
  /\ event \in MenuActions
  /\ Becomes(ItemDone(State, event))

Resumed ==
  /\ Waits("standby")
  /\ event = resume
  /\ Becomes(Then(suspendVoiceCommands(State), awaitResponse))

StandbyTimesOut ==
  /\ Waits("standby")
  /\ event = None
  /\ Becomes(ItemDone(State, "checklist_cancel"))

CheckEnds ==
  /\ Waits("check")
  /\ event = None
  /\ \/ Becomes(ItemDone(State, "checklist_continue"))
     \/ Becomes(awaitResponse(State))

\* The payload of the event is passed on as if it were the item.
CheckInterrupted ==
  /\ Waits("check")
  /\ event # None
  /\ Becomes(ItemDone(State, None))

Coroutine ==
  \/ \E c \in Checklists : execute(c)
  \/ ResponseGiven \/ AskedAgain \/ StandBy \/ CommonEvent
  \/ Resumed \/ StandbyTimesOut
  \/ CheckEnds \/ CheckInterrupted

-----------------------------------------------------------------------------
(* The recognizer, the user, and the other parts of the script *)

Awaited ==
  CASE at = "response" -> {standby, sayAgain, Item(State).response}
    [] at = "standby"  -> {resume}
    [] OTHER           -> {}

\* The wait is ended by the first event that is signaled.
Signal(e) == event' = IF event = None THEN e ELSE event

TriggerVoiceCommand ==
  /\ V!TriggerVoiceCommand
  /\ LET v == Head(queue)
     IN /\ created' = created \union {c \in Checklists : Trigger[c] = v /\ current # c}
        /\ IF v = restart /\ at # "idle" THEN Signal("checklist_reset")
           ELSE IF v \in Awaited THEN Signal(v)
           ELSE UNCHANGED event
  /\ UNCHANGED <<current, item, at, suspended, vcStates, failed, wanted, raced, inputs>>

Input ==
  /\ inputs < MaxInputs
  /\ inputs' = inputs + 1

Hear(v) ==
  /\ Input
  /\ V!Hear(v, TRUE)
  /\ UNCHANGED <<scriptVars, created, wanted, raced>>

\* What the recognizer does of itself to a command counts as wanted.
AfterRecoEvent ==
  /\ V!AfterRecoEvent
  /\ LET v == reco.rule
     IN IF v \in Others /\ PersistenceOf[v] # "Persistent"
        THEN /\ wanted' = [wanted EXCEPT ![v] =
                  IF PersistenceOf[v] = "Ignore" THEN "Ignore" ELSE "Inactive"]
             /\ raced' = IF \E c \in Checklists : suspended[c]
                         THEN raced \union {v} ELSE raced
        ELSE UNCHANGED <<wanted, raced>>
  /\ UNCHANGED <<scriptVars, created, inputs>>

RecognizerThread ==
  \/ AfterRecoEvent
  \/ /\ V!GetResult \/ V!CheckRuleState \/ V!EnqueueCallback
     /\ UNCHANGED <<scriptVars, created, wanted, raced, inputs>>

\* The user confirms a selection of the menu; the item has not changed.
Menu(action) ==
  /\ Input
  /\ at # "idle"
  /\ action = "checklist_repeat_prev" => item > 1
  /\ Signal(action)
  /\ UNCHANGED <<rules, armed, recoVars, current, item, at, suspended, vcStates,
                 failed, created, wanted, raced>>

\* Another part of the script changes the state of a command.
Request(v, state) ==
  /\ Input
  /\ Becomes(Ask(State, v, state))
  /\ raced' = IF onVcStateChange(State, v) THEN raced ELSE raced \ {v}
  /\ UNCHANGED <<recoVars, created>>

-----------------------------------------------------------------------------

\* Every checklist is available.
Available == {Trigger[c] : c \in Checklists}

Init ==
  /\ rules = [v \in Commands |->
                LET rule == V!NewRule(PersistenceOf[v], TRUE)
                IN IF v \in Available THEN [rule EXCEPT !.state = "Active", !.on = TRUE]
                   ELSE rule]
  /\ armed = Available
  /\ wanted = [v \in Others |-> IF v \in Available THEN "Active" ELSE "Inactive"]
  /\ heard = <<>> /\ reco = V!Idle /\ queue = <<>>
  /\ current = None /\ item = 1 /\ at = "idle" /\ event = None
  /\ created = {}
  /\ suspended = [c \in Checklists |-> FALSE]
  /\ vcStates = [c \in Checklists |-> [v \in Others |-> None]]
  /\ raced = {} /\ failed = FALSE /\ inputs = 0

Next ==
  \/ Coroutine
  \/ TriggerVoiceCommand
  \/ RecognizerThread
  \/ \E v \in Commands : Hear(v)
  \/ \E action \in MenuActions : Menu(action)
  \/ \E v \in Others, state \in {"Active", "Ignore", "Inactive"} : Request(v, state)

Spec == Init /\ [][Next]_vars

(* The script's main loop resumes coroutines whose wait has ended or timed *)
(* out, and runs the recognizer's callbacks; the check of a response ends. *)
FairSpec == Spec /\ WF_vars(Coroutine) /\ WF_vars(TriggerVoiceCommand)

-----------------------------------------------------------------------------
(* Properties *)

RuleState == {"Active", "Inactive", "Ignore"}

TypeOK ==
  /\ rules \in [Commands -> V!Rule]
  /\ current \in Checklists \union {None}
  /\ at \in {"idle", "response", "standby", "check"}
  /\ at = "idle" <=> current = None
  /\ current # None => item \in DOMAIN Items[current]
  /\ event \in Awaited \union MenuActions \union {None}
  /\ created \subseteq Checklists \ {current}
  /\ suspended \in [Checklists -> BOOLEAN]
  /\ vcStates \in [Checklists -> [Others -> RuleState \union {None}]]
  /\ wanted \in [Others -> RuleState]
  /\ raced \subseteq Others
  /\ inputs \in 0..MaxInputs

\* While no checklist suspends them, the other commands are in the state they
\* were last put in, whoever put them there, even if it was while they were
\* suspended (topics/checklists.md:6; Checklist.lua:303).
StatesRestored ==
  ~failed /\ (\A c \in Checklists : ~suspended[c]) =>
    \A v \in Others \ raced : rules[v].state = wanted[v]

\* Commands are suspended only while a checklist waits for a response or checks
\* it, not in standby and not between checklists; and then every command that is
\* not the checklists' own is off, whatever other scripts do (Checklist.lua:288,
\* VoiceCommand.lua:181).
OthersSuspended ==
  ~failed => \A c \in Checklists : suspended[c] =>
               /\ current = c
               /\ at \in {"response", "check"}
               /\ \A v \in Others \ raced : rules[v].state = "Inactive"

\* The other commands are off as long as a checklist needs them to be, and no longer:
\* however it ends, each is back in the state that it was last put in.
SuspendedAndRestored == StatesRestored /\ OthersSuspended

\* The checklists' own commands are on only while a checklist is executed, and
\* of the responses only the current item's, however the last item was left.
NoStrayCommands ==
  /\ TypeOK
  /\ \A v \in Own :
       rules[v].state # "Inactive" =>
         /\ current # None
         /\ v \in Shared \union {Item(State).response}

\* If the user stops talking and choosing, the checklist comes to an end: what is
\* not answered is put on standby, and what is not resumed is canceled.
ChecklistEnds == at # "idle" ~> at = "idle"

\* The menu can be used while a response is checked by a coroutine
\* (checklists/beforeTakeoff.lua:116).
NeverThrows == ~failed
=============================================================================
