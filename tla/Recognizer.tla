----------------------------- MODULE Recognizer -----------------------------
(***************************************************************************)
(* Speech recognition: the rules of a recognizer                           *)
(* (Copilot/Recognizer.{h,cpp}), the thread that fetches the results       *)
(* (Copilot/RecognizerCallback.cpp), and the callbacks it leaves for the   *)
(* script's thread (Copilot/FSL2LuaScript.cpp), which changes the rules    *)
(* while results are on their way.                                         *)
(*                                                                         *)
(* The methods that read or change the rules hold the mutex of Recognizer  *)
(* from end to end, so each is one step; the thread that fetches a result  *)
(* calls three of them.  resetGrammar, pause and resume speak to the       *)
(* engine without the mutex, but are called by the script's thread alone,  *)
(* as is whatever changes phrases: one step each.  The speech engine is    *)
(* external: it hears a rule that is active, has phrases and has been      *)
(* committed.                                                              *)
(***************************************************************************)
EXTENDS Integers, Sequences, FiniteSets

CONSTANTS
  Commands,         \* the rules of voice commands
  DummyRules,       \* the rules that addPhrases may make for dummy phrases
  None,
  DummyWhileOn,     \* may a command's first dummy phrases be added while it is on?
  MaxHeard,         \* bound: results that wait in the engine
  MaxQueued,        \* bound: callbacks that wait for the script
  MaxRequests       \* bound: calls the script makes

ASSUME RulesAssumption ==
  /\ Commands \cap DummyRules = {}
  /\ None \notin Commands \union DummyRules
  /\ DummyWhileOn \in BOOLEAN
ASSUME RecognizerBounds == {MaxHeard, MaxQueued, MaxRequests} \subseteq Nat

VARIABLES
  rules,            \* Recognizer::rules
  committed,        \* the rules whose phrases the engine knows
  grammarIsDirty,
  listening,        \* SetRecoState and Pause: whether the engine listens
  heard,            \* results the engine has not been asked for
  reco,             \* the thread that fetches results
  muted,            \* RecognizerCallback::isMuted
  queue,            \* callbacks enqueued for the script: rules to trigger
  requests,         \* how many calls the script has made
  armed,            \* commands activated since they were last used up
  wiped             \* rules that lost their phrases instead of others, or kept them

sapiVars == <<committed, grammarIsDirty, listening, wiped>>
recoVars == <<heard, reco, muted>>
vars == <<rules, sapiVars, recoVars, queue, requests, armed>>

Rules == Commands \union DummyRules

Persistence == {"NonPersistent", "Persistent", "Ignore"}
RuleState == {"Active", "Inactive", "Ignore", "Disabled"}

\* `on' is sapiRuleState; `phrases' and `grammar' say whether the rule's list of
\* phrases, and the engine's rule, have any.
Rule == [state: RuleState, persistenceMode: Persistence, on: BOOLEAN,
         dummyRuleID: DummyRules \union {None}, phrases: BOOLEAN, grammar: BOOLEAN]

Result == [rule: Rules, confident: BOOLEAN]

-----------------------------------------------------------------------------
(* Recognizer.cpp: the rules *)

\* Variant: the state of a new rule is not initialised.
NewRuleStateless(mode, phrases) ==
  [state |-> None, persistenceMode |-> mode, on |-> FALSE,
   dummyRuleID |-> None, phrases |-> phrases, grammar |-> phrases]

\* A rule as addRule makes it.
NewRule(mode, phrases) ==
  [state |-> "Inactive", persistenceMode |-> mode, on |-> FALSE,
   dummyRuleID |-> None, phrases |-> phrases, grammar |-> phrases]

\* Variant: the dummy rule is not switched with its rule.
changeRuleStateAlone(rs, r, state, on) ==
  [rs EXCEPT ![r].state = state, ![r].on = on]

\* The dummy rule is switched with its rule, but has no state of its own.
changeRuleState(rs, r, state, on) ==
  LET dummy == rs[r].dummyRuleID
      changed == [rs EXCEPT ![r].state = state, ![r].on = on]
  IN IF dummy = None THEN changed ELSE [changed EXCEPT ![dummy].on = on]

activateRule(rs, r) ==
  IF rs[r].state \in {"Disabled", "Active"} THEN rs
  ELSE changeRuleState(rs, r, "Active", TRUE)

ignoreRule(rs, r) ==
  IF rs[r].state \in {"Disabled", "Ignore"} THEN rs
  ELSE changeRuleState(rs, r, "Ignore", TRUE)

deactivateRule(rs, r) ==
  IF rs[r].state \in {"Disabled", "Inactive"} THEN rs
  ELSE changeRuleState(rs, r, "Inactive", FALSE)

disableRule(rs, r) ==
  IF rs[r].state = "Disabled" THEN rs
  ELSE changeRuleState(rs, r, "Disabled", FALSE)

\* Variant: a command that is not persistent stays active.
afterRecoEventStaysOn(rs, r) ==
  IF rs[r].persistenceMode = "Ignore" THEN ignoreRule(rs, r) ELSE rs

afterRecoEvent(rs, r) ==
  CASE rs[r].persistenceMode = "Ignore" -> ignoreRule(rs, r)
    [] rs[r].persistenceMode = "NonPersistent" -> deactivateRule(rs, r)
    [] OTHER -> rs

-----------------------------------------------------------------------------
(* RecognizerCallback.cpp: the thread that fetches the results.  Between   *)
(* its steps the script may change the rule.                               *)

Idle == [at |-> "idle", rule |-> None]
At(place, r) == [at |-> place, rule |-> r]

\* The engine hears a phrase of the rule (external).
Hear(r, confident) ==
  /\ listening
  /\ rules[r].on
  /\ r \in committed
  /\ Len(heard) < MaxHeard
  /\ heard' = Append(heard, [rule |-> r, confident |-> confident])
  /\ UNCHANGED <<rules, sapiVars, reco, muted, queue, requests, armed>>

\* A result that is not confident enough, or of a rule in ignore mode, is dropped.
GetResult ==
  /\ reco = Idle
  /\ heard # <<>>
  /\ LET result == Head(heard)
     IN reco' = IF rules[result.rule].state # "Ignore" /\ result.confident
                THEN At("check", result.rule) ELSE Idle
  /\ heard' = Tail(heard)
  /\ UNCHANGED <<rules, sapiVars, muted, queue, requests, armed>>

CheckRuleState ==
  /\ reco.at = "check"
  /\ reco' = IF ~muted /\ rules[reco.rule].state = "Active"
             THEN At("after", reco.rule) ELSE Idle
  /\ UNCHANGED <<rules, sapiVars, heard, muted, queue, requests, armed>>

AfterRecoEvent ==
  /\ reco.at = "after"
  /\ rules' = afterRecoEvent(rules, reco.rule)
  /\ armed' = IF rules[reco.rule].persistenceMode = "NonPersistent"
              THEN armed \ {reco.rule} ELSE armed
  /\ reco' = At("enqueue", reco.rule)
  /\ UNCHANGED <<sapiVars, heard, muted, queue, requests>>

\* Variant: the callback is enqueued only if the rule is still active.
EnqueueCallbackIfActive ==
  /\ reco.at = "enqueue"
  /\ Len(queue) < MaxQueued
  /\ queue' = IF rules[reco.rule].state = "Active" THEN Append(queue, reco.rule) ELSE queue
  /\ reco' = Idle
  /\ UNCHANGED <<rules, sapiVars, heard, muted, requests, armed>>

EnqueueCallback ==
  /\ reco.at = "enqueue"
  /\ Len(queue) < MaxQueued
  /\ queue' = Append(queue, reco.rule)
  /\ reco' = Idle
  /\ UNCHANGED <<rules, sapiVars, heard, muted, requests, armed>>

\* The simulator reports the mute key; the effect of its release is delayed.
Mute ==
  /\ muted' = ~muted
  /\ UNCHANGED <<rules, sapiVars, heard, reco, queue, requests, armed>>

FetchResults ==
  GetResult \/ CheckRuleState \/ AfterRecoEvent \/ EnqueueCallback

-----------------------------------------------------------------------------
(* The script's thread *)

\* The script's thread runs the callback, which triggers the voice command.
TriggerVoiceCommand ==
  /\ queue # <<>>
  /\ queue' = Tail(queue)
  /\ UNCHANGED <<rules, sapiVars, recoVars, requests, armed>>

\* An activation is what takes a rule to the state Active.
Activated(rs) ==
  {r \in Commands : rs[r].state = "Active" /\ rules[r].state # "Active"}

Request ==
  /\ requests < MaxRequests
  /\ requests' = requests + 1
  /\ UNCHANGED <<recoVars, queue>>

ChangeState(r) ==
  /\ Request
  /\ rules' \in {activateRule(rules, r), ignoreRule(rules, r),
                 deactivateRule(rules, r), disableRule(rules, r)}
  /\ armed' = armed \union Activated(rules')
  /\ UNCHANGED sapiVars

SetRulePersistence(r, mode) ==
  /\ Request
  /\ rules' = [rules EXCEPT ![r].persistenceMode = mode]
  /\ UNCHANGED <<sapiVars, armed>>

AddPhrases(r) ==
  /\ Request
  /\ rules' = [rules EXCEPT ![r].phrases = TRUE, ![r].grammar = TRUE]
  /\ grammarIsDirty' = TRUE
  /\ UNCHANGED <<committed, listening, wiped, armed>>

IsFree(d) == \A r \in Commands : rules[r].dummyRuleID # d

\* The first dummy phrases make the dummy rule.
AddDummyPhrases(r) ==
  /\ Request
  /\ LET dummy == rules[r].dummyRuleID
     IN \/ /\ dummy = None
           /\ rules[r].on => DummyWhileOn
           /\ \E d \in DummyRules :
                /\ IsFree(d)
                /\ rules' = [rules EXCEPT ![r].dummyRuleID = d,
                                          ![d] = NewRule("Ignore", TRUE)]
        \/ /\ dummy # None
           /\ rules' = [rules EXCEPT ![dummy].phrases = TRUE, ![dummy].grammar = TRUE]
  /\ grammarIsDirty' = TRUE
  /\ UNCHANGED <<committed, listening, wiped, armed>>

RemoveAllPhrases(r) ==
  /\ Request
  /\ rules' = [rules EXCEPT ![r].phrases = FALSE, ![r].grammar = FALSE]
  /\ wiped' = wiped \ {r}
  /\ grammarIsDirty' = TRUE
  /\ UNCHANGED <<committed, listening, armed>>

\* It is the rule itself that loses its phrases in the engine.
RemoveAllDummyPhrases(r) ==
  /\ rules[r].dummyRuleID # None
  /\ Request
  /\ rules' = [rules EXCEPT ![rules[r].dummyRuleID].phrases = FALSE, ![r].grammar = FALSE]
  /\ wiped' = wiped \union {r, rules[r].dummyRuleID}
  /\ grammarIsDirty' = TRUE
  /\ UNCHANGED <<committed, listening, armed>>

WithGrammar == {r \in Rules : rules[r].grammar}

\* The mutex is released before the engine is told (Recognizer.cpp:532): results are
\* fetched while it stops listening and commits, which neither reads nor changes.
ResetGrammar ==
  /\ Request
  /\ grammarIsDirty
  /\ grammarIsDirty' = FALSE
  /\ committed' = WithGrammar
  /\ listening' = TRUE
  /\ UNCHANGED <<rules, wiped, armed>>

PauseOrResume ==
  /\ Request
  /\ listening' = ~listening
  /\ UNCHANGED <<rules, committed, grammarIsDirty, wiped, armed>>

-----------------------------------------------------------------------------
(* The script has made its voice commands and reset the grammar. *)

Init ==
  /\ \E modes \in [Commands -> Persistence] :
       rules = [r \in Rules |->
         IF r \in Commands THEN NewRule(modes[r], TRUE) ELSE NewRule("Ignore", FALSE)]
  /\ committed = Commands
  /\ grammarIsDirty = FALSE
  /\ listening = TRUE
  /\ heard = <<>>
  /\ reco = Idle
  /\ muted = FALSE
  /\ queue = <<>>
  /\ requests = 0
  /\ armed = {}
  /\ wiped = {}

Next ==
  \/ \E r \in Rules, confident \in BOOLEAN : Hear(r, confident)
  \/ FetchResults
  \/ Mute
  \/ TriggerVoiceCommand
  \/ \E r \in Commands :
       \/ ChangeState(r)
       \/ AddPhrases(r)
       \/ AddDummyPhrases(r)
       \/ RemoveAllPhrases(r)
       \/ RemoveAllDummyPhrases(r)
       \/ \E mode \in Persistence : SetRulePersistence(r, mode)
  \/ ResetGrammar
  \/ PauseOrResume

Spec == Init /\ [][Next]_vars

(* The thread of the results and the script's thread each keep running:    *)
(* one handles messages, the other its loop, and none holds the mutex of   *)
(* the recognizer for longer than a step.                                  *)
FairSpec == Spec /\ WF_vars(FetchResults) /\ WF_vars(TriggerVoiceCommand)

-----------------------------------------------------------------------------
(* Properties *)

TypeOK ==
  /\ rules \in [Rules -> Rule]
  /\ committed \subseteq Rules
  /\ {grammarIsDirty, listening, muted} \subseteq BOOLEAN
  /\ heard \in Seq(Result)
  /\ Len(heard) <= MaxHeard
  /\ reco \in {Idle} \union [at: {"check", "after", "enqueue"}, rule: Rules]
  /\ queue \in Seq(Rules)
  /\ Len(queue) <= MaxQueued
  /\ requests \in 0..MaxRequests
  /\ armed \subseteq Commands
  /\ wiped \subseteq Rules

\* The state that is cached for the engine is the state of the rule, whichever
\* thread has changed it, and a dummy rule is switched synchronously with the
\* command it belongs to (VoiceCommand.lua:64).
EngineFollowsState ==
  /\ TypeOK
  /\ \A r \in Commands :
       /\ rules[r].on <=> rules[r].state \in {"Active", "Ignore"}
       /\ rules[r].dummyRuleID # None =>
            /\ rules[rules[r].dummyRuleID].on = rules[r].on
            /\ \A q \in Commands \ {r} : rules[q].dummyRuleID # rules[r].dummyRuleID

\* Once the grammar has been reset, the engine knows the phrases of exactly the
\* rules that have any (VoiceCommand.lua:107), but for those of commands whose
\* dummy phrases have been removed (Recognizer.cpp:493).
GrammarFollowsPhrases ==
  ~grammarIsDirty => \A r \in Rules \ wiped : r \in committed <=> rules[r].phrases

\* What the engine listens for is what the scripts have asked for, in states and phrases,
\* while either thread changes them.
EngineInStep == EngineFollowsState /\ GrammarFollowsPhrases

\* A voice command that is not persistent is recognized at most once for each
\* time it has been activated, although the script may deactivate and activate
\* it between any two steps of the other thread (VoiceCommand.lua:67).
OnceForEachActivation ==
  reco.at = "after" => reco.rule \in armed

\* Dummy phrases, which help the engine to tell phrases apart, never trigger
\* anything, although they are recognized like any other.
DummiesNeverTrigger ==
  \A i \in DOMAIN queue : queue[i] \in Commands

\* What is recognized triggers a command that was activated, and once only.
OnlyActivatedTrigger == OnceForEachActivation /\ DummiesNeverTrigger

\* The recognition of an active command is found active when it is fetched, unless the
\* script changes the command or the key mutes it in the meantime: no recognition is
\* under way that could do so itself.
HeardCommandsPass ==
  \A r \in Commands :
    (/\ heard # <<>> /\ Head(heard) = [rule |-> r, confident |-> TRUE]
     /\ reco = Idle /\ rules[r].state = "Active" /\ ~muted)
      ~> (reco = At("after", r) \/ rules[r].state # "Active" \/ muted)

\* From then on nothing takes it back, not even the change of state that the recognition
\* itself brings about, nor a queue that is full: its callback is enqueued.
PassedCommandsTrigger ==
  \A r \in Commands :
    reco.at \in {"after", "enqueue"} /\ reco.rule = r
      ~> reco = Idle /\ queue # <<>> /\ queue[Len(queue)] = r

\* A recognition of an active command is not lost on its way through the recognizer to
\* the script (RecognizerCallback.cpp:57), whatever the script does to the command.
HeardCommandsTrigger == HeardCommandsPass /\ PassedCommandsTrigger
=============================================================================
