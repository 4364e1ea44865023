--------------------------- MODULE ChecklistProofs ---------------------------
(***************************************************************************)
(* Proofs about checklists and the voice commands they suspend             *)
(* (Checklist.tla), for any commands, checklists and items.                *)
(***************************************************************************)
EXTENDS Checklist, TLAPS

-----------------------------------------------------------------------------
(* The inductive invariant: what the script's steps keep true of the record *)
(* they compute on, given the commands that were raced                      *)

Script ==
  [rules : [Commands -> V!Rule], current : Checklists \union {None}, item : Nat,
   at : {"idle", "response", "standby", "check"},
   event : Commands \union MenuActions \union {None},
   suspended : [Checklists -> BOOLEAN],
   vcStates : [Checklists -> [Others -> RuleState \union {None}]],
   wanted : [Others -> RuleState], failed : BOOLEAN]

RulesInv(rs) ==
  /\ rs \in [Commands -> V!Rule]
  /\ \A v \in Commands :
       rs[v].state \in RuleState /\ rs[v].persistenceMode = PersistenceOf[v]

Typed(s) == s \in Script /\ RulesInv(s.rules)

\* Of the checklists' own commands those in vs may be on.
OnlyOn(s, vs) == \A v \in Own : s.rules[v].state # "Inactive" => v \in vs

Restored(state) == IF state = None THEN "Inactive" ELSE state

\* A command that is suspended is off, and what has been saved of it, or else its state,
\* is what was wanted last.
Kept(s, R) ==
  /\ \A c \in Checklists : s.suspended[c] =>
       /\ s.current = c
       /\ \A v \in Others \ R :
            s.rules[v].state = "Inactive" /\ Restored(s.vcStates[c][v]) = s.wanted[v]
  /\ (\A c \in Checklists : ~s.suspended[c]) =>
       \A v \in Others \ R : s.rules[v].state = s.wanted[v]

\* It is, unless a checklist has thrown.
Keeps(s, R) == ~s.failed => Kept(s, R)

AwaitedIn(s) ==
  CASE s.at = "response" -> {standby, sayAgain, Item(s).response}
    [] s.at = "standby"  -> {resume}
    [] OTHER             -> {}

PlaceInv(s) ==
  /\ s.at = "idle" <=> s.current = None
  /\ s.current # None => s.item \in DOMAIN Items[s.current]
  /\ s.event \in AwaitedIn(s) \union MenuActions \union {None}
  /\ OnlyOn(s, IF s.current = None THEN {} ELSE Shared \union {Item(s).response})
  /\ ~s.failed => \A c \in Checklists : s.suspended[c] => s.at \in {"response", "check"}

ScriptInv(s, R) == Typed(s) /\ PlaceInv(s) /\ Keeps(s, R)

RecoInv ==
  /\ heard \in Seq([rule : Commands, confident : BOOLEAN])
  /\ reco.at # "idle" => reco.rule \in Commands

IInv ==
  /\ ScriptInv(State, raced) /\ RecoInv
  /\ created \subseteq Checklists \ {current}
  /\ raced \subseteq Others
  /\ inputs \in 0..MaxInputs

\* While a checklist is executed: what holds at every point between two of its waits.
Runs(s, R) ==
  /\ Typed(s)
  /\ s.current \in Checklists
  /\ s.item \in DOMAIN Items[s.current]
  /\ Keeps(s, R)

-----------------------------------------------------------------------------
(* The rules *)

LEMMA OwnCommands ==
  /\ Own \subseteq Commands /\ Others \subseteq Commands /\ Own \cap Others = {}
  /\ Shared \subseteq Own
  /\ None \notin Checklists /\ None # "Active" /\ None # "Ignore"
  /\ \A c \in Checklists : Trigger[c] \in Others
  BY ChecklistAssumption DEF Others, Own

LEMMA ItemsOf ==
  ASSUME NEW c \in Checklists
  PROVE  /\ 1 \in DOMAIN Items[c]
         /\ DOMAIN Items[c] = 1..Len(Items[c]) /\ Len(Items[c]) \in Nat
         /\ \A i \in DOMAIN Items[c] :
              Items[c][i].response \in Own \ Shared
<1>1. Items[c] \in Seq([response : Commands, check : Checks]) /\ Len(Items[c]) > 0
  BY ChecklistAssumption
<1>2. ASSUME NEW i \in DOMAIN Items[c] PROVE Items[c][i].response \in Own \ Shared
  <2>1. Items[c][i].response \in Responses(c)
    BY DEF Responses
  <2> QED
    BY <2>1, ChecklistAssumption DEF Own
<1> QED
  BY <1>1, <1>2

\* Setting a command to a state, whichever it was in.
LEMMA SetRuleIs ==
  ASSUME NEW rs, RulesInv(rs), NEW v \in Commands, NEW state \in RuleState
  PROVE  /\ RulesInv(SetRule(rs, v, state))
         /\ SetRule(rs, v, state)[v].state = state
         /\ \A w \in Commands : w # v => SetRule(rs, v, state)[w] = rs[w]
<1> DEFINE new == SetRule(rs, v, state)
           on == state # "Inactive"
<1>1. rs \in [Commands -> V!Rule] /\ rs[v] \in V!Rule /\ rs[v].dummyRuleID = None
      /\ rs[v].state # "Disabled"
  BY DEF RulesInv, V!Rule, RuleState
<1>2. V!changeRuleState(rs, v, state, on) = [rs EXCEPT ![v].state = state, ![v].on = on]
  BY <1>1 DEF V!changeRuleState
<1>3. new = IF rs[v].state = state THEN rs ELSE V!changeRuleState(rs, v, state, on)
  BY <1>1 DEF SetRule, RuleState, V!activateRule, V!ignoreRule, V!deactivateRule
<1>4. CASE rs[v].state = state
  BY <1>3, <1>4
<1>5. CASE rs[v].state # state
  <2>1. new = [rs EXCEPT ![v] = [rs[v] EXCEPT !.state = state, !.on = on]]
    BY <1>1, <1>2, <1>3, <1>5
  <2>2. [rs[v] EXCEPT !.state = state, !.on = on] \in V!Rule
        /\ [rs[v] EXCEPT !.state = state, !.on = on].state = state
        /\ [rs[v] EXCEPT !.state = state, !.on = on].persistenceMode = rs[v].persistenceMode
    BY <1>1 DEF V!Rule, V!RuleState, RuleState
  <2> HIDE DEF new
  <2> QED
    BY <1>1, <2>1, <2>2 DEF RulesInv, new
<1> QED
  BY <1>4, <1>5

LEMMA SetAllIs ==
  ASSUME NEW s, Typed(s), NEW vs, NEW state \in RuleState
  PROVE  \E rs : /\ RulesInv(rs)
                 /\ SetAll(s, vs, state) = [s EXCEPT !.rules = rs]
                 /\ \A v \in Commands :
                      rs[v].state = IF v \in vs THEN state ELSE s.rules[v].state
<1> DEFINE rs == [v \in Commands |->
                    IF v \in vs THEN SetRule(s.rules, v, state)[v] ELSE s.rules[v]]
<1>1. SetAll(s, vs, state) = [s EXCEPT !.rules = rs]
  BY DEF SetAll
<1>2. RulesInv(s.rules)
  BY DEF Typed
<1>3. ASSUME NEW v \in Commands
      PROVE  /\ rs[v] \in V!Rule /\ rs[v].state \in RuleState /\ rs[v].persistenceMode = PersistenceOf[v]
             /\ rs[v].state = IF v \in vs THEN state ELSE s.rules[v].state
  <2>1. CASE v \in vs
    <3>1. RulesInv(SetRule(s.rules, v, state)) /\ SetRule(s.rules, v, state)[v].state = state
      BY <1>2, SetRuleIs
    <3>2. rs[v] = SetRule(s.rules, v, state)[v]
      BY <2>1
    <3> HIDE DEF rs
    <3> QED
      BY <2>1, <3>1, <3>2 DEF RulesInv
  <2>2. CASE v \notin vs
    BY <1>2, <2>2 DEF RulesInv
  <2> QED
    BY <2>1, <2>2
<1>4. rs \in [Commands -> V!Rule]
  BY <1>3
<1> HIDE DEF rs
<1>5. RulesInv(rs)
  BY <1>3, <1>4 DEF RulesInv
<1>6. \A v \in Commands : rs[v].state = IF v \in vs THEN state ELSE s.rules[v].state
  BY <1>3
<1> QED
  BY <1>1, <1>5, <1>6, Zenon

\* All but the rules.
Same(s, r) ==
  /\ r.current = s.current /\ r.item = s.item /\ r.at = s.at /\ r.event = s.event
  /\ r.suspended = s.suspended /\ r.vcStates = s.vcStates
  /\ r.wanted = s.wanted /\ r.failed = s.failed

LEMMA SetAllFields ==
  ASSUME NEW s, Typed(s), NEW vs, NEW state \in RuleState
  PROVE  LET r == SetAll(s, vs, state) IN
         /\ Typed(r) /\ Same(s, r)
         /\ \A v \in Commands : r.rules[v].state = IF v \in vs THEN state ELSE s.rules[v].state
<1> DEFINE r == SetAll(s, vs, state)
<1>1. PICK rs : /\ RulesInv(rs) /\ r = [s EXCEPT !.rules = rs]
                /\ \A v \in Commands :
                     rs[v].state = IF v \in vs THEN state ELSE s.rules[v].state
  BY SetAllIs
<1>2. s \in Script /\ rs \in [Commands -> V!Rule]
  BY <1>1 DEF Typed, RulesInv
<1> HIDE DEF r
<1>3. r \in Script /\ r.rules = rs /\ Same(s, r)
  BY <1>1, <1>2 DEF Script, Same
<1> QED
  BY <1>1, <1>3 DEF Typed, r

\* The checklists' own commands can be switched in the midst of a checklist.
LEMMA OwnSwitched ==
  ASSUME NEW s, NEW R, Runs(s, R), NEW vs, vs \subseteq Own, NEW state \in RuleState,
         NEW r, r = SetAll(s, vs, state)
  PROVE  /\ Runs(r, R) /\ Same(s, r)
         /\ \A v \in Own : r.rules[v].state = IF v \in vs THEN state ELSE s.rules[v].state
<1>1. /\ Typed(r) /\ Same(s, r)
      /\ \A v \in Commands : r.rules[v].state = IF v \in vs THEN state ELSE s.rules[v].state
  BY SetAllFields DEF Runs
<1>2. \A v \in Others : r.rules[v].state = s.rules[v].state
  BY <1>1, OwnCommands
<1>3. Keeps(s, R) => Keeps(r, R)
  BY <1>1, <1>2 DEF Kept, Keeps, Same
<1>4. Runs(r, R)
  BY <1>1, <1>3 DEF Runs, Same
<1> QED
  BY <1>1, <1>4, OwnCommands

\* The wait for a response begins with the events of the last one forgotten.
LEMMA AwaitResponseInv ==
  ASSUME NEW s, NEW R, Runs(s, R), OnlyOn(s, Shared \union {Item(s).response})
  PROVE  ScriptInv(awaitResponse(s), R) /\ awaitResponse(s).current = s.current
<1> DEFINE vs == {restart, standby, sayAgain, Item(s).response}
<1>0. PICK q : q = SetAll(s, vs, "Active")
  OBVIOUS
<1> DEFINE r == [q EXCEPT !.at = "response", !.event = None]
<1>1. vs \subseteq Shared \union {Item(s).response} /\ vs \subseteq Own
  <2>1. Item(s).response \in Own
    BY ItemsOf DEF Item, Runs
  <2> QED
    BY <2>1, OwnCommands DEF Shared
<1>2. awaitResponse(s) = r
  BY <1>0 DEF awaitResponse
<1> HIDE DEF vs
<1>3. /\ Runs(q, R) /\ Same(s, q)
      /\ \A v \in Own : q.rules[v].state = IF v \in vs THEN "Active" ELSE s.rules[v].state
  BY <1>0, <1>1, OwnSwitched DEF RuleState
<1>4. q \in Script
  BY <1>3 DEF Runs, Typed
<1>5. /\ r \in Script /\ r.rules = q.rules /\ r.current = s.current /\ r.item = s.item
      /\ r.at = "response" /\ r.event = None /\ r.suspended = q.suspended
      /\ r.vcStates = q.vcStates /\ r.wanted = q.wanted /\ r.failed = q.failed
      /\ r.current = q.current
  BY <1>3, <1>4 DEF Script, Same
<1> HIDE DEF r
<1>6. OnlyOn(r, Shared \union {Item(s).response})
  BY <1>1, <1>3, <1>5 DEF OnlyOn
<1>7. Item(r) = Item(s)
  BY <1>5 DEF Item
<1>8. s.current # None /\ s.item \in DOMAIN Items[s.current]
  BY OwnCommands DEF Runs
<1>9. PlaceInv(r)
  BY <1>5, <1>6, <1>7, <1>8 DEF PlaceInv
<1>10. Typed(r) /\ Keeps(r, R)
  BY <1>3, <1>5 DEF Runs, Typed, Kept, Keeps
<1> QED
  BY <1>2, <1>5, <1>9, <1>10 DEF ScriptInv

LEMMA AwaitResumeInv ==
  ASSUME NEW s, NEW R, Runs(s, R), OnlyOn(s, Shared \union {Item(s).response}),
         ~s.failed => \A c \in Checklists : ~s.suspended[c]
  PROVE  ScriptInv(awaitResume(s), R) /\ awaitResume(s).current = s.current
<1> DEFINE vs == {resume, restart}
<1>0. PICK q : q = SetAll(s, vs, "Active")
  OBVIOUS
<1> DEFINE r == [q EXCEPT !.at = "standby", !.event = None]
<1>1. vs \subseteq Shared /\ vs \subseteq Own
  BY OwnCommands DEF Shared
<1>2. awaitResume(s) = r
  BY <1>0 DEF awaitResume
<1> HIDE DEF vs
<1>3. /\ Runs(q, R) /\ Same(s, q)
      /\ \A v \in Own : q.rules[v].state = IF v \in vs THEN "Active" ELSE s.rules[v].state
  BY <1>0, <1>1, OwnSwitched DEF RuleState
<1>4. q \in Script
  BY <1>3 DEF Runs, Typed
<1>5. /\ r \in Script /\ r.rules = q.rules /\ r.current = s.current /\ r.item = s.item
      /\ r.at = "standby" /\ r.event = None /\ r.suspended = q.suspended
      /\ r.vcStates = q.vcStates /\ r.wanted = q.wanted /\ r.failed = q.failed
      /\ r.current = q.current
  BY <1>3, <1>4 DEF Script, Same
<1> HIDE DEF r
<1>6. OnlyOn(r, Shared \union {Item(s).response})
  BY <1>1, <1>3, <1>5 DEF OnlyOn
<1>7. Item(r) = Item(s)
  BY <1>5 DEF Item
<1>8. s.current # None /\ s.item \in DOMAIN Items[s.current]
  BY OwnCommands DEF Runs
<1>9. ~r.failed => \A c \in Checklists : ~r.suspended[c]
  BY <1>3, <1>5 DEF Same
<1>10. PlaceInv(r)
  BY <1>5, <1>6, <1>7, <1>8, <1>9 DEF PlaceInv
<1>11. Typed(r) /\ Keeps(r, R)
  BY <1>3, <1>5 DEF Runs, Typed, Kept, Keeps
<1> QED
  BY <1>2, <1>5, <1>10, <1>11 DEF ScriptInv

\* A checklist that is no longer executed leaves nothing suspended, unless it has thrown.
LEMMA ResetCurrInv ==
  ASSUME NEW s, NEW R, Typed(s), Keeps(s, R), OnlyOn(s, {}),
         ~s.failed => \A c \in Checklists : ~s.suspended[c]
  PROVE  ScriptInv(resetCurrChecklist(s), R) /\ resetCurrChecklist(s).current = None
<1> DEFINE r == [s EXCEPT !.current = None, !.at = "idle", !.event = None]
<1>1. resetCurrChecklist(s) = r
  BY DEF resetCurrChecklist
<1>2. s \in Script
  BY DEF Typed
<1>3. /\ r \in Script /\ r.rules = s.rules /\ r.current = None
      /\ r.at = "idle" /\ r.event = None /\ r.suspended = s.suspended
      /\ r.vcStates = s.vcStates /\ r.wanted = s.wanted /\ r.failed = s.failed
  BY <1>2 DEF Script
<1> HIDE DEF r
<1>4. PlaceInv(r)
  BY <1>3 DEF PlaceInv, OnlyOn
<1>5. Typed(r) /\ Keeps(r, R)
  BY <1>3 DEF Typed, Kept, Keeps
<1> QED
  BY <1>1, <1>3, <1>4, <1>5 DEF ScriptInv

\* What a step of a checklist leaves alone besides the other commands.
Follows(s, r) ==
  /\ r.current = s.current /\ r.item = s.item /\ r.failed = s.failed
  /\ \A v \in Own : r.rules[v].state = s.rules[v].state

LEMMA SuspendKeeps ==
  ASSUME NEW s, NEW R, Runs(s, R), NEW r, r = suspendVoiceCommands(s)
  PROVE  Runs(r, R) /\ Follows(s, r)
<1>1. CASE s.suspended[s.current]
  BY <1>1 DEF suspendVoiceCommands, Follows
<1>2. CASE ~s.suspended[s.current]
  <2> DEFINE c == s.current
             saved == Saved(s.rules)
  <2>0. PICK q : q = SetAll(s, Others, "Inactive")
    OBVIOUS
  <2>1. r = [q EXCEPT !.vcStates[c] = saved, !.suspended[c] = TRUE]
    BY <1>2, <2>0 DEF suspendVoiceCommands
  <2>2. /\ Typed(q) /\ Same(s, q)
        /\ \A v \in Commands : q.rules[v].state = IF v \in Others THEN "Inactive" ELSE s.rules[v].state
    BY <2>0, SetAllFields DEF Runs, RuleState
  <2>3. s \in Script /\ q \in Script /\ c \in Checklists
    BY <2>2 DEF Runs, Typed
  <2>4. /\ saved \in [Others -> RuleState \union {None}]
        /\ \A v \in Others : Restored(saved[v]) = s.rules[v].state
    BY <2>3, OwnCommands DEF Saved, Restored, Runs, Typed, RulesInv, RuleState
  <2> HIDE DEF saved, c
  <2>5. s.suspended \in [Checklists -> BOOLEAN]
        /\ s.vcStates \in [Checklists -> [Others -> RuleState \union {None}]]
    BY <2>3 DEF Script
  <2>6. /\ r \in Script /\ r.rules = q.rules /\ r.current = s.current /\ r.item = s.item
        /\ r.failed = s.failed /\ r.wanted = s.wanted
        /\ r.suspended = [s.suspended EXCEPT ![c] = TRUE]
        /\ r.vcStates = [s.vcStates EXCEPT ![c] = saved]
    <3>1. /\ [s.vcStates EXCEPT ![c] = saved] \in [Checklists -> [Others -> RuleState \union {None}]]
          /\ [s.suspended EXCEPT ![c] = TRUE] \in [Checklists -> BOOLEAN]
      BY <2>3, <2>4, <2>5
    <3>2. r = [q EXCEPT !.vcStates = [s.vcStates EXCEPT ![c] = saved],
                        !.suspended = [s.suspended EXCEPT ![c] = TRUE]]
      BY <2>1, <2>2, <2>3 DEF Same, Script
    <3> QED
      BY <2>2, <2>3, <3>1, <3>2 DEF Script, Same
  <2>7. ASSUME ~s.failed PROVE Kept(r, R)
    <3>1. Kept(s, R)
      BY <2>7 DEF Runs, Keeps
    <3>2. \A d \in Checklists : ~s.suspended[d]
      BY <1>2, <3>1 DEF Kept, Keeps
    <3>3. \A v \in Others \ R : s.rules[v].state = s.wanted[v]
      BY <3>1, <3>2 DEF Kept, Keeps
    <3>4. r.suspended[c] /\ \A d \in Checklists : r.suspended[d] => d = c
      BY <2>3, <2>6, <2>5, <3>2
    <3>5. r.vcStates[c] = saved
      BY <2>3, <2>6, <2>5
    <3>6. \A v \in Others \ R :
            r.rules[v].state = "Inactive" /\ Restored(r.vcStates[c][v]) = r.wanted[v]
      BY <2>2, <2>4, <2>6, <3>3, <3>5, OwnCommands
    <3> QED
      BY <2>3, <2>6, <3>4, <3>6 DEF Kept, Keeps, c
  <2>8. Typed(r)
    BY <2>2, <2>6 DEF Typed
  <2>9. \A v \in Own : r.rules[v].state = s.rules[v].state
    BY <2>2, <2>6, OwnCommands
  <2> QED
    BY <2>6, <2>7, <2>8, <2>9 DEF Runs, Follows, Keeps
<1> QED
  BY <1>1, <1>2

LEMMA ResumeKeeps ==
  ASSUME NEW s, NEW R, Runs(s, R), NEW r, r = resumeVoiceCommands(s)
  PROVE  /\ Runs(r, R) /\ Follows(s, r)
         /\ ~r.failed => \A c \in Checklists : ~r.suspended[c]
<1>1. CASE ~s.suspended[s.current]
  <2>1. r = s
    BY <1>1 DEF resumeVoiceCommands
  <2>2. ~s.failed => \A c \in Checklists : ~s.suspended[c]
    BY <1>1 DEF Runs, Kept, Keeps
  <2> QED
    BY <2>1, <2>2 DEF Follows
<1>2. CASE s.suspended[s.current]
  <2> DEFINE c == s.current
             saved(state) == {v \in Others : s.vcStates[c][v] = state}
             q == [s EXCEPT !.suspended[c] = FALSE]
  <2>0. PICK a : a = SetAll(q, saved("Active"), "Active")
    OBVIOUS
  <2>1. r = SetAll(a, saved("Ignore"), "Ignore")
    BY <1>2, <2>0 DEF resumeVoiceCommands
  <2>2. s \in Script /\ c \in Checklists /\ RulesInv(s.rules)
    BY DEF Runs, Typed
  <2>3. /\ q \in Script /\ q.rules = s.rules /\ q.current = s.current /\ q.item = s.item
        /\ q.failed = s.failed /\ q.wanted = s.wanted
        /\ q.suspended = [s.suspended EXCEPT ![c] = FALSE]
    BY <2>2 DEF Script
  <2>4. s.suspended \in [Checklists -> BOOLEAN]
        /\ s.vcStates \in [Checklists -> [Others -> RuleState \union {None}]]
        /\ s.wanted \in [Others -> RuleState]
    BY <2>2 DEF Script
  <2>5. Typed(q)
    BY <2>2, <2>3 DEF Typed
  <2> HIDE DEF q
  <2>6. /\ Typed(a) /\ Same(q, a)
        /\ \A v \in Commands :
             a.rules[v].state = IF v \in saved("Active") THEN "Active" ELSE q.rules[v].state
    BY <2>0, <2>5, SetAllFields DEF RuleState
  <2>7. /\ Typed(r) /\ Same(a, r)
        /\ \A v \in Commands :
             r.rules[v].state = IF v \in saved("Ignore") THEN "Ignore" ELSE a.rules[v].state
    BY <2>1, <2>6, SetAllFields DEF RuleState
  <2>8. /\ r.current = s.current /\ r.item = s.item /\ r.failed = s.failed
        /\ r.suspended = q.suspended /\ r.wanted = s.wanted
    BY <2>3, <2>6, <2>7 DEF Same
  <2>9. \A v \in Own : r.rules[v].state = s.rules[v].state
    BY <2>3, <2>6, <2>7, OwnCommands
  <2>10. ASSUME ~s.failed
         PROVE  Kept(r, R) /\ \A d \in Checklists : ~r.suspended[d]
    <3>1. Kept(s, R)
      BY <2>10 DEF Runs, Keeps
    <3>2. \A d \in Checklists : ~r.suspended[d]
      BY <2>2, <2>3, <2>4, <2>8, <3>1 DEF Kept, Keeps
    <3>3. ASSUME NEW v \in Others \ R PROVE r.rules[v].state = r.wanted[v]
      <4>1. s.rules[v].state = "Inactive" /\ Restored(s.vcStates[c][v]) = s.wanted[v]
        BY <1>2, <2>2, <3>1 DEF Kept, Keeps
      <4>2. s.vcStates[c][v] \in RuleState \union {None} /\ v \in Commands
        BY <2>2, <2>4, OwnCommands
      <4>3. r.rules[v].state = IF s.vcStates[c][v] = "Ignore" THEN "Ignore"
                               ELSE IF s.vcStates[c][v] = "Active" THEN "Active"
                               ELSE s.rules[v].state
        BY <2>3, <2>6, <2>7, <4>2
      <4> QED
        BY <2>8, <4>1, <4>2, <4>3, OwnCommands DEF Restored, RuleState
    <3> QED
      BY <3>2, <3>3 DEF Kept, Keeps
  <2> QED
    BY <2>7, <2>8, <2>9, <2>10 DEF Runs, Follows, Keeps
<1> QED
  BY <1>1, <1>2

\* What the script computes in two parts.
LEMMA ThenIs ==
  ASSUME NEW s
  PROVE  /\ Then(s, awaitResume) = awaitResume(s)
         /\ Then(s, awaitResponse) = awaitResponse(s)
         /\ Then(s, resumeVoiceCommands) = resumeVoiceCommands(s)
         /\ Then(s, suspendVoiceCommands) = suspendVoiceCommands(s)
         /\ Then(s, Complete) = Complete(s)
  BY DEF Then

-----------------------------------------------------------------------------
(* How an item, and a checklist, ends *)

LEMMA CompleteInv ==
  ASSUME NEW s, NEW R, Runs(s, R), OnlyOn(s, Shared)
  PROVE  ScriptInv(Complete(s), R) /\ Complete(s).current = None
<1>1. PICK a : a = SetAll(s, Shared, "Inactive")
  OBVIOUS
<1>2. PICK b : b = resumeVoiceCommands(a)
  OBVIOUS
<1>3. Complete(s) = resetCurrChecklist(b)
  BY <1>1, <1>2, ThenIs DEF Complete
<1>4. /\ Runs(a, R) /\ Same(s, a)
      /\ \A v \in Own : a.rules[v].state = IF v \in Shared THEN "Inactive" ELSE s.rules[v].state
  BY <1>1, OwnCommands, OwnSwitched DEF RuleState
<1>5. /\ Runs(b, R) /\ Follows(a, b)
      /\ ~b.failed => \A c \in Checklists : ~b.suspended[c]
  BY <1>2, <1>4, ResumeKeeps
<1>6. OnlyOn(b, {})
  BY <1>4, <1>5 DEF OnlyOn, Follows
<1> QED
  BY <1>3, <1>5, <1>6, ResetCurrInv DEF Runs

LEMMA ThrowInv ==
  ASSUME NEW s, NEW R, Runs(s, R), OnlyOn(s, Shared)
  PROVE  ScriptInv(Throw(s), R) /\ Throw(s).current = None
<1>1. PICK a : a = SetAll(s, Shared, "Inactive")
  OBVIOUS
<1>2. PICK b : b = [a EXCEPT !.failed = TRUE]
  OBVIOUS
<1>3. Throw(s) = resetCurrChecklist(b)
  BY <1>1, <1>2 DEF Throw
<1>4. /\ Runs(a, R) /\ Same(s, a)
      /\ \A v \in Own : a.rules[v].state = IF v \in Shared THEN "Inactive" ELSE s.rules[v].state
  BY <1>1, OwnCommands, OwnSwitched DEF RuleState
<1>5. b \in Script /\ b.rules = a.rules /\ b.failed
  BY <1>2, <1>4 DEF Runs, Typed, Script
<1>6. OnlyOn(b, {}) /\ Typed(b)
  BY <1>4, <1>5 DEF OnlyOn, Runs, Typed
<1> QED
  BY <1>3, <1>5, <1>6, ResetCurrInv DEF Keeps

\* A checklist begins, or begins again.
LEMMA BeginInv ==
  ASSUME NEW s, NEW R, NEW c \in Checklists, Typed(s), s.current \in {None, c},
         Keeps(s, R), OnlyOn(s, Shared)
  PROVE  ScriptInv(Begin(s, c), R) /\ Begin(s, c).current = c
<1>1. PICK a : a = [s EXCEPT !.current = c, !.item = 1]
  OBVIOUS
<1>2. PICK b : b = suspendVoiceCommands(a)
  OBVIOUS
<1>3. Begin(s, c) = awaitResponse(b)
  BY <1>1, <1>2, ThenIs DEF Begin
<1>4. /\ a \in Script /\ a.rules = s.rules /\ a.current = c /\ a.item = 1
      /\ a.suspended = s.suspended /\ a.vcStates = s.vcStates
      /\ a.wanted = s.wanted /\ a.failed = s.failed
  BY <1>1 DEF Typed, Script
<1>5. Keeps(s, R) => Keeps(a, R)
  BY <1>4, OwnCommands DEF Kept, Keeps
<1>6. Runs(a, R)
  BY <1>4, <1>5, ItemsOf DEF Runs, Typed
<1>7. Runs(b, R) /\ Follows(a, b)
  BY <1>2, <1>6, SuspendKeeps
<1>8. OnlyOn(b, Shared \union {Item(b).response})
  BY <1>4, <1>7 DEF OnlyOn, Follows
<1> QED
  BY <1>3, <1>4, <1>7, <1>8, AwaitResponseInv DEF Follows

LEMMA ExecuteItemInv ==
  ASSUME NEW s, NEW R, Runs(s, R), OnlyOn(s, Shared), NEW i \in Nat \ {0}
  PROVE  ScriptInv(ExecuteItem(s, i), R) /\ ExecuteItem(s, i).current \in {None, s.current}
<1>1. DOMAIN Items[s.current] = 1..Len(Items[s.current]) /\ Len(Items[s.current]) \in Nat
  BY ItemsOf DEF Runs
<1>2. CASE i > Len(Items[s.current])
  BY <1>2, CompleteInv DEF ExecuteItem
<1>3. CASE ~(i > Len(Items[s.current]))
  <2>1. PICK a : a = [s EXCEPT !.item = i]
    OBVIOUS
  <2>2. ExecuteItem(s, i) = awaitResponse(a)
    BY <1>3, <2>1, ThenIs DEF ExecuteItem
  <2>3. /\ a \in Script /\ a.rules = s.rules /\ a.current = s.current /\ a.item = i
        /\ a.suspended = s.suspended /\ a.vcStates = s.vcStates
        /\ a.wanted = s.wanted /\ a.failed = s.failed
    BY <2>1 DEF Runs, Typed, Script
  <2>4. i \in DOMAIN Items[s.current]
    BY <1>1, <1>3
  <2>5. Runs(a, R)
    BY <2>3, <2>4 DEF Runs, Typed, Kept, Keeps
  <2>6. OnlyOn(a, Shared \union {Item(a).response})
    BY <2>3 DEF OnlyOn
  <2> QED
    BY <2>2, <2>3, <2>5, <2>6, AwaitResponseInv
<1> QED
  BY <1>2, <1>3

\* What a wish about another command leaves alone.
Obeys(s, r) ==
  /\ Follows(s, r)
  /\ r.at = s.at /\ r.event = s.event /\ r.suspended = s.suspended

\* A wish about another command is fulfilled at once, or when the commands are resumed.
LEMMA AskKeeps ==
  ASSUME NEW s, NEW R, Typed(s), Keeps(s, R),
         NEW v \in Others, NEW state \in RuleState, NEW r, r = Ask(s, v, state)
  PROVE  /\ Typed(r) /\ Obeys(s, r) /\ Keeps(r, R)
         /\ ~onVcStateChange(s, v) => Keeps(r, R \ {v})
<1>1. PICK a : a = [s EXCEPT !.wanted[v] = state]
  OBVIOUS
<1>2. r = SetState(a, v, state)
  BY <1>1 DEF Ask, Then
<1>3. s \in Script /\ RulesInv(s.rules) /\ v \in Commands
  BY OwnCommands DEF Typed
<1>4. /\ s.wanted \in [Others -> RuleState] /\ s.suspended \in [Checklists -> BOOLEAN]
      /\ s.vcStates \in [Checklists -> [Others -> RuleState \union {None}]]
  BY <1>3 DEF Script
<1>5. [s.wanted EXCEPT ![v] = state] \in [Others -> RuleState]
  BY <1>4
<1>6. /\ a \in Script /\ Typed(a) /\ a.rules = s.rules /\ a.current = s.current /\ a.item = s.item
      /\ a.at = s.at /\ a.event = s.event /\ a.suspended = s.suspended
      /\ a.vcStates = s.vcStates /\ a.failed = s.failed
      /\ a.wanted = [s.wanted EXCEPT ![v] = state]
  BY <1>1, <1>3, <1>5 DEF Script, Typed
<1>7. onVcStateChange(a, v) <=> onVcStateChange(s, v)
  BY <1>6 DEF onVcStateChange
<1>8. CASE onVcStateChange(s, v)
  <2> DEFINE c == s.current
             saved == [s.vcStates[c] EXCEPT ![v] = state]
  <2>1. c \in Checklists /\ s.suspended[c]
    BY <1>3, <1>8 DEF onVcStateChange, Script
  <2>2. r = [a EXCEPT !.vcStates[c][v] = state]
    BY <1>2, <1>6, <1>7, <1>8 DEF SetState
  <2>3. /\ saved \in [Others -> RuleState \union {None}]
        /\ saved[v] = state /\ \A w \in Others : w # v => saved[w] = s.vcStates[c][w]
    BY <1>4, <2>1
  <2>4. r = [a EXCEPT !.vcStates = [s.vcStates EXCEPT ![c] = saved]]
    BY <1>6, <2>1, <2>2 DEF Script
  <2> HIDE DEF c, saved
  <2>5. [s.vcStates EXCEPT ![c] = saved] \in [Checklists -> [Others -> RuleState \union {None}]]
    BY <1>4, <2>1, <2>3
  <2>6. /\ r \in Script /\ r.rules = s.rules /\ r.current = s.current /\ r.item = s.item
        /\ r.at = s.at /\ r.event = s.event /\ r.suspended = s.suspended
        /\ r.vcStates = [s.vcStates EXCEPT ![c] = saved] /\ r.failed = s.failed
        /\ r.wanted = [s.wanted EXCEPT ![v] = state]
    BY <1>6, <2>4, <2>5 DEF Script
  <2>7. /\ r.vcStates[c] = saved
        /\ \A w \in Others : r.wanted[w] = IF w = v THEN state ELSE s.wanted[w]
    BY <1>4, <2>1, <2>6
  <2>8. ASSUME ~s.failed PROVE Kept(r, R)
    <3>1. \A d \in Checklists : s.suspended[d] => d = c
      BY <2>1, <2>8 DEF Kept, Keeps, c
    <3>2. \A w \in Others \ R :
            s.rules[w].state = "Inactive" /\ Restored(s.vcStates[c][w]) = s.wanted[w]
      BY <2>1, <2>8 DEF Kept, Keeps
    <3>3. Restored(state) = state
      BY OwnCommands DEF Restored, RuleState
    <3>4. \A w \in Others \ R : Restored(r.vcStates[c][w]) = r.wanted[w]
      BY <2>3, <2>7, <3>2, <3>3
    <3> QED
      BY <2>1, <2>6, <3>1, <3>2, <3>4 DEF Kept, Keeps, c
  <2> QED
    BY <1>3, <1>8, <2>6, <2>8 DEF Typed, Keeps, Obeys, Follows
<1>9. CASE ~onVcStateChange(s, v)
  <2>1. PICK rs : rs = SetRule(s.rules, v, state)
    OBVIOUS
  <2>2. r = [a EXCEPT !.rules = rs]
    BY <1>2, <1>6, <1>7, <1>9, <2>1 DEF SetState
  <2>3. RulesInv(rs) /\ rs[v].state = state /\ \A w \in Commands : w # v => rs[w] = s.rules[w]
    BY <1>3, <2>1, SetRuleIs
  <2>4. rs \in [Commands -> V!Rule]
    BY <2>3 DEF RulesInv
  <2>5. /\ r \in Script /\ r.rules = rs /\ r.current = s.current /\ r.item = s.item
        /\ r.at = s.at /\ r.event = s.event /\ r.suspended = s.suspended
        /\ r.vcStates = s.vcStates /\ r.failed = s.failed
        /\ r.wanted = [s.wanted EXCEPT ![v] = state]
    BY <1>6, <2>2, <2>4 DEF Script
  <2>6. \A w \in Others : r.wanted[w] = IF w = v THEN state ELSE s.wanted[w]
    BY <1>4, <2>5
  <2>7. \A w \in Others : rs[w].state = IF w = v THEN state ELSE s.rules[w].state
    BY <2>3, OwnCommands
  <2>8. ASSUME ~s.failed PROVE Kept(r, R) /\ Kept(r, R \ {v})
    <3>1. \A d \in Checklists : ~s.suspended[d]
      BY <1>9, <2>8, OwnCommands DEF Kept, Keeps, onVcStateChange
    <3>2. \A w \in Others \ R : s.rules[w].state = s.wanted[w]
      BY <2>8, <3>1 DEF Kept, Keeps
    <3> QED
      BY <2>5, <2>6, <2>7, <3>1, <3>2 DEF Kept, Keeps
  <2>9. \A w \in Own : r.rules[w].state = s.rules[w].state
    BY <2>3, <2>5, OwnCommands
  <2> QED
    BY <1>9, <2>3, <2>5, <2>8, <2>9 DEF Typed, Keeps, Obeys, Follows
<1> QED
  BY <1>8, <1>9

\* What follows an item, whose response is off by now.
LEMMA HandleResultInv ==
  ASSUME NEW s, NEW R, Runs(s, R), OnlyOn(s, Shared), NEW res
  PROVE  /\ ScriptInv(HandleResult(s, res), R)
         /\ HandleResult(s, res).current \in {None, s.current}
<1>1. s.item \in Nat \ {0} /\ s.current \in Checklists /\ Typed(s)
  BY ItemsOf DEF Runs
<1>2. CASE res = "checklist_reset"
  <2>1. HandleResult(s, res) = Begin(s, s.current)
    BY <1>2 DEF HandleResult
  <2>2. ScriptInv(Begin(s, s.current), R) /\ Begin(s, s.current).current = s.current
    BY <1>1, BeginInv DEF Runs
  <2> QED
    BY <2>1, <2>2
<1>3. CASE res = "checklist_cancel"
  <2>0. PICK v : v = Trigger[s.current]
    OBVIOUS
  <2>1. PICK a : a = Ask(s, v, "Active")
    OBVIOUS
  <2>2. HandleResult(s, res) = Complete(a)
    BY <1>3, <2>0, <2>1, ThenIs DEF HandleResult
  <2>3. /\ Typed(s) /\ Keeps(s, R)
        /\ v \in Others /\ "Active" \in RuleState
    BY <1>1, <2>0, OwnCommands DEF Runs, RuleState
  <2>4. Typed(a) /\ Obeys(s, a) /\ Keeps(a, R)
    BY <2>1, <2>3, AskKeeps
  <2>5. Runs(a, R) /\ OnlyOn(a, Shared) /\ a.current = s.current
    BY <2>4 DEF Runs, OnlyOn, Obeys, Follows
  <2> QED
    BY <2>2, <2>5, CompleteInv
<1>4. CASE res = "checklist_skip"
  BY <1>4, CompleteInv DEF HandleResult
<1>5. CASE res \in {"checklist_continue", "item_skip"}
  <2>1. HandleResult(s, res) = ExecuteItem(s, s.item + 1)
    BY <1>5 DEF HandleResult
  <2> QED
    BY <1>1, <2>1, ExecuteItemInv
<1>6. CASE res = "checklist_repeat_prev" /\ s.item > 1
  <2>1. HandleResult(s, res) = ExecuteItem(s, s.item - 1)
    BY <1>6 DEF HandleResult
  <2>2. s.item - 1 \in Nat \ {0}
    BY <1>1, <1>6
  <2> QED
    BY <2>1, <2>2, ExecuteItemInv
<1>7. CASE /\ res \notin {"checklist_reset", "checklist_cancel", "checklist_skip",
                          "checklist_continue", "item_skip"}
           /\ ~(res = "checklist_repeat_prev" /\ s.item > 1)
  <2>1. HandleResult(s, res) = Throw(s)
    BY <1>7 DEF HandleResult
  <2> QED
    BY <2>1, ThrowInv
<1> QED
  BY <1>2, <1>3, <1>4, <1>5, <1>6, <1>7

LEMMA ItemDoneInv ==
  ASSUME NEW s, NEW R, Runs(s, R), OnlyOn(s, Shared \union {Item(s).response}), NEW res
  PROVE  /\ ScriptInv(ItemDone(s, res), R)
         /\ ItemDone(s, res).current \in {None, s.current}
<1>1. PICK a : a = SetAll(s, {Item(s).response}, "Inactive")
  OBVIOUS
<1>2. ItemDone(s, res) = HandleResult(a, res)
  BY <1>1 DEF ItemDone, Then
<1>3. Item(s).response \in Own
  BY ItemsOf DEF Item, Runs
<1>4. /\ Runs(a, R) /\ Same(s, a)
      /\ \A v \in Own : a.rules[v].state = IF v \in {Item(s).response} THEN "Inactive"
                                           ELSE s.rules[v].state
  BY <1>1, <1>3, OwnSwitched DEF RuleState
<1>5. OnlyOn(a, Shared) /\ a.current = s.current
  BY <1>4 DEF OnlyOn, Same
<1> QED
  BY <1>2, <1>4, <1>5, HandleResultInv

LEMMA OnStbyInv ==
  ASSUME NEW s, NEW R, Runs(s, R), OnlyOn(s, Shared \union {Item(s).response})
  PROVE  ScriptInv(onStby(s), R) /\ onStby(s).current = s.current
<1>1. PICK vs : vs = {standby, Item(s).response}
  OBVIOUS
<1>2. PICK a : a = SetAll(s, vs, "Ignore")
  OBVIOUS
<1>3. PICK b : b = resumeVoiceCommands(a)
  OBVIOUS
<1>4. onStby(s) = awaitResume(b)
  BY <1>1, <1>2, <1>3, ThenIs DEF onStby
<1>5. vs \subseteq Own /\ vs \subseteq Shared \union {Item(s).response}
  <2>1. Item(s).response \in Own
    BY ItemsOf DEF Item, Runs
  <2> QED
    BY <1>1, <2>1, OwnCommands DEF Shared
<1>6. /\ Runs(a, R) /\ Same(s, a)
      /\ \A v \in Own : a.rules[v].state = IF v \in vs THEN "Ignore" ELSE s.rules[v].state
  BY <1>2, <1>5, OwnSwitched DEF RuleState
<1>7. /\ Runs(b, R) /\ Follows(a, b)
      /\ ~b.failed => \A c \in Checklists : ~b.suspended[c]
  BY <1>3, <1>6, ResumeKeeps
<1>8. b.current = s.current /\ Item(b) = Item(s)
  BY <1>6, <1>7 DEF Follows, Same, Item
<1>9. OnlyOn(b, Shared \union {Item(b).response})
  BY <1>5, <1>6, <1>7, <1>8 DEF OnlyOn, Follows
<1> QED
  BY <1>4, <1>7, <1>8, <1>9, AwaitResumeInv

-----------------------------------------------------------------------------
(* The steps of the script *)

LEMMA BecomesIs ==
  ASSUME NEW s \in Script, Becomes(s)
  PROVE  State' = s /\ rules' = s.rules /\ current' = s.current
  BY DEF Becomes, State, Script

\* What a step of the script's thread has to show.
LEMMA ScriptStep ==
  ASSUME IInv, NEW s, Becomes(s), ScriptInv(s, raced), s.current \in {None, current},
         UnchangedByScript, created' = created
  PROVE  IInv'
<1>1. State' = s /\ current' = s.current
  BY BecomesIs DEF ScriptInv, Typed
<1>2. raced' = raced /\ heard' = heard /\ reco' = reco /\ inputs' = inputs
  BY DEF UnchangedByScript, recoVars
<1>3. ScriptInv(State, raced)'
  BY <1>1, <1>2
<1>4. created' \subseteq Checklists \ {current'}
  BY <1>1, OwnCommands DEF IInv
<1> QED
  BY <1>2, <1>3, <1>4 DEF IInv, RecoInv

LEMMA StateFields ==
  /\ State.rules = rules /\ State.current = current /\ State.item = item /\ State.at = at
  /\ State.event = event /\ State.suspended = suspended /\ State.vcStates = vcStates
  /\ State.wanted = wanted /\ State.failed = failed
  BY DEF State

LEMMA ExecuteKept ==
  ASSUME IInv, NEW c \in Checklists, execute(c)
  PROVE  IInv'
<1>1. ScriptInv(State, raced) /\ Typed(State)
  BY DEF IInv, ScriptInv
<1>2. created' = created \ {c} /\ c # current
  BY DEF execute, IInv
<1>3. ASSUME NEW s, Becomes(s), ScriptInv(s, raced), s.current \in {current, c} PROVE IInv'
  <2>1. State' = s /\ current' = s.current
    BY <1>3, BecomesIs DEF ScriptInv, Typed
  <2>2. raced' = raced /\ heard' = heard /\ reco' = reco /\ inputs' = inputs
    BY DEF execute, UnchangedByScript, recoVars
  <2>3. ScriptInv(State, raced)'
    BY <1>3, <2>1, <2>2
  <2>4. created' \subseteq Checklists \ {current'}
    BY <1>2, <1>3, <2>1 DEF IInv
  <2> QED
    BY <2>2, <2>3, <2>4 DEF IInv, RecoInv
<1>4. CASE current = None
  <2>1. Becomes(Begin(State, c))
    BY <1>4 DEF execute
  <2>2. OnlyOn(State, Shared)
    BY <1>1, <1>4, StateFields DEF ScriptInv, PlaceInv, OnlyOn
  <2>3. ScriptInv(Begin(State, c), raced) /\ Begin(State, c).current = c
    BY <1>1, <1>4, <2>2, BeginInv, StateFields DEF ScriptInv
  <2> QED
    BY <1>3, <2>1, <2>3
<1>5. CASE current # None
  <2>0. PICK trigger : trigger = Trigger[c]
    OBVIOUS
  <2>1. PICK a : a = Ask(State, trigger, "Active")
    OBVIOUS
  <2>2. PICK b : b = SetAll(a, Shared, "Inactive")
    OBVIOUS
  <2>3. Becomes(b)
    BY <1>5, <2>0, <2>1, <2>2 DEF execute
  <2>4. /\ Typed(State) /\ current \in Checklists
        /\ trigger \in Others /\ "Active" \in RuleState /\ "Inactive" \in RuleState
        /\ Keeps(State, raced)
    BY <1>1, <1>5, <2>0, OwnCommands, StateFields DEF ScriptInv, Typed, Script, RuleState
  <2>5. /\ Typed(a) /\ a.current = current /\ a.item = item /\ a.at = at /\ a.event = event
        /\ a.suspended = suspended /\ a.failed = failed
        /\ \A w \in Own : a.rules[w].state = rules[w].state
        /\ Keeps(a, raced)
    <3>1. Typed(a) /\ Obeys(State, a) /\ Keeps(a, raced)
      BY <2>1, <2>4, AskKeeps
    <3> QED
      BY <3>1, StateFields DEF Obeys, Follows
  <2>6. Runs(a, raced)
    BY <1>1, <1>5, <2>4, <2>5, StateFields DEF Runs, ScriptInv, PlaceInv
  <2>7. /\ Runs(b, raced) /\ Same(a, b)
        /\ \A v \in Own : b.rules[v].state = IF v \in Shared THEN "Inactive" ELSE a.rules[v].state
    BY <2>2, <2>4, <2>6, OwnCommands, OwnSwitched
  <2>8. /\ b.current = current /\ b.item = item /\ b.at = at /\ b.event = event
        /\ b.suspended = suspended /\ b.failed = failed
    BY <2>5, <2>7 DEF Same
  <2>9. Item(b) = Item(State) /\ AwaitedIn(b) = AwaitedIn(State)
    BY <2>8, StateFields DEF Item, AwaitedIn
  <2>10. OnlyOn(b, Shared \union {Item(State).response})
    BY <1>1, <1>5, <2>5, <2>7, StateFields DEF ScriptInv, PlaceInv, OnlyOn
  <2>11. PlaceInv(b)
    BY <1>1, <1>5, <2>8, <2>9, <2>10, StateFields DEF ScriptInv, PlaceInv
  <2>12. ScriptInv(b, raced)
    BY <2>7, <2>11 DEF ScriptInv, Runs
  <2> QED
    BY <1>3, <2>3, <2>8, <2>12
<1> QED
  BY <1>4, <1>5

\* Where a coroutine waits, a checklist is executed.
LEMMA Waiting ==
  ASSUME IInv, at # "idle"
  PROVE  /\ Runs(State, raced) /\ State.current = current
         /\ OnlyOn(State, Shared \union {Item(State).response})
         /\ Item(State).response \in Own
<1>1. ScriptInv(State, raced) /\ Typed(State) /\ current # None
  BY StateFields DEF IInv, ScriptInv, PlaceInv
<1>2. current \in Checklists
  BY <1>1, StateFields DEF Typed, Script
<1>3. Runs(State, raced)
  BY <1>1, <1>2, StateFields DEF Runs, ScriptInv, PlaceInv
<1>4. Item(State).response \in Own
  BY <1>3, ItemsOf DEF Item, Runs
<1> QED
  BY <1>1, <1>3, <1>4, StateFields DEF ScriptInv, PlaceInv

LEMMA ResponseGivenKept ==
  ASSUME IInv, ResponseGiven
  PROVE  IInv'
<1> DEFINE response == Item(State).response
<1>1. /\ Runs(State, raced) /\ State.current = current
      /\ OnlyOn(State, Shared \union {response}) /\ response \in Own
      /\ UnchangedByScript /\ created' = created
  BY Waiting DEF ResponseGiven, Waits
<1>2. PICK s : s = SetAll(State, {response}, "Inactive")
  OBVIOUS
<1>3. \/ Becomes(ItemDone(s, "checklist_continue"))
      \/ Becomes(awaitResponse(s))
      \/ Becomes([SetAll(s, {restart}, "Inactive") EXCEPT !.at = "check", !.event = None])
  BY <1>2 DEF ResponseGiven
<1> HIDE DEF response
<1>4. /\ Runs(s, raced) /\ Same(State, s)
      /\ \A v \in Own : s.rules[v].state = IF v \in {response} THEN "Inactive"
                                           ELSE State.rules[v].state
  BY <1>1, <1>2, OwnSwitched DEF RuleState
<1>5. OnlyOn(s, Shared) /\ s.current = current
  BY <1>1, <1>4 DEF OnlyOn, Same
<1>6. OnlyOn(s, Shared \union {Item(s).response})
  BY <1>5 DEF OnlyOn
<1>7. CASE Becomes(ItemDone(s, "checklist_continue"))
  BY <1>1, <1>4, <1>5, <1>6, <1>7, ItemDoneInv, ScriptStep
<1>8. CASE Becomes(awaitResponse(s))
  BY <1>1, <1>4, <1>5, <1>6, <1>8, AwaitResponseInv, ScriptStep
<1>9. CASE Becomes([SetAll(s, {restart}, "Inactive") EXCEPT !.at = "check", !.event = None])
  <2>1. PICK q : q = SetAll(s, {restart}, "Inactive")
    OBVIOUS
  <2>2. PICK r : r = [q EXCEPT !.at = "check", !.event = None]
    OBVIOUS
  <2>3. Becomes(r)
    BY <1>9, <2>1, <2>2
  <2>4. restart \in Own /\ restart \in Shared
    BY OwnCommands DEF Shared
  <2>5. /\ Runs(q, raced) /\ Same(s, q)
        /\ \A v \in Own : q.rules[v].state = IF v \in {restart} THEN "Inactive" ELSE s.rules[v].state
    BY <1>4, <2>1, <2>4, OwnSwitched DEF RuleState
  <2>6. /\ r \in Script /\ r.rules = q.rules /\ r.current = q.current /\ r.item = q.item
        /\ r.at = "check" /\ r.event = None /\ r.suspended = q.suspended
        /\ r.vcStates = q.vcStates /\ r.wanted = q.wanted /\ r.failed = q.failed
    BY <2>2, <2>5 DEF Runs, Typed, Script
  <2>7. OnlyOn(r, Shared \union {Item(r).response})
    BY <1>5, <2>5, <2>6 DEF OnlyOn
  <2>8. r.current # None /\ r.item \in DOMAIN Items[r.current] /\ r.current = current
    BY <1>5, <2>5, <2>6, OwnCommands DEF Runs, Same
  <2>9. PlaceInv(r)
    BY <2>6, <2>7, <2>8 DEF PlaceInv
  <2>10. ScriptInv(r, raced)
    BY <2>5, <2>6, <2>9 DEF ScriptInv, Runs, Typed, Kept, Keeps
  <2> QED
    BY <1>1, <2>3, <2>8, <2>10, ScriptStep
<1> QED
  BY <1>3, <1>7, <1>8, <1>9

LEMMA CoroutineKept ==
  ASSUME IInv, Coroutine
  PROVE  IInv'
<1>1. ASSUME NEW c \in Checklists, execute(c) PROVE IInv'
  BY <1>1, ExecuteKept
<1>2. ASSUME Waits("response") \/ Waits("standby") \/ Waits("check")
      PROVE  /\ Runs(State, raced) /\ State.current = current
             /\ OnlyOn(State, Shared \union {Item(State).response})
             /\ UnchangedByScript /\ created' = created
  BY <1>2, Waiting DEF Waits
<1>3. ASSUME Waits("response") \/ Waits("standby") \/ Waits("check"),
             NEW res, Becomes(ItemDone(State, res))
      PROVE  IInv'
  BY <1>2, <1>3, ItemDoneInv, ScriptStep
<1>4. ASSUME Waits("response") \/ Waits("standby") \/ Waits("check"),
             Becomes(awaitResponse(State))
      PROVE  IInv'
  BY <1>2, <1>4, AwaitResponseInv, ScriptStep
<1>5. CASE AskedAgain
  BY <1>4, <1>5 DEF AskedAgain
<1>6. CASE StandBy
  <2>1. Becomes(onStby(State))
    BY <1>6 DEF StandBy
  <2> QED
    BY <1>2, <1>6, <2>1, OnStbyInv, ScriptStep DEF StandBy
<1>7. CASE CommonEvent
  BY <1>3, <1>7 DEF CommonEvent
<1>8. CASE Resumed
  <2>1. PICK s : s = suspendVoiceCommands(State)
    OBVIOUS
  <2>2. Becomes(awaitResponse(s)) /\ Waits("standby")
    BY <1>8, <2>1, ThenIs DEF Resumed
  <2>3. Runs(s, raced) /\ Follows(State, s)
    BY <1>2, <2>1, <2>2, SuspendKeeps
  <2>4. OnlyOn(s, Shared \union {Item(s).response}) /\ s.current = current
    BY <1>2, <2>2, <2>3 DEF OnlyOn, Follows, Item
  <2> QED
    BY <1>2, <2>2, <2>3, <2>4, AwaitResponseInv, ScriptStep
<1>9. CASE StandbyTimesOut
  BY <1>3, <1>9 DEF StandbyTimesOut
<1>10. CASE CheckEnds
  BY <1>3, <1>4, <1>10 DEF CheckEnds
<1>11. CASE CheckInterrupted
  BY <1>3, <1>11 DEF CheckInterrupted
<1> QED
  BY <1>1, <1>5, <1>6, <1>7, <1>8, <1>9, <1>10, <1>11, ResponseGivenKept DEF Coroutine

-----------------------------------------------------------------------------
(* The recognizer, the user and the other parts of the script *)

\* A step that changes nothing the script's steps compute on.
LEMMA StateKept ==
  ASSUME IInv, RecoInv', State' = State, raced' = raced, created' = created,
         current' = current, inputs' \in 0..MaxInputs
  PROVE  IInv'
<1>1. ScriptInv(State, raced)'
  BY DEF IInv
<1> QED
  BY <1>1 DEF IInv

LEMMA InputBound ==
  ASSUME IInv, Input
  PROVE  inputs' \in 0..MaxInputs
  BY BoundAssumption DEF IInv, Input

\* An event may end the wait for it.
LEMMA EventKept ==
  ASSUME IInv, NEW e \in AwaitedIn(State) \union MenuActions \union {event},
         at # "idle" \/ e = event, event' = e,
         UNCHANGED <<rules, current, item, at, suspended, vcStates, wanted, failed, raced>>,
         RecoInv', created' \subseteq Checklists \ {current}, inputs' \in 0..MaxInputs
  PROVE  IInv'
<1> DEFINE s == [State EXCEPT !.event = e]
<1>1. State \in Script /\ PlaceInv(State) /\ Typed(State) /\ Keeps(State, raced)
  BY DEF IInv, ScriptInv, Typed
<1>2. event \in Commands \union MenuActions \union {None}
  BY <1>1, StateFields DEF Script
<1>3. AwaitedIn(State) \subseteq Commands
  <2>1. CASE at = "response"
    BY <2>1, Waiting, OwnCommands, StateFields DEF AwaitedIn, Shared
  <2>2. CASE at # "response"
    BY <2>2, OwnCommands, StateFields DEF AwaitedIn, Shared
  <2> QED
    BY <2>1, <2>2
<1>4. /\ State'.rules = State.rules /\ State'.current = State.current
      /\ State'.item = State.item /\ State'.at = State.at /\ State'.event = e
      /\ State'.suspended = State.suspended /\ State'.vcStates = State.vcStates
      /\ State'.wanted = State.wanted /\ State'.failed = State.failed
  BY DEF State
<1>5. State' = s
  BY DEF State
<1>6. s \in Script
  BY <1>1, <1>2, <1>3 DEF Script
<1> HIDE DEF s
<1>7. PICK t : t = State'
  OBVIOUS
<1>8. Item(t) = Item(State) /\ AwaitedIn(t) = AwaitedIn(State)
  BY <1>4, <1>7 DEF Item, AwaitedIn
<1>9. event \in AwaitedIn(State) \union MenuActions \union {None}
  BY <1>1, StateFields DEF PlaceInv
<1>10. PlaceInv(t)
  BY <1>1, <1>4, <1>7, <1>8, <1>9 DEF PlaceInv, OnlyOn
<1>11. Typed(t) /\ Keeps(t, raced)
  BY <1>1, <1>4, <1>5, <1>6, <1>7 DEF Typed, Keeps, Kept
<1>12. ScriptInv(State, raced)'
  BY <1>7, <1>10, <1>11 DEF ScriptInv
<1> QED
  BY <1>12 DEF IInv

LEMMA TriggerKept ==
  ASSUME IInv, TriggerVoiceCommand
  PROVE  IInv'
<1> DEFINE v == Head(queue)
<1>1. /\ UNCHANGED <<rules, current, item, at, suspended, vcStates, wanted, failed, raced>>
      /\ inputs' = inputs /\ heard' = heard /\ reco' = reco
  BY DEF TriggerVoiceCommand, V!TriggerVoiceCommand, V!recoVars
<1>2. created' = created \union {c \in Checklists : Trigger[c] = v /\ current # c}
  BY DEF TriggerVoiceCommand
<1>3. created' \subseteq Checklists \ {current}
  BY <1>2 DEF IInv
<1>4. Awaited = AwaitedIn(State)
  BY StateFields DEF Awaited, AwaitedIn
<1>5. at = "idle" => Awaited = {}
  BY DEF Awaited
<1>6. \/ event' = event
      \/ at # "idle" /\ event' = "checklist_reset"
      \/ at # "idle" /\ event' = v /\ v \in Awaited
  BY <1>5 DEF TriggerVoiceCommand, Signal
<1>7. RecoInv' /\ inputs' \in 0..MaxInputs
  BY <1>1 DEF IInv, RecoInv
<1> HIDE DEF v
<1>8. PICK e : e = event'
  OBVIOUS
<1>9. /\ e \in AwaitedIn(State) \union MenuActions \union {event}
      /\ at # "idle" \/ e = event
  BY <1>4, <1>6, <1>8 DEF MenuActions
<1> QED
  BY <1>1, <1>3, <1>7, <1>8, <1>9, EventKept

LEMMA MenuKept ==
  ASSUME IInv, NEW action \in MenuActions, Menu(action)
  PROVE  IInv'
<1>1. /\ UNCHANGED <<rules, current, item, at, suspended, vcStates, wanted, failed, raced>>
      /\ created' = created /\ heard' = heard /\ reco' = reco /\ Input /\ at # "idle"
  BY DEF Menu, recoVars
<1>2. PICK e : e = event'
  OBVIOUS
<1>3. e \in AwaitedIn(State) \union MenuActions \union {event}
  BY <1>2 DEF Menu, Signal
<1>4. RecoInv' /\ inputs' \in 0..MaxInputs /\ created' \subseteq Checklists \ {current}
  BY <1>1, InputBound DEF IInv, RecoInv
<1> QED
  BY <1>1, <1>2, <1>3, <1>4, EventKept

LEMMA HearKept ==
  ASSUME IInv, NEW v \in Commands, Hear(v)
  PROVE  IInv'
<1>1. /\ rules' = rules /\ scriptVars' = scriptVars /\ wanted' = wanted /\ created' = created
      /\ raced' = raced /\ Input /\ reco' = reco
      /\ heard' = Append(heard, [rule |-> v, confident |-> TRUE])
  BY DEF Hear, V!Hear
<1>2. State' = State /\ current' = current
  BY <1>1 DEF State, scriptVars
<1>3. [rule |-> v, confident |-> TRUE] \in [rule : Commands, confident : BOOLEAN]
  OBVIOUS
<1>4. RecoInv'
  BY <1>1, <1>3 DEF IInv, RecoInv
<1> QED
  BY <1>1, <1>2, <1>4, InputBound, StateKept

LEMMA FetchKept ==
  ASSUME IInv, V!GetResult \/ V!CheckRuleState \/ V!EnqueueCallback,
         UNCHANGED <<scriptVars, created, wanted, raced, inputs>>
  PROVE  IInv'
<1>1. rules' = rules
  BY DEF V!GetResult, V!CheckRuleState, V!EnqueueCallback
<1>2. State' = State /\ current' = current
  BY <1>1 DEF State, scriptVars
<1>3. RecoInv'
  <2>1. CASE V!GetResult
    <3> DEFINE Heard == [rule : Commands, confident : BOOLEAN]
    <3>1. heard # <<>> /\ heard \in Seq(Heard)
      BY <2>1 DEF V!GetResult, IInv, RecoInv
    <3> HIDE DEF Heard
    <3>2. Head(heard) \in Heard /\ Tail(heard) \in Seq(Heard)
      BY <3>1
    <3>3. reco' \in {[at |-> "check", rule |-> Head(heard).rule],
                     [at |-> "idle", rule |-> None]} /\ heard' = Tail(heard)
      BY <2>1 DEF V!GetResult, V!At, V!Idle
    <3> QED
      BY <3>2, <3>3 DEF RecoInv, Heard
  <2>2. CASE V!CheckRuleState
    <3>1. /\ reco.at = "check" /\ heard' = heard
          /\ reco' \in {[at |-> "after", rule |-> reco.rule], [at |-> "idle", rule |-> None]}
      BY <2>2 DEF V!CheckRuleState, V!At, V!Idle
    <3> QED
      BY <3>1 DEF IInv, RecoInv
  <2>3. CASE V!EnqueueCallback
    BY <2>3 DEF V!EnqueueCallback, V!recoVars, V!Idle, IInv, RecoInv
  <2> QED
    BY <2>1, <2>2, <2>3
<1>4. inputs' \in 0..MaxInputs /\ raced' = raced /\ created' = created
  BY DEF IInv
<1> QED
  BY <1>2, <1>3, <1>4, StateKept

\* What the recognizer does to a command it has recognized.
LEMMA AfterRecoEventIs ==
  ASSUME IInv, AfterRecoEvent, NEW v, v = reco.rule, NEW rs, rs = rules'
  PROVE  /\ v \in Commands /\ RulesInv(rs)
         /\ \A w \in Commands : w # v => rs[w] = rules[w]
         /\ rs[v].state = IF PersistenceOf[v] = "Ignore" THEN "Ignore"
                          ELSE IF PersistenceOf[v] = "Persistent" THEN rules[v].state
                          ELSE "Inactive"
<1>1. v \in Commands /\ reco.at = "after" /\ rs = V!afterRecoEvent(rules, v)
  BY DEF IInv, RecoInv, AfterRecoEvent, V!AfterRecoEvent
<1>2. RulesInv(rules)
  BY StateFields DEF IInv, ScriptInv, Typed
<1>3. rules[v].persistenceMode = PersistenceOf[v]
      /\ PersistenceOf[v] \in {"NonPersistent", "Persistent", "Ignore"}
  BY <1>1, <1>2, PersistenceAssumption DEF RulesInv
<1>4. ASSUME NEW state \in RuleState, rs = SetRule(rules, v, state)
      PROVE  RulesInv(rs) /\ rs[v].state = state /\ \A w \in Commands : w # v => rs[w] = rules[w]
  BY <1>1, <1>2, <1>4, SetRuleIs
<1>5. CASE PersistenceOf[v] = "Ignore"
  <2>1. rs = SetRule(rules, v, "Ignore")
    BY <1>1, <1>3, <1>5 DEF V!afterRecoEvent, SetRule
  <2>2. RulesInv(rs) /\ rs[v].state = "Ignore" /\ \A w \in Commands : w # v => rs[w] = rules[w]
    BY <1>4, <2>1 DEF RuleState
  <2> QED
    BY <1>1, <1>5, <2>2
<1>6. CASE PersistenceOf[v] = "NonPersistent"
  <2>1. rs = SetRule(rules, v, "Inactive")
    BY <1>1, <1>3, <1>6 DEF V!afterRecoEvent, SetRule
  <2>2. RulesInv(rs) /\ rs[v].state = "Inactive" /\ \A w \in Commands : w # v => rs[w] = rules[w]
    BY <1>4, <2>1 DEF RuleState
  <2> QED
    BY <1>1, <1>6, <2>2
<1>7. CASE PersistenceOf[v] = "Persistent"
  <2>1. rs = rules
    BY <1>1, <1>3, <1>7 DEF V!afterRecoEvent
  <2> QED
    BY <1>1, <1>2, <1>7, <2>1
<1> QED
  BY <1>3, <1>5, <1>6, <1>7

LEMMA AfterRecoEventKept ==
  ASSUME IInv, AfterRecoEvent
  PROVE  IInv'
<1> DEFINE v == reco.rule
<1>0. PICK rs : rs = rules'
  OBVIOUS
<1>1. /\ v \in Commands /\ RulesInv(rs)
      /\ \A w \in Commands : w # v => rs[w] = rules[w]
      /\ rs[v].state = IF PersistenceOf[v] = "Ignore" THEN "Ignore"
                       ELSE IF PersistenceOf[v] = "Persistent" THEN rules[v].state
                       ELSE "Inactive"
  BY <1>0, AfterRecoEventIs
<1>2. /\ scriptVars' = scriptVars /\ created' = created /\ inputs' = inputs
      /\ heard' = heard /\ reco' = [at |-> "enqueue", rule |-> v]
  BY DEF AfterRecoEvent, V!AfterRecoEvent, V!At, V!recoVars
<1>3. /\ State \in Script /\ Typed(State) /\ PlaceInv(State) /\ Keeps(State, raced)
      /\ raced \subseteq Others
  BY DEF IInv, ScriptInv, Typed
<1>4. PICK t : t = State'
  OBVIOUS
<1>5. /\ t.rules = rs /\ t.current = current /\ t.item = item /\ t.at = at /\ t.event = event
      /\ t.suspended = suspended /\ t.vcStates = vcStates /\ t.wanted = wanted'
      /\ t.failed = failed
  BY <1>0, <1>2, <1>4 DEF State, scriptVars
<1>6. wanted \in [Others -> RuleState] /\ rs \in [Commands -> V!Rule]
  BY <1>1, <1>3, StateFields DEF Script, RulesInv
<1>7. /\ \/ /\ v \in Others /\ PersistenceOf[v] # "Persistent"
            /\ wanted' = [wanted EXCEPT ![v] =
                 IF PersistenceOf[v] = "Ignore" THEN "Ignore" ELSE "Inactive"]
            /\ raced' = IF \E c \in Checklists : suspended[c] THEN raced \union {v} ELSE raced
         \/ /\ ~(v \in Others /\ PersistenceOf[v] # "Persistent")
            /\ wanted' = wanted /\ raced' = raced
  BY DEF AfterRecoEvent
<1> HIDE DEF v
<1>8. wanted' \in [Others -> RuleState] /\ raced' \subseteq Others
  BY <1>3, <1>6, <1>7 DEF RuleState
<1>9. Typed(t)
  <2>1. t = [rules |-> rs, current |-> current, item |-> item, at |-> at, event |-> event,
             suspended |-> suspended, vcStates |-> vcStates, wanted |-> wanted',
             failed |-> failed]
    BY <1>0, <1>2, <1>4 DEF State, scriptVars
  <2>2. t \in Script
    BY <1>3, <1>6, <1>8, <2>1, StateFields DEF Script
  <2> QED
    BY <1>1, <1>5, <2>2 DEF Typed
<1>10. PlaceInv(t)
  <2>1. Item(t) = Item(State) /\ AwaitedIn(t) = AwaitedIn(State)
    BY <1>5, StateFields DEF Item, AwaitedIn
  <2>2. \A w \in Own : rs[w].state # "Inactive" => rules[w].state # "Inactive"
    BY <1>1, OwnCommands, PersistenceAssumption
  <2> QED
    BY <1>3, <1>5, <2>1, <2>2, StateFields DEF PlaceInv, OnlyOn
<1>11. ASSUME ~failed PROVE Kept(t, raced')
  <2>1. Kept(State, raced)
    BY <1>3, <1>11, StateFields DEF Keeps
  <2>2. \A w \in Others : w \in Commands
    BY OwnCommands
  <2>3. CASE v \in Others /\ PersistenceOf[v] # "Persistent"
    <3>1. \A w \in Others : w # v => wanted'[w] = wanted[w]
      BY <1>6, <1>7, <2>3
    <3>2. rs[v].state = wanted'[v]
      BY <1>1, <1>6, <1>7, <2>3
    <3>3. CASE \E c \in Checklists : suspended[c]
      <4>1. raced' = raced \union {v}
        BY <1>7, <2>3, <3>3
      <4> QED
        BY <1>1, <1>5, <2>1, <2>2, <3>1, <3>3, <4>1, StateFields DEF Kept
    <3>4. CASE ~\E c \in Checklists : suspended[c]
      <4>1. raced' = raced
        BY <1>7, <2>3, <3>4
      <4> QED
        BY <1>1, <1>5, <2>1, <2>2, <3>1, <3>2, <3>4, <4>1, StateFields DEF Kept
    <3> QED
      BY <3>3, <3>4
  <2>4. CASE ~(v \in Others /\ PersistenceOf[v] # "Persistent")
    <3>1. \A w \in Others : rs[w].state = rules[w].state
      BY <1>1, <2>2, <2>4
    <3> QED
      BY <1>5, <1>7, <2>1, <2>4, <3>1, StateFields DEF Kept
  <2> QED
    BY <2>3, <2>4
<1>12. ScriptInv(State, raced)'
  <2>1. Keeps(t, raced')
    BY <1>5, <1>11 DEF Keeps
  <2> QED
    BY <1>4, <1>9, <1>10, <2>1 DEF ScriptInv
<1>13. RecoInv'
  BY <1>1, <1>2 DEF IInv, RecoInv
<1>14. created' \subseteq Checklists \ {current'} /\ inputs' \in 0..MaxInputs
  BY <1>2 DEF IInv, scriptVars
<1> QED
  BY <1>8, <1>12, <1>13, <1>14 DEF IInv

\* A wish is no longer disturbed by a race once a new one is fulfilled.
LEMMA RequestKept ==
  ASSUME IInv, NEW v \in Others, NEW state \in RuleState, Request(v, state)
  PROVE  IInv'
<1>1. PICK a : a = Ask(State, v, state)
  OBVIOUS
<1>2. /\ Becomes(a) /\ Input /\ heard' = heard /\ reco' = reco /\ created' = created
      /\ raced' = IF onVcStateChange(State, v) THEN raced ELSE raced \ {v}
  BY <1>1 DEF Request, recoVars
<1>3. Typed(State) /\ PlaceInv(State) /\ Keeps(State, raced) /\ raced \subseteq Others
  BY DEF IInv, ScriptInv
<1>4. /\ Typed(a) /\ Obeys(State, a) /\ Keeps(a, raced)
      /\ ~onVcStateChange(State, v) => Keeps(a, raced \ {v})
  BY <1>1, <1>3, AskKeeps
<1>5. Keeps(a, raced')
  BY <1>2, <1>4
<1>6. Item(a) = Item(State) /\ AwaitedIn(a) = AwaitedIn(State)
  BY <1>4 DEF Obeys, Follows, Item, AwaitedIn
<1>7. PlaceInv(a)
  BY <1>3, <1>4, <1>6 DEF PlaceInv, OnlyOn, Obeys, Follows
<1>8. State' = a /\ current' = current
  BY <1>2, <1>4, BecomesIs, StateFields DEF Typed, Obeys, Follows
<1>9. ScriptInv(State, raced)'
  BY <1>4, <1>5, <1>7, <1>8 DEF ScriptInv
<1>10. RecoInv' /\ inputs' \in 0..MaxInputs /\ raced' \subseteq Others
       /\ created' \subseteq Checklists \ {current'}
  BY <1>2, <1>3, <1>8, InputBound DEF IInv, RecoInv
<1> QED
  BY <1>9, <1>10 DEF IInv

-----------------------------------------------------------------------------
(* The theorems *)

LEMMA InitIInv ==
  ASSUME Init
  PROVE  IInv
<1>1. Available \subseteq Others
  BY OwnCommands DEF Available
<1>2. ASSUME NEW v \in Commands
      PROVE  /\ rules[v] \in V!Rule /\ rules[v].persistenceMode = PersistenceOf[v]
             /\ rules[v].state = IF v \in Available THEN "Active" ELSE "Inactive"
  <2>1. PersistenceOf[v] \in V!Persistence
    BY PersistenceAssumption DEF V!Persistence
  <2>2. rules[v] = IF v \in Available
                   THEN [V!NewRule(PersistenceOf[v], TRUE) EXCEPT !.state = "Active", !.on = TRUE]
                   ELSE V!NewRule(PersistenceOf[v], TRUE)
    BY DEF Init
  <2>3. rules[v] = [state |-> IF v \in Available THEN "Active" ELSE "Inactive",
                    persistenceMode |-> PersistenceOf[v], on |-> IF v \in Available THEN TRUE ELSE FALSE,
                    dummyRuleID |-> None, phrases |-> TRUE, grammar |-> TRUE]
    <3>1. CASE v \in Available
      BY <2>2, <3>1 DEF V!NewRule
    <3>2. CASE v \notin Available
      BY <2>2, <3>2 DEF V!NewRule
    <3> QED
      BY <3>1, <3>2
  <2> QED
    BY <2>1, <2>3 DEF V!Rule, V!RuleState
<1>3. RulesInv(rules)
  <2>1. rules \in [Commands -> V!Rule]
    <3>1. rules = [v \in Commands |-> rules[v]]
      BY DEF Init
    <3> QED
      BY <1>2, <3>1
  <2> QED
    BY <1>2, <2>1 DEF RulesInv, RuleState
<1>4. /\ current = None /\ item = 1 /\ at = "idle" /\ event = None /\ created = {}
      /\ suspended = [c \in Checklists |-> FALSE]
      /\ vcStates = [c \in Checklists |-> [v \in Others |-> None]]
      /\ wanted = [v \in Others |-> IF v \in Available THEN "Active" ELSE "Inactive"]
      /\ raced = {} /\ failed = FALSE /\ inputs = 0 /\ heard = <<>> /\ reco.at = "idle"
  BY DEF Init, V!Idle
<1>5. State \in Script
  BY <1>3, <1>4 DEF State, Script, RuleState, RulesInv
<1>6. \A v \in Others : rules[v].state = wanted[v]
  BY <1>2, <1>4, OwnCommands
<1>7. Keeps(State, raced)
  BY <1>4, <1>6, StateFields DEF Keeps, Kept
<1>8. PlaceInv(State)
  BY <1>1, <1>2, <1>4, OwnCommands, StateFields DEF PlaceInv, OnlyOn
<1> QED
  BY <1>3, <1>4, <1>5, <1>7, <1>8, BoundAssumption, StateFields
     DEF IInv, ScriptInv, Typed, RecoInv

LEMMA NextIInv ==
  ASSUME IInv, [Next]_vars
  PROVE  IInv'
<1>1. CASE UNCHANGED vars
  <2>1. /\ State' = State /\ raced' = raced /\ created' = created /\ current' = current
        /\ inputs' = inputs /\ heard' = heard /\ reco' = reco
    BY <1>1 DEF vars, recoVars, scriptVars, State
  <2> QED
    BY <2>1, StateKept DEF IInv, RecoInv
<1>2. CASE RecognizerThread
  BY <1>2, AfterRecoEventKept, FetchKept DEF RecognizerThread
<1>3. ASSUME NEW v \in Others, NEW state \in {"Active", "Ignore", "Inactive"}, Request(v, state)
      PROVE  IInv'
  BY <1>3, RequestKept DEF RuleState
<1> QED
  BY <1>1, <1>2, <1>3, CoroutineKept, TriggerKept, HearKept, MenuKept DEF Next

LEMMA Invariance == Spec => []IInv
<1>1. Init => IInv
  BY InitIInv
<1>2. IInv /\ [Next]_vars => IInv'
  BY NextIInv
<1> QED
  BY <1>1, <1>2, PTL DEF Spec

\* The other commands are in the state they were last put in while no checklist suspends
\* them, for any checklists, items and commands, except those recognized in the midst of
\* being suspended, and those a checklist that has thrown has left suspended.
THEOREM Restoration == Spec => []StatesRestored
<1>1. IInv => StatesRestored
  BY StateFields DEF IInv, ScriptInv, Keeps, Kept, StatesRestored
<1> QED
  BY <1>1, Invariance, PTL

\* The other commands are suspended, and then off, only while the checklist waits for a
\* response or checks one.
THEOREM Suspension == Spec => []OthersSuspended
<1>1. IInv => OthersSuspended
  BY StateFields DEF IInv, ScriptInv, PlaceInv, Keeps, Kept, OthersSuspended
<1> QED
  BY <1>1, Invariance, PTL

\* For any checklists and items, the other commands are off while a checklist needs them
\* to be and back in their states afterwards.
THEOREM SuspensionEnds == Spec => []SuspendedAndRestored
<1>1. StatesRestored /\ OthersSuspended => SuspendedAndRestored
  BY DEF SuspendedAndRestored
<1> QED
  BY <1>1, Restoration, Suspension, PTL

\* The checklists' own commands are on only while a checklist is executed, the responses
\* only for the current item, even when a checklist throws.
THEOREM OwnCommandsOff == Spec => []NoStrayCommands
<1>1. ASSUME IInv PROVE TypeOK
  <2>1. State \in Script /\ PlaceInv(State)
    BY <1>1 DEF IInv, ScriptInv, Typed
  <2>2. Awaited = AwaitedIn(State)
    BY StateFields DEF Awaited, AwaitedIn
  <2> QED
    BY <1>1, <2>1, <2>2, StateFields DEF IInv, Script, PlaceInv, TypeOK
<1>2. ASSUME IInv, NEW v \in Own, rules[v].state # "Inactive"
      PROVE  current # None /\ v \in Shared \union {Item(State).response}
  BY <1>2, StateFields DEF IInv, ScriptInv, PlaceInv, OnlyOn
<1>3. IInv => NoStrayCommands
  BY <1>1, <1>2 DEF NoStrayCommands
<1> QED
  BY <1>3, Invariance, PTL
=============================================================================
