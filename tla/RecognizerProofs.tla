-------------------------- MODULE RecognizerProofs --------------------------
(***************************************************************************)
(* Proofs about the rules of the recognizer and the thread that fetches    *)
(* its results (Recognizer.tla), for every set of commands and of dummy    *)
(* rules and every bound.                                                  *)
(***************************************************************************)
EXTENDS Recognizer, TLAPS

-----------------------------------------------------------------------------
(* The inductive invariant *)

\* What the methods of Recognizer keep true of the rules by themselves.
RulesInv(rs) ==
  /\ rs \in [Rules -> Rule]
  /\ \A d \in DummyRules : rs[d].state = "Inactive"
  /\ \A r \in Commands :
       /\ rs[r].on <=> rs[r].state \in {"Active", "Ignore"}
       /\ rs[r].dummyRuleID # None =>
            \A q \in Commands \ {r} : rs[q].dummyRuleID # rs[r].dummyRuleID
       /\ rs[r].dummyRuleID # None /\ ~DummyWhileOn => rs[rs[r].dummyRuleID].on = rs[r].on

TypeInv ==
  /\ committed \subseteq Rules
  /\ grammarIsDirty \in BOOLEAN /\ listening \in BOOLEAN /\ muted \in BOOLEAN
  /\ heard \in Seq(Result) /\ Len(heard) <= MaxHeard
  /\ queue \in Seq(Commands) /\ Len(queue) <= MaxQueued
  /\ requests \in 0..MaxRequests
  /\ armed \subseteq Commands
  /\ wiped \subseteq Rules

\* A command is armed from its activation until the thread that has recognized
\* it uses it up, and the thread uses up only what it has found active.
ArmedInv ==
  /\ \A r \in Commands : rules[r].state = "Active" => r \in armed
  /\ \/ reco = Idle
     \/ reco \in [at : {"check"}, rule : Rules]
     \/ reco \in [at : {"after", "enqueue"}, rule : Commands]
  /\ reco.at = "after" => reco.rule \in armed

\* The engine's rule has phrases if the rule has any, but for those that lost
\* theirs in place of a dummy rule.
PhrasesInv ==
  /\ \A r \in Rules \ wiped : rules[r].grammar = rules[r].phrases
  /\ ~grammarIsDirty => \A r \in Rules \ wiped : r \in committed <=> rules[r].phrases

IInv == RulesInv(rules) /\ TypeInv /\ ArmedInv /\ PhrasesInv

-----------------------------------------------------------------------------
(* Changing the state of a rule *)

\* What a method that changes the state of the rule r leaves alone.
OnlySwitches(rs, new, r) ==
  /\ RulesInv(new)
  /\ \A x \in Rules : new[x].phrases = rs[x].phrases /\ new[x].grammar = rs[x].grammar
  /\ \A q \in Commands \ {r} : new[q].state = rs[q].state

\* changeRuleState keeps the rules consistent, dummy rules included, if it is told
\* to switch on what is to be Active or in Ignore mode and nothing else.
LEMMA ChangeRuleState ==
  ASSUME NEW rs, RulesInv(rs), NEW r \in Commands,
         NEW state \in RuleState, NEW on \in BOOLEAN,
         on <=> state \in {"Active", "Ignore"}
  PROVE  /\ OnlySwitches(rs, changeRuleState(rs, r, state, on), r)
         /\ changeRuleState(rs, r, state, on)[r].state = state
<1> DEFINE dummy == rs[r].dummyRuleID
           new == changeRuleState(rs, r, state, on)
           changed == [rs EXCEPT ![r].state = state, ![r].on = on]
<1>1. /\ r \in Rules /\ DummyRules \subseteq Rules /\ r \notin DummyRules
      /\ Commands \cap DummyRules = {} /\ None \notin Rules
  BY RulesAssumption DEF Rules
<1>2. /\ rs \in [Rules -> Rule] /\ rs[r] \in Rule
      /\ dummy \in DummyRules \union {None}
  BY <1>1 DEF RulesInv, Rule
<1>3. /\ changed \in [Rules -> Rule]
      /\ changed[r] = [rs[r] EXCEPT !.state = state, !.on = on]
      /\ \A x \in Rules \ {r} : changed[x] = rs[x]
  BY <1>1, <1>2 DEF Rule
<1>4. new = IF dummy = None THEN changed ELSE [changed EXCEPT ![dummy].on = on]
  BY DEF changeRuleState
<1>5. /\ new \in [Rules -> Rule]
      /\ \A x \in Rules : new[x].phrases = rs[x].phrases /\ new[x].grammar = rs[x].grammar
      /\ \A x \in Rules : new[x].dummyRuleID = rs[x].dummyRuleID
      /\ \A x \in Rules \ {r} : new[x].state = rs[x].state
      /\ new[r].state = state /\ new[r].on = on
      /\ \A x \in Rules \ {r, dummy} : new[x].on = rs[x].on
      /\ dummy # None => new[dummy].on = on
  <2>1. CASE dummy = None
    BY <1>1, <1>2, <1>3, <1>4, <2>1 DEF Rule
  <2>2. CASE dummy # None
    <3>1. dummy \in Rules /\ dummy # r
      BY <1>1, <1>2, <2>2
    <3>2. /\ new = [changed EXCEPT ![dummy] = [rs[dummy] EXCEPT !.on = on]]
          /\ [rs[dummy] EXCEPT !.on = on] \in Rule
          /\ rs[dummy] \in Rule
      BY <1>2, <1>3, <1>4, <2>2, <3>1 DEF Rule
    <3>3. /\ new \in [Rules -> Rule]
          /\ new[dummy] = [rs[dummy] EXCEPT !.on = on]
          /\ new[r] = [rs[r] EXCEPT !.state = state, !.on = on]
          /\ \A x \in Rules \ {r, dummy} : new[x] = rs[x]
      BY <1>1, <1>3, <3>1, <3>2
    <3>4. /\ new[dummy].phrases = rs[dummy].phrases /\ new[dummy].grammar = rs[dummy].grammar
          /\ new[dummy].dummyRuleID = rs[dummy].dummyRuleID
          /\ new[dummy].state = rs[dummy].state /\ new[dummy].on = on
      BY <3>2, <3>3 DEF Rule
    <3>5. /\ new[r].phrases = rs[r].phrases /\ new[r].grammar = rs[r].grammar
          /\ new[r].dummyRuleID = rs[r].dummyRuleID
          /\ new[r].state = state /\ new[r].on = on
      BY <1>2, <3>3 DEF Rule
    <3> HIDE DEF new, dummy
    <3> QED
      BY <1>1, <2>2, <3>1, <3>3, <3>4, <3>5
  <2> QED
    BY <2>1, <2>2
<1>6. \A d \in DummyRules : new[d].state = "Inactive"
  BY <1>1, <1>5 DEF RulesInv
<1>7. ASSUME NEW q \in Commands
      PROVE  /\ new[q].on <=> new[q].state \in {"Active", "Ignore"}
             /\ new[q].dummyRuleID # None =>
                  \A p \in Commands \ {q} : new[p].dummyRuleID # new[q].dummyRuleID
             /\ new[q].dummyRuleID # None /\ ~DummyWhileOn =>
                  new[new[q].dummyRuleID].on = new[q].on
  <2>0. /\ q \in Rules /\ Commands \subseteq Rules /\ rs[q] \in Rule
        /\ rs[q].dummyRuleID \in DummyRules \union {None}
        /\ q # dummy
    BY <1>1, <1>2 DEF Rule, Rules, RulesInv
  <2>1. new[q].dummyRuleID # None =>
          \A p \in Commands \ {q} : new[p].dummyRuleID # new[q].dummyRuleID
    BY <1>5, <2>0 DEF RulesInv
  <2>2. CASE q = r
    BY <1>5, <2>0, <2>1, <2>2
  <2>3. CASE q # r
    <3>1. new[q].on = rs[q].on /\ new[q].state = rs[q].state
      BY <1>5, <2>0, <2>3
    <3>2. ASSUME rs[q].dummyRuleID # None
          PROVE  /\ rs[q].dummyRuleID \in Rules \ {r, dummy}
                 /\ new[rs[q].dummyRuleID].on = rs[rs[q].dummyRuleID].on
      BY <1>1, <1>5, <2>0, <2>3, <3>2 DEF RulesInv
    <3> QED
      BY <1>5, <2>0, <2>1, <3>1, <3>2 DEF RulesInv
  <2> QED
    BY <2>2, <2>3
<1>8. RulesInv(new)
  BY <1>5, <1>6, <1>7 DEF RulesInv
<1>9. \A q \in Commands \ {r} : new[q].state = rs[q].state
  BY <1>5 DEF Rules
<1> QED
  BY <1>5, <1>8, <1>9 DEF OnlySwitches

\* Each of the four methods that change a rule's state either does so or leaves
\* the rules alone.
LEMMA StateMethods ==
  ASSUME NEW rs, RulesInv(rs), NEW r \in Commands
  PROVE  /\ OnlySwitches(rs, activateRule(rs, r), r)
         /\ OnlySwitches(rs, ignoreRule(rs, r), r)
         /\ OnlySwitches(rs, deactivateRule(rs, r), r)
         /\ OnlySwitches(rs, disableRule(rs, r), r)
<1>1. OnlySwitches(rs, rs, r)
  BY DEF OnlySwitches
<1>2. OnlySwitches(rs, changeRuleState(rs, r, "Active", TRUE), r)
  BY ChangeRuleState DEF RuleState
<1>3. OnlySwitches(rs, changeRuleState(rs, r, "Ignore", TRUE), r)
  BY ChangeRuleState DEF RuleState
<1>4. OnlySwitches(rs, changeRuleState(rs, r, "Inactive", FALSE), r)
  BY ChangeRuleState DEF RuleState
<1>5. OnlySwitches(rs, changeRuleState(rs, r, "Disabled", FALSE), r)
  BY ChangeRuleState DEF RuleState
<1> QED
  BY <1>1, <1>2, <1>3, <1>4, <1>5 DEF activateRule, ignoreRule, deactivateRule, disableRule

\* A command that has been recognized is active afterwards only if it was before,
\* and is persistent.
LEMMA AfterRecoEventState ==
  ASSUME NEW rs, RulesInv(rs), NEW r \in Commands
  PROVE  /\ OnlySwitches(rs, afterRecoEvent(rs, r), r)
         /\ afterRecoEvent(rs, r)[r].state = "Active" =>
              rs[r].state = "Active" /\ rs[r].persistenceMode # "NonPersistent"
<1>1. changeRuleState(rs, r, "Ignore", TRUE)[r].state = "Ignore"
  BY ChangeRuleState DEF RuleState
<1>2. changeRuleState(rs, r, "Inactive", FALSE)[r].state = "Inactive"
  BY ChangeRuleState DEF RuleState
<1>3. CASE rs[r].persistenceMode = "Ignore"
  BY <1>1, <1>3, StateMethods DEF afterRecoEvent, ignoreRule
<1>4. CASE rs[r].persistenceMode = "NonPersistent"
  BY <1>2, <1>4, StateMethods DEF afterRecoEvent, deactivateRule
<1>5. CASE rs[r].persistenceMode \notin {"Ignore", "NonPersistent"}
  BY <1>5 DEF afterRecoEvent, OnlySwitches
<1> QED
  BY <1>3, <1>4, <1>5

\* Phrases, the engine's copies of them, and persistence modes do not matter to
\* the consistency of the rules.
LEMMA OtherFields ==
  ASSUME NEW rs, RulesInv(rs), NEW new \in [Rules -> Rule],
         \A x \in Rules : /\ new[x].state = rs[x].state
                          /\ new[x].on = rs[x].on
                          /\ new[x].dummyRuleID = rs[x].dummyRuleID
  PROVE  RulesInv(new)
<1>1. /\ Commands \subseteq Rules /\ DummyRules \subseteq Rules
      /\ \A r \in Commands : rs[r].dummyRuleID \in DummyRules \union {None}
  BY DEF Rules, RulesInv, Rule
<1> QED
  BY <1>1 DEF RulesInv

\* The types of the rules, as the steps need them.
LEMMA RulesTyped ==
  ASSUME NEW rs, RulesInv(rs)
  PROVE  /\ Commands \subseteq Rules /\ DummyRules \subseteq Rules
         /\ rs \in [Rules -> Rule]
         /\ \A x \in Rules : rs[x] \in Rule /\ rs[x].dummyRuleID \in DummyRules \union {None}
BY DEF RulesInv, Rules, Rule

-----------------------------------------------------------------------------
(* The invariant holds initially *)

LEMMA InitIInv == Init => IInv
<1> SUFFICES ASSUME Init PROVE IInv
  OBVIOUS
<1>1. PICK modes \in [Commands -> Persistence] :
        rules = [r \in Rules |->
          IF r \in Commands THEN NewRule(modes[r], TRUE) ELSE NewRule("Ignore", FALSE)]
  BY DEF Init
<1>2. ASSUME NEW x \in Rules
      PROVE  /\ rules[x] \in Rule
             /\ rules[x].state = "Inactive" /\ rules[x].on = FALSE
             /\ rules[x].dummyRuleID = None
             /\ rules[x].grammar = rules[x].phrases
             /\ rules[x].phrases <=> x \in Commands
  <2>1. CASE x \in Commands
    <3>1. rules[x] = NewRule(modes[x], TRUE) /\ modes[x] \in Persistence
      BY <1>1, <2>1
    <3>2. rules[x] \in Rule
      BY <3>1 DEF NewRule, Rule, RuleState
    <3> QED
      BY <2>1, <3>1, <3>2 DEF NewRule
  <2>2. CASE x \notin Commands
    <3>1. rules[x] = NewRule("Ignore", FALSE)
      BY <1>1, <2>2
    <3>2. rules[x] \in Rule
      BY <3>1 DEF NewRule, Rule, RuleState, Persistence
    <3> QED
      BY <2>2, <3>1, <3>2 DEF NewRule
  <2> QED
    BY <2>1, <2>2
<1>3. Commands \subseteq Rules /\ DummyRules \subseteq Rules
  BY DEF Rules
<1>4. rules \in [Rules -> Rule]
  BY <1>1, <1>2
<1>5. RulesInv(rules)
  BY <1>2, <1>3, <1>4 DEF RulesInv
<1>6. TypeInv
  <2>1. heard = <<>> /\ queue = <<>> /\ requests = 0 /\ MaxHeard \in Nat
        /\ MaxQueued \in Nat /\ MaxRequests \in Nat
    BY RecognizerBounds DEF Init
  <2>2. heard \in Seq(Result) /\ Len(heard) <= MaxHeard
        /\ queue \in Seq(Commands) /\ Len(queue) <= MaxQueued /\ requests \in 0..MaxRequests
    BY <2>1
  <2> QED
    BY <2>2 DEF Init, TypeInv, Rules
<1>7. ArmedInv
  BY <1>2, <1>3 DEF Init, ArmedInv, Idle
<1>8. PhrasesInv
  BY <1>2 DEF Init, PhrasesInv
<1> QED
  BY <1>5, <1>6, <1>7, <1>8 DEF IInv

-----------------------------------------------------------------------------
(* Every step preserves it *)

\* The thread that fetches results, and the engine.
LEMMA HearIInv ==
  ASSUME IInv, NEW r \in Rules, NEW confident \in BOOLEAN, Hear(r, confident)
  PROVE  IInv'
<1>1. heard' \in Seq(Result) /\ Len(heard') <= MaxHeard
  <2>1. [rule |-> r, confident |-> confident] \in Result
    BY DEF Result
  <2> QED
    BY <2>1, RecognizerBounds DEF IInv, TypeInv, Hear
<1>2. UNCHANGED <<rules, sapiVars, reco, muted, queue, requests, armed>>
  BY DEF Hear
<1> QED
  BY <1>1, <1>2 DEF IInv, RulesInv, TypeInv, ArmedInv, PhrasesInv, sapiVars

LEMMA GetResultIInv == ASSUME IInv, GetResult PROVE IInv'
<1>1. heard' \in Seq(Result) /\ Len(heard') <= MaxHeard
  <2>1. heard \in Seq(Result) /\ heard # <<>> /\ heard' = Tail(heard) /\ Len(heard) <= MaxHeard
    BY DEF IInv, TypeInv, GetResult
  <2>2. Len(Tail(heard)) = Len(heard) - 1 /\ Tail(heard) \in Seq(Result) /\ Len(heard) \in Nat
    BY <2>1
  <2> QED
    BY <2>1, <2>2, RecognizerBounds
<1>2. Head(heard).rule \in Rules
  <2>1. heard \in Seq(Result) /\ heard # <<>>
    BY DEF IInv, TypeInv, GetResult
  <2>2. Head(heard) \in Result
    BY <2>1
  <2> QED
    BY <2>2 DEF Result
<1>3. reco' = Idle \/ reco' = At("check", Head(heard).rule)
  BY DEF GetResult
<1>4. UNCHANGED <<rules, sapiVars, muted, queue, requests, armed>>
  BY DEF GetResult
<1>5. ArmedInv'
  BY <1>2, <1>3, <1>4 DEF IInv, ArmedInv, Idle, At
<1> QED
  BY <1>1, <1>4, <1>5 DEF IInv, RulesInv, TypeInv, PhrasesInv, sapiVars

LEMMA CheckRuleStateIInv == ASSUME IInv, CheckRuleState PROVE IInv'
<1>1. reco \in [at : {"check"}, rule : Rules]
  BY DEF IInv, ArmedInv, CheckRuleState, Idle
<1>2. UNCHANGED <<rules, sapiVars, heard, muted, queue, requests, armed>>
  BY DEF CheckRuleState
<1>3. reco' = Idle \/ (rules[reco.rule].state = "Active" /\ reco' = At("after", reco.rule))
  BY DEF CheckRuleState
<1>4. rules[reco.rule].state = "Active" => reco.rule \in Commands /\ reco.rule \in armed
  BY <1>1 DEF IInv, ArmedInv, RulesInv, Rules
<1>5. ArmedInv'
  BY <1>2, <1>3, <1>4 DEF IInv, ArmedInv, Idle, At
<1> QED
  BY <1>2, <1>5 DEF IInv, RulesInv, TypeInv, PhrasesInv, sapiVars

LEMMA AfterRecoEventIInv == ASSUME IInv, AfterRecoEvent PROVE IInv'
<1>1. reco.rule \in Commands /\ reco.rule \in armed
  BY DEF IInv, ArmedInv, AfterRecoEvent, Idle
<1>2. /\ rules' = afterRecoEvent(rules, reco.rule)
      /\ armed' = IF rules[reco.rule].persistenceMode = "NonPersistent"
                  THEN armed \ {reco.rule} ELSE armed
      /\ reco' = At("enqueue", reco.rule)
      /\ UNCHANGED <<sapiVars, heard, muted, queue, requests>>
  BY DEF AfterRecoEvent
<1>3. RulesInv(rules)
  BY DEF IInv
<1>4. /\ OnlySwitches(rules, rules', reco.rule)
      /\ rules'[reco.rule].state = "Active" =>
           rules[reco.rule].state = "Active" /\ rules[reco.rule].persistenceMode # "NonPersistent"
  BY <1>1, <1>2, <1>3, AfterRecoEventState
<1>5. RulesInv(rules)'
  BY <1>4 DEF OnlySwitches, RulesInv
<1>6. TypeInv'
  BY <1>2 DEF IInv, TypeInv, sapiVars
<1>7. ArmedInv'
  <2>1. ASSUME NEW q \in Commands, rules'[q].state = "Active" PROVE q \in armed'
    BY <1>1, <1>2, <1>4, <2>1 DEF IInv, ArmedInv, OnlySwitches
  <2> QED
    BY <1>1, <1>2, <2>1 DEF ArmedInv, At
<1>8. PhrasesInv'
  BY <1>2, <1>4 DEF IInv, PhrasesInv, OnlySwitches, sapiVars
<1> QED
  BY <1>5, <1>6, <1>7, <1>8 DEF IInv

LEMMA EnqueueCallbackIInv == ASSUME IInv, EnqueueCallback PROVE IInv'
<1>1. reco.rule \in Commands
  BY DEF IInv, ArmedInv, EnqueueCallback, Idle
<1>2. queue' \in Seq(Commands) /\ Len(queue') <= MaxQueued
  BY <1>1, RecognizerBounds DEF IInv, TypeInv, EnqueueCallback
<1>3. reco' = Idle /\ UNCHANGED <<rules, sapiVars, heard, muted, requests, armed>>
  BY DEF EnqueueCallback
<1> QED
  BY <1>2, <1>3 DEF IInv, RulesInv, TypeInv, ArmedInv, PhrasesInv, sapiVars, Idle

LEMMA MuteIInv == ASSUME IInv, Mute PROVE IInv'
BY DEF IInv, RulesInv, TypeInv, ArmedInv, PhrasesInv, sapiVars, Mute

LEMMA TriggerVoiceCommandIInv == ASSUME IInv, TriggerVoiceCommand PROVE IInv'
<1>1. queue \in Seq(Commands) /\ queue # <<>> /\ queue' = Tail(queue) /\ Len(queue) <= MaxQueued
  BY DEF IInv, TypeInv, TriggerVoiceCommand
<1>2. Len(Tail(queue)) = Len(queue) - 1 /\ Tail(queue) \in Seq(Commands) /\ Len(queue) \in Nat
  BY <1>1
<1>3. queue' \in Seq(Commands) /\ Len(queue') <= MaxQueued
  BY <1>1, <1>2, RecognizerBounds
<1>4. UNCHANGED <<rules, sapiVars, recoVars, requests, armed>>
  BY DEF TriggerVoiceCommand
<1> QED
  BY <1>3, <1>4 DEF IInv, RulesInv, TypeInv, ArmedInv, PhrasesInv, sapiVars, recoVars

\* The script's thread.
LEMMA RequestTyped ==
  ASSUME IInv, Request
  PROVE  requests' \in 0..MaxRequests /\ UNCHANGED <<recoVars, queue>>
BY RecognizerBounds DEF IInv, TypeInv, Request

LEMMA ChangeStateIInv ==
  ASSUME IInv, NEW r \in Commands, ChangeState(r)
  PROVE  IInv'
<1>1. requests' \in 0..MaxRequests /\ UNCHANGED <<recoVars, queue, sapiVars>>
  BY RequestTyped DEF ChangeState
<1>2. OnlySwitches(rules, rules', r)
  BY StateMethods DEF IInv, ChangeState
<1>3. armed' = armed \union Activated(rules')
  BY DEF ChangeState
<1>4. RulesInv(rules)'
  BY <1>2 DEF OnlySwitches, RulesInv
<1>5. TypeInv'
  BY <1>1, <1>3 DEF IInv, TypeInv, recoVars, sapiVars, Activated
<1>6. ArmedInv'
  <2>1. \A q \in Commands : rules'[q].state = "Active" => q \in armed'
    BY <1>3 DEF IInv, ArmedInv, Activated
  <2> QED
    BY <1>1, <1>3, <2>1 DEF IInv, ArmedInv, recoVars
<1>7. PhrasesInv'
  BY <1>1, <1>2 DEF IInv, PhrasesInv, OnlySwitches, sapiVars
<1> QED
  BY <1>4, <1>5, <1>6, <1>7 DEF IInv

LEMMA SetRulePersistenceIInv ==
  ASSUME IInv, NEW r \in Commands, NEW mode \in Persistence, SetRulePersistence(r, mode)
  PROVE  IInv'
<1>1. /\ requests' \in 0..MaxRequests /\ UNCHANGED <<recoVars, queue, sapiVars, armed>>
      /\ rules' = [rules EXCEPT ![r].persistenceMode = mode]
  BY RequestTyped DEF SetRulePersistence
<1>2. r \in Rules /\ rules \in [Rules -> Rule] /\ RulesInv(rules)
  BY RulesTyped DEF IInv
<1>3. /\ rules' \in [Rules -> Rule]
      /\ \A x \in Rules :
           /\ rules'[x].state = rules[x].state /\ rules'[x].on = rules[x].on
           /\ rules'[x].dummyRuleID = rules[x].dummyRuleID
           /\ rules'[x].phrases = rules[x].phrases /\ rules'[x].grammar = rules[x].grammar
  BY <1>1, <1>2 DEF Rule
<1>4. RulesInv(rules)'
  BY <1>2, <1>3, OtherFields DEF RulesInv
<1>5. ArmedInv' /\ PhrasesInv'
  BY <1>1, <1>2, <1>3 DEF IInv, ArmedInv, PhrasesInv, recoVars, sapiVars, Rules
<1> QED
  BY <1>1, <1>4, <1>5 DEF IInv, TypeInv, recoVars, sapiVars

\* A rule gets phrases, or loses them, in its list and in the engine.
WithPhrases(rs, y, p) == [rs EXCEPT ![y].phrases = p, ![y].grammar = p]

LEMMA PhrasesOfRule ==
  ASSUME NEW rs, RulesInv(rs), NEW y \in Rules, NEW p \in BOOLEAN
  PROVE  /\ RulesInv(WithPhrases(rs, y, p))
         /\ \A x \in Rules : WithPhrases(rs, y, p)[x].state = rs[x].state
         /\ \A x \in Rules \ {y} :
              /\ WithPhrases(rs, y, p)[x].phrases = rs[x].phrases
              /\ WithPhrases(rs, y, p)[x].grammar = rs[x].grammar
         /\ WithPhrases(rs, y, p)[y].grammar = WithPhrases(rs, y, p)[y].phrases
<1> DEFINE new == WithPhrases(rs, y, p)
<1>1. rs \in [Rules -> Rule] /\ rs[y] \in Rule
  BY RulesTyped
<1>2. /\ new[y] = [rs[y] EXCEPT !.phrases = p, !.grammar = p]
      /\ \A x \in Rules \ {y} : new[x] = rs[x]
      /\ new = [x \in Rules |-> new[x]]
  BY <1>1 DEF WithPhrases
<1> HIDE DEF new
<1>3. /\ new[y] \in Rule
      /\ new[y].state = rs[y].state /\ new[y].on = rs[y].on
      /\ new[y].dummyRuleID = rs[y].dummyRuleID
      /\ new[y].grammar = new[y].phrases
  BY <1>1, <1>2 DEF Rule
<1>4. \A x \in Rules : new[x] \in Rule
  BY <1>1, <1>2, <1>3
<1>5. new \in [Rules -> Rule]
  BY <1>2, <1>4
<1>6. \A x \in Rules : /\ new[x].state = rs[x].state
                        /\ new[x].on = rs[x].on
                        /\ new[x].dummyRuleID = rs[x].dummyRuleID
  BY <1>2, <1>3
<1>7. RulesInv(new)
  BY <1>5, <1>6, OtherFields
<1> QED
  BY <1>2, <1>3, <1>6, <1>7 DEF new

LEMMA AddPhrasesIInv ==
  ASSUME IInv, NEW r \in Commands, AddPhrases(r)
  PROVE  IInv'
<1>1. /\ requests' \in 0..MaxRequests /\ UNCHANGED <<recoVars, queue, armed, committed, listening, wiped>>
      /\ rules' = WithPhrases(rules, r, TRUE)
      /\ grammarIsDirty' = TRUE
  BY RequestTyped DEF AddPhrases, WithPhrases
<1>2. r \in Rules /\ RulesInv(rules) /\ Commands \subseteq Rules
  BY DEF IInv, Rules
<1>3. /\ RulesInv(rules')
      /\ \A x \in Rules : rules'[x].state = rules[x].state
      /\ \A x \in Rules \ {r} :
           rules'[x].phrases = rules[x].phrases /\ rules'[x].grammar = rules[x].grammar
      /\ rules'[r].grammar = rules'[r].phrases
  <2>1. /\ RulesInv(WithPhrases(rules, r, TRUE))
        /\ \A x \in Rules : WithPhrases(rules, r, TRUE)[x].state = rules[x].state
        /\ \A x \in Rules \ {r} :
             /\ WithPhrases(rules, r, TRUE)[x].phrases = rules[x].phrases
             /\ WithPhrases(rules, r, TRUE)[x].grammar = rules[x].grammar
        /\ WithPhrases(rules, r, TRUE)[r].grammar = WithPhrases(rules, r, TRUE)[r].phrases
    BY <1>2, PhrasesOfRule
  <2>2. rules' = WithPhrases(rules, r, TRUE)
    BY <1>1
  <2> QED
    BY <2>1, <2>2
<1>4. RulesInv(rules)'
  BY <1>3 DEF RulesInv
<1>5. ArmedInv'
  <2>1. \A q \in Commands : rules'[q].state = rules[q].state
    BY <1>2, <1>3
  <2>2. armed' = armed /\ reco' = reco
    BY <1>1 DEF recoVars
  <2>3. ArmedInv
    BY DEF IInv
  <2> QED
    BY <2>1, <2>2, <2>3 DEF ArmedInv
<1>6. PhrasesInv'
  BY <1>1, <1>3 DEF IInv, PhrasesInv
<1> QED
  BY <1>1, <1>4, <1>5, <1>6 DEF IInv, TypeInv, recoVars

LEMMA RemoveAllPhrasesIInv ==
  ASSUME IInv, NEW r \in Commands, RemoveAllPhrases(r)
  PROVE  IInv'
<1>1. /\ requests' \in 0..MaxRequests /\ UNCHANGED <<recoVars, queue, armed, committed, listening>>
      /\ rules' = WithPhrases(rules, r, FALSE)
      /\ wiped' = wiped \ {r}
      /\ grammarIsDirty' = TRUE
  BY RequestTyped DEF RemoveAllPhrases, WithPhrases
<1>2. r \in Rules /\ RulesInv(rules) /\ Commands \subseteq Rules
  BY DEF IInv, Rules
<1>3. /\ RulesInv(rules')
      /\ \A x \in Rules : rules'[x].state = rules[x].state
      /\ \A x \in Rules \ {r} :
           rules'[x].phrases = rules[x].phrases /\ rules'[x].grammar = rules[x].grammar
      /\ rules'[r].grammar = rules'[r].phrases
  <2>1. /\ RulesInv(WithPhrases(rules, r, FALSE))
        /\ \A x \in Rules : WithPhrases(rules, r, FALSE)[x].state = rules[x].state
        /\ \A x \in Rules \ {r} :
             /\ WithPhrases(rules, r, FALSE)[x].phrases = rules[x].phrases
             /\ WithPhrases(rules, r, FALSE)[x].grammar = rules[x].grammar
        /\ WithPhrases(rules, r, FALSE)[r].grammar = WithPhrases(rules, r, FALSE)[r].phrases
    BY <1>2, PhrasesOfRule
  <2>2. rules' = WithPhrases(rules, r, FALSE)
    BY <1>1
  <2> QED
    BY <2>1, <2>2
<1>4. RulesInv(rules)'
  BY <1>3 DEF RulesInv
<1>5. ArmedInv'
  <2>1. \A q \in Commands : rules'[q].state = rules[q].state
    BY <1>2, <1>3
  <2>2. armed' = armed /\ reco' = reco
    BY <1>1 DEF recoVars
  <2>3. ArmedInv
    BY DEF IInv
  <2> QED
    BY <2>1, <2>2, <2>3 DEF ArmedInv
<1>6. PhrasesInv'
  BY <1>1, <1>3 DEF IInv, PhrasesInv
<1> QED
  BY <1>1, <1>4, <1>5, <1>6 DEF IInv, TypeInv, recoVars

\* The dummy rule d loses its list of phrases, and the rule r those of the engine.
Wiped(rs, r, d) == [rs EXCEPT ![d].phrases = FALSE, ![r].grammar = FALSE]

LEMMA PhrasesWiped ==
  ASSUME NEW rs, RulesInv(rs), NEW r \in Rules, NEW d \in Rules, r # d
  PROVE  /\ RulesInv(Wiped(rs, r, d))
         /\ \A x \in Rules : Wiped(rs, r, d)[x].state = rs[x].state
         /\ \A x \in Rules \ {r, d} : /\ Wiped(rs, r, d)[x].phrases = rs[x].phrases
                                       /\ Wiped(rs, r, d)[x].grammar = rs[x].grammar
<1> DEFINE new == Wiped(rs, r, d)
<1>1. rs \in [Rules -> Rule] /\ rs[r] \in Rule /\ rs[d] \in Rule
  BY RulesTyped
<1>2. /\ new[d] = [rs[d] EXCEPT !.phrases = FALSE]
      /\ new[r] = [rs[r] EXCEPT !.grammar = FALSE]
      /\ \A x \in Rules \ {r, d} : new[x] = rs[x]
      /\ new = [x \in Rules |-> new[x]]
  BY <1>1 DEF Wiped
<1> HIDE DEF new
<1>3. /\ new[d] \in Rule
      /\ new[d].state = rs[d].state /\ new[d].on = rs[d].on
      /\ new[d].dummyRuleID = rs[d].dummyRuleID
  BY <1>1, <1>2 DEF Rule
<1>4. /\ new[r] \in Rule
      /\ new[r].state = rs[r].state /\ new[r].on = rs[r].on
      /\ new[r].dummyRuleID = rs[r].dummyRuleID
  BY <1>1, <1>2 DEF Rule
<1>5. \A x \in Rules : new[x] \in Rule
  BY <1>1, <1>2, <1>3, <1>4
<1>6. new \in [Rules -> Rule]
  BY <1>2, <1>5
<1>7. \A x \in Rules : /\ new[x].state = rs[x].state
                        /\ new[x].on = rs[x].on
                        /\ new[x].dummyRuleID = rs[x].dummyRuleID
  BY <1>2, <1>3, <1>4
<1>8. RulesInv(new)
  BY <1>6, <1>7, OtherFields
<1> QED
  BY <1>2, <1>7, <1>8 DEF new

LEMMA RemoveAllDummyPhrasesIInv ==
  ASSUME IInv, NEW r \in Commands, RemoveAllDummyPhrases(r)
  PROVE  IInv'
<1> DEFINE dummy == rules[r].dummyRuleID
<1>1. /\ requests' \in 0..MaxRequests /\ UNCHANGED <<recoVars, queue, armed, committed, listening>>
      /\ rules' = Wiped(rules, r, dummy)
      /\ wiped' = wiped \union {r, dummy}
      /\ grammarIsDirty' = TRUE
      /\ dummy # None
  BY RequestTyped DEF RemoveAllDummyPhrases, Wiped
<1>2. /\ r \in Rules /\ Commands \subseteq Rules /\ RulesInv(rules)
      /\ dummy \in Rules
  BY <1>1, RulesTyped DEF IInv
<1>3. r # dummy
  BY <1>1, <1>2, RulesTyped, RulesAssumption
<1> HIDE DEF dummy
<1>4. /\ RulesInv(rules')
      /\ \A x \in Rules : rules'[x].state = rules[x].state
      /\ \A x \in Rules \ {r, dummy} :
           rules'[x].phrases = rules[x].phrases /\ rules'[x].grammar = rules[x].grammar
  <2>1. /\ RulesInv(Wiped(rules, r, dummy))
        /\ \A x \in Rules : Wiped(rules, r, dummy)[x].state = rules[x].state
        /\ \A x \in Rules \ {r, dummy} :
             /\ Wiped(rules, r, dummy)[x].phrases = rules[x].phrases
             /\ Wiped(rules, r, dummy)[x].grammar = rules[x].grammar
    BY <1>2, <1>3, PhrasesWiped
  <2>2. rules' = Wiped(rules, r, dummy)
    BY <1>1
  <2> QED
    BY <2>1, <2>2
<1>5. RulesInv(rules)'
  BY <1>4 DEF RulesInv
<1>6. ArmedInv'
  <2>1. \A q \in Commands : rules'[q].state = rules[q].state
    BY <1>2, <1>4
  <2>2. armed' = armed /\ reco' = reco
    BY <1>1 DEF recoVars
  <2>3. ArmedInv
    BY DEF IInv
  <2> QED
    BY <2>1, <2>2, <2>3 DEF ArmedInv
<1>7. PhrasesInv'
  BY <1>1, <1>4 DEF IInv, PhrasesInv
<1> QED
  BY <1>1, <1>2, <1>5, <1>6, <1>7 DEF IInv, TypeInv, recoVars

\* A free dummy rule, off, is given to a command that is off or may be on.
LEMMA DummyRuleAdded ==
  ASSUME NEW rs, RulesInv(rs), NEW new \in [Rules -> Rule],
         NEW r \in Commands, NEW d \in DummyRules,
         \A q \in Commands : rs[q].dummyRuleID # d,
         ~DummyWhileOn => new[d].on = new[r].on,
         new[r].state = rs[r].state, new[r].on = rs[r].on, new[r].dummyRuleID = d,
         new[d].state = "Inactive",
         \A x \in Rules \ {r, d} : /\ new[x].state = rs[x].state
                                   /\ new[x].on = rs[x].on
                                   /\ new[x].dummyRuleID = rs[x].dummyRuleID
  PROVE  RulesInv(new)
<1>1. /\ Commands \subseteq Rules /\ DummyRules \subseteq Rules
      /\ Commands \cap DummyRules = {} /\ None \notin DummyRules /\ r # d
      /\ rs \in [Rules -> Rule]
      /\ \A x \in Rules : rs[x].dummyRuleID \in DummyRules \union {None}
  BY RulesTyped, RulesAssumption
<1>2. \A e \in DummyRules : new[e].state = "Inactive"
  BY <1>1 DEF RulesInv
<1>3. ASSUME NEW q \in Commands
      PROVE  new[q].on <=> new[q].state \in {"Active", "Ignore"}
  BY <1>1 DEF RulesInv
<1>4. ASSUME NEW q \in Commands, new[q].dummyRuleID # None, NEW p \in Commands \ {q}
      PROVE  new[p].dummyRuleID # new[q].dummyRuleID
  <2>1. \A x \in Commands \ {r} : x \in Rules \ {r, d} /\ new[x].dummyRuleID = rs[x].dummyRuleID
    BY <1>1
  <2>2. CASE q = r
    BY <2>1, <2>2
  <2>3. CASE p = r
    BY <1>4, <2>1, <2>3
  <2>4. CASE q # r /\ p # r
    BY <1>4, <2>1, <2>4 DEF RulesInv
  <2> QED
    BY <2>2, <2>3, <2>4
<1>5. ASSUME NEW q \in Commands, new[q].dummyRuleID # None, ~DummyWhileOn
      PROVE  new[new[q].dummyRuleID].on = new[q].on
  <2>1. CASE q = r
    BY <1>5, <2>1
  <2>2. CASE q # r
    <3>1. /\ q \in Rules \ {r, d}
          /\ new[q].dummyRuleID = rs[q].dummyRuleID /\ new[q].on = rs[q].on
      BY <1>1, <2>2
    <3>2. rs[q].dummyRuleID \in Rules \ {r, d}
      BY <1>1, <1>5, <3>1
    <3> QED
      BY <1>5, <3>1, <3>2 DEF RulesInv
  <2> QED
    BY <2>1, <2>2
<1> QED
  BY <1>2, <1>3, <1>4, <1>5 DEF RulesInv

\* The first dummy phrases of a command.
WithDummy(rs, r, d) == [rs EXCEPT ![r].dummyRuleID = d, ![d] = NewRule("Ignore", TRUE)]

LEMMA NewDummyRule ==
  ASSUME NEW rs, RulesInv(rs), NEW r \in Commands, rs[r].on => DummyWhileOn,
         NEW d \in DummyRules, \A q \in Commands : rs[q].dummyRuleID # d
  PROVE  /\ RulesInv(WithDummy(rs, r, d))
         /\ \A q \in Commands : WithDummy(rs, r, d)[q].state = rs[q].state
         /\ \A x \in Rules \ {d} : /\ WithDummy(rs, r, d)[x].phrases = rs[x].phrases
                                    /\ WithDummy(rs, r, d)[x].grammar = rs[x].grammar
         /\ WithDummy(rs, r, d)[d].phrases = WithDummy(rs, r, d)[d].grammar
<1> DEFINE new == WithDummy(rs, r, d)
<1>1. /\ r \in Rules /\ d \in Rules /\ r # d
      /\ rs \in [Rules -> Rule] /\ rs[r] \in Rule
      /\ Commands \subseteq Rules /\ d \notin Commands
  BY RulesTyped, RulesAssumption
<1>2. NewRule("Ignore", TRUE) \in Rule
  BY DEF NewRule, Rule, RuleState, Persistence
<1>3. /\ new[r] = [rs[r] EXCEPT !.dummyRuleID = d]
      /\ new[d] = NewRule("Ignore", TRUE)
      /\ \A x \in Rules \ {r, d} : new[x] = rs[x]
      /\ new = [x \in Rules |-> new[x]]
  BY <1>1 DEF WithDummy
<1> HIDE DEF new
<1>4. /\ new[r] \in Rule
      /\ new[r].state = rs[r].state /\ new[r].on = rs[r].on
      /\ new[r].phrases = rs[r].phrases /\ new[r].grammar = rs[r].grammar
      /\ new[r].dummyRuleID = d
  BY <1>1, <1>3 DEF Rule
<1>5. /\ new[d].state = "Inactive" /\ new[d].on = FALSE
      /\ new[d].phrases = new[d].grammar
  <2>1. NewRule("Ignore", TRUE).state = "Inactive"
    BY DEF NewRule
  <2>2. NewRule("Ignore", TRUE).on = FALSE
    BY DEF NewRule
  <2>3. NewRule("Ignore", TRUE).phrases = NewRule("Ignore", TRUE).grammar
    BY DEF NewRule
  <2> QED
    BY <1>3, <2>1, <2>2, <2>3
<1>6. \A x \in Rules : new[x] \in Rule
  <2>1. new[d] \in Rule
    BY <1>2, <1>3
  <2>2. ASSUME NEW x \in Rules \ {r, d} PROVE new[x] \in Rule
    <3>1. new[x] = rs[x]
      BY <1>3
    <3> QED
      BY <1>1, <3>1
  <2> QED
    BY <1>4, <2>1, <2>2
<1>7. new \in [Rules -> Rule]
  BY <1>3, <1>6
<1>8. ~DummyWhileOn => new[d].on = new[r].on
  <2> SUFFICES ASSUME ~DummyWhileOn PROVE new[d].on = new[r].on
    OBVIOUS
  <2>1. rs[r].on \in BOOLEAN /\ ~rs[r].on
    BY <1>1 DEF Rule
  <2>2. rs[r].on = FALSE
    BY <2>1
  <2> QED
    BY <1>4, <1>5, <2>2
<1>9. \A x \in Rules \ {r, d} : /\ new[x].state = rs[x].state
                                /\ new[x].on = rs[x].on
                                /\ new[x].dummyRuleID = rs[x].dummyRuleID
  BY <1>3
<1>10. RulesInv(new)
  BY <1>4, <1>5, <1>7, <1>8, <1>9, DummyRuleAdded
<1>11. \A q \in Commands : new[q].state = rs[q].state
  BY <1>1, <1>3, <1>4
<1>12. \A x \in Rules \ {d} : new[x].phrases = rs[x].phrases /\ new[x].grammar = rs[x].grammar
  BY <1>3, <1>4
<1> QED
  BY <1>5, <1>10, <1>11, <1>12 DEF new

LEMMA AddDummyPhrasesIInv ==
  ASSUME IInv, NEW r \in Commands, AddDummyPhrases(r)
  PROVE  IInv'
<1> DEFINE dummy == rules[r].dummyRuleID
<1>1. /\ requests' \in 0..MaxRequests
      /\ UNCHANGED <<recoVars, queue, armed, committed, listening, wiped>>
      /\ grammarIsDirty' = TRUE
  BY RequestTyped DEF AddDummyPhrases
<1>2. /\ r \in Rules /\ rules \in [Rules -> Rule] /\ RulesInv(rules)
      /\ Commands \subseteq Rules
      /\ dummy \in DummyRules \union {None} /\ DummyRules \subseteq Rules
  BY RulesTyped DEF IInv
<1>3. /\ RulesInv(rules)'
      /\ \A q \in Commands : rules'[q].state = rules[q].state
      /\ \A x \in Rules \ wiped : rules'[x].grammar = rules'[x].phrases
  <2>1. CASE dummy = None
    <3>1. PICK d \in DummyRules : IsFree(d) /\ rules' = WithDummy(rules, r, d)
      BY <2>1 DEF AddDummyPhrases, WithDummy
    <3>2. /\ rules[r].on => DummyWhileOn
          /\ \A q \in Commands : rules[q].dummyRuleID # d
      BY <2>1, <3>1 DEF AddDummyPhrases, IsFree
    <3>3. /\ RulesInv(rules')
          /\ \A q \in Commands : rules'[q].state = rules[q].state
          /\ \A x \in Rules \ {d} :
               rules'[x].phrases = rules[x].phrases /\ rules'[x].grammar = rules[x].grammar
          /\ rules'[d].phrases = rules'[d].grammar
      BY <1>2, <3>1, <3>2, NewDummyRule
    <3>4. \A x \in Rules \ wiped : rules[x].grammar = rules[x].phrases
      BY DEF IInv, PhrasesInv
    <3>5. RulesInv(rules)'
      BY <3>3 DEF RulesInv
    <3> QED
      BY <3>3, <3>4, <3>5
  <2>2. CASE dummy # None
    <3>1. /\ rules' = WithPhrases(rules, dummy, TRUE)
          /\ dummy \in Rules
      BY <1>2, <2>2 DEF AddDummyPhrases, WithPhrases
    <3> HIDE DEF dummy
    <3>2. /\ RulesInv(rules')
          /\ \A x \in Rules : rules'[x].state = rules[x].state
          /\ \A x \in Rules \ {dummy} :
               rules'[x].phrases = rules[x].phrases /\ rules'[x].grammar = rules[x].grammar
          /\ rules'[dummy].grammar = rules'[dummy].phrases
      <4>1. /\ RulesInv(WithPhrases(rules, dummy, TRUE))
            /\ \A x \in Rules : WithPhrases(rules, dummy, TRUE)[x].state = rules[x].state
            /\ \A x \in Rules \ {dummy} :
                 /\ WithPhrases(rules, dummy, TRUE)[x].phrases = rules[x].phrases
                 /\ WithPhrases(rules, dummy, TRUE)[x].grammar = rules[x].grammar
            /\ WithPhrases(rules, dummy, TRUE)[dummy].grammar
                 = WithPhrases(rules, dummy, TRUE)[dummy].phrases
        BY <1>2, <3>1, PhrasesOfRule
      <4> QED
        BY <3>1, <4>1
    <3>3. RulesInv(rules)'
      BY <3>2 DEF RulesInv
    <3> QED
      BY <1>2, <3>2, <3>3 DEF IInv, PhrasesInv
  <2> QED
    BY <2>1, <2>2
<1>4. ArmedInv'
  BY <1>1, <1>3 DEF IInv, ArmedInv, recoVars
<1>5. PhrasesInv'
  BY <1>1, <1>3 DEF PhrasesInv
<1> QED
  BY <1>1, <1>3, <1>4, <1>5 DEF IInv, TypeInv, recoVars

LEMMA ResetGrammarIInv == ASSUME IInv, ResetGrammar PROVE IInv'
<1>1. /\ requests' \in 0..MaxRequests /\ UNCHANGED <<recoVars, queue, rules, wiped, armed>>
      /\ grammarIsDirty' = FALSE /\ listening' = TRUE
      /\ committed' = WithGrammar
  BY RequestTyped DEF ResetGrammar
<1>2. \A r \in Rules \ wiped : r \in WithGrammar <=> rules[r].phrases
  BY DEF IInv, PhrasesInv, WithGrammar
<1> QED
  BY <1>1, <1>2 DEF IInv, RulesInv, TypeInv, ArmedInv, PhrasesInv, recoVars, WithGrammar

LEMMA PauseOrResumeIInv == ASSUME IInv, PauseOrResume PROVE IInv'
<1>1. /\ requests' \in 0..MaxRequests
      /\ UNCHANGED <<recoVars, queue, rules, committed, grammarIsDirty, wiped, armed>>
      /\ listening' \in BOOLEAN
  BY RequestTyped DEF PauseOrResume
<1> QED
  BY <1>1 DEF IInv, RulesInv, TypeInv, ArmedInv, PhrasesInv, recoVars

LEMMA NextIInv == IInv /\ [Next]_vars => IInv'
<1> SUFFICES ASSUME IInv, [Next]_vars PROVE IInv'
  OBVIOUS
<1>1. CASE \E r \in Rules, confident \in BOOLEAN : Hear(r, confident)
  BY <1>1, HearIInv
<1>2. CASE FetchResults
  BY <1>2, GetResultIInv, CheckRuleStateIInv, AfterRecoEventIInv, EnqueueCallbackIInv
     DEF FetchResults
<1>3. CASE Mute \/ TriggerVoiceCommand \/ ResetGrammar \/ PauseOrResume
  BY <1>3, MuteIInv, TriggerVoiceCommandIInv, ResetGrammarIInv, PauseOrResumeIInv
<1>4. ASSUME NEW r \in Commands,
             \/ ChangeState(r) \/ AddPhrases(r) \/ AddDummyPhrases(r)
             \/ RemoveAllPhrases(r) \/ RemoveAllDummyPhrases(r)
             \/ \E mode \in Persistence : SetRulePersistence(r, mode)
      PROVE  IInv'
  BY <1>4, ChangeStateIInv, AddPhrasesIInv, AddDummyPhrasesIInv, RemoveAllPhrasesIInv,
     RemoveAllDummyPhrasesIInv, SetRulePersistenceIInv
<1>5. CASE UNCHANGED vars
  BY <1>5 DEF IInv, RulesInv, TypeInv, ArmedInv, PhrasesInv, vars, sapiVars, recoVars
<1> QED
  BY <1>1, <1>2, <1>3, <1>4, <1>5 DEF Next

LEMMA IInvCorrect == Spec => []IInv
BY InitIInv, NextIInv, PTL DEF Spec

-----------------------------------------------------------------------------
(* What follows from it *)

LEMMA TypeFollows == IInv => TypeOK
<1> SUFFICES ASSUME IInv PROVE TypeOK
  OBVIOUS
<1>1. reco \in {Idle} \union [at : {"check", "after", "enqueue"}, rule : Rules]
  BY RulesTyped DEF IInv, ArmedInv
<1>2. queue \in Seq(Rules)
  BY RulesTyped DEF IInv, TypeInv
<1> QED
  BY <1>1, <1>2 DEF IInv, RulesInv, TypeInv, TypeOK

\* The recognizer's state stays within its types, for every set of commands and
\* of dummy rules, and every bound.
THEOREM TypeCorrect == Spec => []TypeOK
BY IInvCorrect, TypeFollows, PTL

\* The engine listens for exactly the rules that are active or in ignore mode,
\* and the dummy rules of those, whatever the script asks for at whatever time,
\* unless the first dummy phrases are added to a command that is on.
THEOREM EngineCorrect ==
  ASSUME DummyWhileOn = FALSE
  PROVE  Spec => []EngineFollowsState
<1>1. IInv => EngineFollowsState
  BY TypeFollows DEF IInv, RulesInv, EngineFollowsState
<1> QED
  BY <1>1, IInvCorrect, PTL

\* Once the grammar has been reset, the engine knows the phrases the rules have.
THEOREM GrammarCorrect == Spec => []GrammarFollowsPhrases
<1>1. IInv => GrammarFollowsPhrases
  BY DEF IInv, PhrasesInv, GrammarFollowsPhrases
<1> QED
  BY <1>1, IInvCorrect, PTL

\* A command that is not persistent is recognized once for each activation: the
\* thread uses it up only while it is armed, and it is armed by being activated.
THEOREM OnceCorrect == Spec => []OnceForEachActivation
<1>1. IInv => OnceForEachActivation
  BY DEF IInv, ArmedInv, OnceForEachActivation
<1> QED
  BY <1>1, IInvCorrect, PTL

\* No dummy phrase ever triggers a command's actions.
THEOREM DummiesCorrect == Spec => []DummiesNeverTrigger
<1>1. IInv => DummiesNeverTrigger
  BY DEF IInv, TypeInv, DummiesNeverTrigger
<1> QED
  BY <1>1, IInvCorrect, PTL

\* What the engine listens for is what the scripts have asked for, in states and phrases.
THEOREM EngineInStepCorrect ==
  ASSUME DummyWhileOn = FALSE
  PROVE  Spec => []EngineInStep
<1>1. EngineFollowsState /\ GrammarFollowsPhrases => EngineInStep
  BY DEF EngineInStep
<1> QED
  BY <1>1, EngineCorrect, GrammarCorrect, PTL

\* What is recognized triggers commands that were activated, once for each activation.
THEOREM TriggersCorrect == Spec => []OnlyActivatedTrigger
<1>1. OnceForEachActivation /\ DummiesNeverTrigger => OnlyActivatedTrigger
  BY DEF OnlyActivatedTrigger
<1> QED
  BY <1>1, OnceCorrect, DummiesCorrect, PTL
=============================================================================
