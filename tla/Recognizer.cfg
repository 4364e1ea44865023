SPECIFICATION FairSpec
CONSTANTS
  Commands = {c1, c2}
  DummyRules = {d1}
  None = None
  DummyWhileOn = FALSE
  MaxHeard = 1
  MaxQueued = 1
  MaxRequests = 4
INVARIANTS EngineInStep OnlyActivatedTrigger
PROPERTIES HeardCommandsTrigger
CHECK_DEADLOCK FALSE
