SPECIFICATION Spec
CONSTANTS
  e1 = e1
  f1 = f1
  c1 = c1
  c2 = c2
  InitialList <- SomeList
  Events = {e1}
  FunctionActions = {f1}
  CoroutineActions = {c1}
  Edited = {}
  Waits = {TRUE}
  Disabled = {}
  None = None
  Usage = {}
  MaxCalls = 4
  MaxEdits = 0
  MaxQueued = 2
  MaxDepth = 4
  MaxOrdered = 0
INVARIANTS QueuedEventsScheduled
CHECK_DEADLOCK FALSE
