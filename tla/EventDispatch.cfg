SPECIFICATION Spec
CONSTANTS
  e1 = e1
  f1 = f1
  c1 = c1
  c2 = c2
  InitialList <- ManyList
  Events = {e1, e2}
  FunctionActions = {f1}
  CoroutineActions = {c1, c2}
  Edited = {e1}
  Waits = {TRUE}
  Disabled = {f1}
  None = None
  Usage = {}
  MaxCalls = 3
  MaxEdits = 2
  MaxQueued = 2
  MaxDepth = 4
  MaxOrdered = 2
INVARIANTS DispatchNotReentered SortedMatchesNodes OrderRespected WaitsForRunningOnly
PROPERTIES ListStableInDispatch
CHECK_DEADLOCK FALSE
