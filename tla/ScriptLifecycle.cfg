SPECIFICATION Spec
CONSTANTS
  p1 = p1
  p2 = p2
  Paths = {p1, p2}
  Detached = {d1, d2}
  UI = UI
  None = None
  Initial <- OneScript
  Usages <- SafeUsages
  MaxCalls = 3
INVARIANTS NoDeadlock NoUseAfterDelete NoOrphans CallsReturn
PROPERTIES StopAllLeavesNone
SYMMETRY DetachedSymmetry
CHECK_DEADLOCK FALSE
