SPECIFICATION FairSpec
CONSTANTS
  Functions = {f1}
  Threads = {t1}
  Names = {}
  Objs = {o1, o2}
  None = None
  Delays = {0, 1}
  Intervals = {}
  Timeouts = {1}
  IntervalRange = 8
  MIN_INTERVAL = 1
  DEFAULT_INTERVAL = 1
  INDEFINITE = 99
  Usage = {"readdOnce", "removeRunning"}
  MaxTime = 2
  MaxEvents = 2
  MaxCalls = 4
  MaxDepth = 2
PROPERTIES DueCallbacksRun
CHECK_DEADLOCK FALSE
