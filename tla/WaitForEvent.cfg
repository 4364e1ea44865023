SPECIFICATION FairSpec
CONSTANTS
  t1 = t1
  t2 = t2
  plain = plain
  single = single
  None = None
  Usage = {}
  Threads <- MCThreads
  Events <- MCEvents
  SingleEvents <- MCSingleEvents
  MaxWaits = 2
  MaxEvents = 2
INVARIANTS NoActionLeft ReturnsWhatHappened
PROPERTY WaitsEnd
CHECK_DEADLOCK FALSE
