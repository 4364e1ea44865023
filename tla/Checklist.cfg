SPECIFICATION FairSpec
CONSTANTS
  None = None
  c1 = c1
  c2 = c2
  t1 = t1
  t2 = t2
  r1 = r1
  r2 = r2
  other = other
  sayAgain = sayAgain
  standby = standby
  resume = resume
  restart = restart
  Checklists = {c1, c2}
  Commands <- MCCommands
  Trigger <- MCTrigger
  Items <- MCItems
  PersistenceOf <- MCPersistence
  MaxQueued = 1
  MaxInputs = 4
INVARIANTS SuspendedAndRestored NoStrayCommands
PROPERTIES ChecklistEnds
CHECK_DEADLOCK FALSE
