SPECIFICATION EitherSpec
CONSTANTS
  Scripts = {s1, s2}
  Sim = Sim
  NoObject = NoObject
  SimUsages = {{}, {"again"}, {"stray"}}
  MaxObjects = 2
  MaxCallbacks = 3
  MenuUsages = {{}, {"drop"}, {"drop", "invalid"}, {"again"}, {"drop", "again"}, {"drop", "early"},
                {"drop", "quick"}}
  MaxShows = 3
SYMMETRY Symmetry
INVARIANTS
  ListenersHear ObjectOfName NothingLeft DeadlockOnlyNamed LivesUntilHandled NoUndefinedUse
PROPERTIES
  WalksUndisturbed
CHECK_DEADLOCK FALSE
