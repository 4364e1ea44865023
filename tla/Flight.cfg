SPECIFICATION EitherSpec
CONSTANTS
  None = None
  NoEvent = NoEvent
INVARIANTS BrakeCommandGivenBack ChecksInTaxiOnly
PROPERTIES ImplementsFlightEvents PhaseFollows ControlCheckEnds
CHECK_DEADLOCK FALSE
