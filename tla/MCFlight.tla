------------------------------ MODULE MCFlight ------------------------------
(* FlightPhase and ControlChecks in one run: the steps of a behaviour are  *)
(* those of one of them while the other is as it began.  Both at once are  *)
(* too many; ControlChecks has the events that FlightPhase is shown to     *)
(* trigger.                                                                *)
EXTENDS FlightPhase, ControlChecks

\* A start of each, at which it may stay.
FlightUnused == sim.chocks /\ sim.engines = "off" /\ sim.levers = "idle" /\ Init
ChecksUnused == ~voice /\ stage = "flying" /\ ChecksInit

InFlight(A) == ChecksUnused /\ A /\ UNCHANGED checksVars
InChecks(A) == FlightUnused /\ A /\ UNCHANGED vars

EitherInit == Init /\ ChecksInit /\ (FlightUnused \/ ChecksUnused)

EitherNext == InFlight(Next) \/ InChecks(ChecksNext)

eitherVars == <<vars, checksVars>>

\* The fairness of FairSpec and of FairChecksSpec.
EitherSpec ==
  /\ EitherInit /\ [][EitherNext]_eitherVars
  /\ WF_eitherVars(InFlight(Processor))
  /\ WF_eitherVars(InFlight(WatchChocks))
  /\ WF_eitherVars(InFlight(Elapse))
  /\ WF_eitherVars(InChecks(TenSeconds))
  /\ WF_eitherVars(InChecks(Again \/ (late /\ PilotSide) \/ PmSide))
=============================================================================
