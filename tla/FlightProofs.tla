----------------------------- MODULE FlightProofs -----------------------------
(***************************************************************************)
(* Proofs about a flight: its phases (FlightPhase.tla) implement the       *)
(* orders of events their listeners rely on (FlightEvents.tla), and in     *)
(* any of these orders the checks before takeoff (ControlChecks.tla) keep  *)
(* what they promise.                                                      *)
(***************************************************************************)
EXTENDS FlightPhase, ControlChecks, TLAPS

-----------------------------------------------------------------------------
(* The phases: the inductive invariant *)

\* chocksReleased belongs to the phase onChocks, which hands the watch over to the
\* callback when the engines have started and the chocks are still there.
ChocksInv ==
  /\ chocksReleased => phase = "onChocks"
  /\ at = "started" => phase = "onChocks" /\ watching = ~chocksReleased

\* A landing is remembered by the rollout only.
LandedInv == landed => phase \in Airborne /\ at = "rollout"

IInv == TypeOK /\ ChocksInv /\ LandedInv

LEMMA InitIInv == Init => IInv
<1> SUFFICES ASSUME Init PROVE IInv
  OBVIOUS
<1>1. phase \in {"onChocks", "engineShutdown", "taxi", "airborne"}
  BY DEF Init
<1> QED
  BY <1>1 DEF Init, IInv, TypeOK, ChocksInv, LandedInv, Phases, Airborne, Time

LEMMA ProcessorIInv == IInv /\ Processor => IInv'
<1> SUFFICES ASSUME IInv, Processor PROVE IInv'
  OBVIOUS
<1> USE DEF IInv, TypeOK, ChocksInv, LandedInv, Phases, Airborne, Time, airborneVars, locals,
            In, Goes, Stays, Enter, EventOf, setFlightPhase
<1>0. UNCHANGED sim
  BY DEF Processor
<1>1. CASE EngineShutdown
  BY <1>0, <1>1 DEF EngineShutdown
<1>2. CASE EngineStart
  BY <1>0, <1>2 DEF EngineStart
<1>3. CASE OnChocks
  BY <1>0, <1>3 DEF OnChocks, checkChocksReleased
<1>4. CASE EngineStartOnChocks
  BY <1>0, <1>4 DEF EngineStartOnChocks, checkChocksReleased
<1>5. CASE LeaveChocks
  BY <1>0, <1>5 DEF LeaveChocks
<1>6. CASE Taxi
  BY <1>0, <1>6 DEF Taxi
<1>7. CASE Spooling
  BY <1>0, <1>7 DEF Spooling
<1>8. CASE TakeoffRoll
  BY <1>0, <1>8 DEF TakeoffRoll, RollsOn, Commits, Aborts
<1>9. CASE LiftOff
  BY <1>0, <1>9 DEF LiftOff
<1>10. CASE AwaitClimbThrust
  BY <1>0, <1>10 DEF AwaitClimbThrust, climbThrustSelected
<1>11. CASE Touchdown
  BY <1>0, <1>11 DEF Touchdown
<1>12. CASE Rollout
  BY <1>0, <1>12 DEF Rollout, GoAround, RollsOut
<1>13. CASE Flying
  BY <1>0, <1>13 DEF Flying, GoAround, goAroundTriggered
<1> QED
  BY <1>1, <1>2, <1>3, <1>4, <1>5, <1>6, <1>7, <1>8, <1>9, <1>10, <1>11, <1>12, <1>13
     DEF Processor

LEMMA NextIInv == IInv /\ [Next]_vars => IInv'
<1> SUFFICES ASSUME IInv, [Next]_vars PROVE IInv'
  OBVIOUS
<1> USE DEF IInv, TypeOK, ChocksInv, LandedInv, Phases, Airborne, Time, airborneVars, locals
<1>1. CASE Processor
  BY <1>1, ProcessorIInv
<1>2. CASE WatchChocks
  <2>1. sim.chocks \in BOOLEAN
    BY DEF Sim, Readings
  <2> QED
    BY <1>2, <2>1 DEF WatchChocks
<1>3. CASE Elapse
  BY <1>3 DEF Elapse
<1>4. CASE Simulator
  BY <1>4 DEF Simulator
<1>5. CASE UNCHANGED vars
  BY <1>5 DEF vars
<1> QED
  BY <1>1, <1>2, <1>3, <1>4, <1>5 DEF Next

LEMMA Invariance == Spec => []IInv
  BY InitIInv, NextIInv, PTL DEF Spec

\* The processor stays within its phases, the places a phase is suspended in and the
\* values of the simulator, and watches the chocks only when it has left them.
THEOREM TypeCorrect == Spec => []TypeOK
<1>1. IInv => TypeOK
  BY DEF IInv
<1> QED
  BY <1>1, Invariance, PTL

-----------------------------------------------------------------------------
(* The step simulation *)

LEMMA InitRefined == Init => Promise!Init
<1> SUFFICES ASSUME Init PROVE Promise!Init
  OBVIOUS
<1>1. CASE ~enginesRunning /\ sim.chocks
  BY <1>1 DEF Init, Promise!Init, Stage, ChocksSet, EventOf, Airborne
<1>2. CASE ~enginesRunning /\ ~sim.chocks
  BY <1>2 DEF Init, Promise!Init, Stage, ChocksSet, EventOf, Airborne
<1>3. CASE enginesRunning
  BY <1>3 DEF Init, Promise!Init, Stage, ChocksSet, EventOf, Airborne
<1> QED
  BY <1>1, <1>2, <1>3

\* What stage a phase is in, without the CASE.
LEMMA StageOf ==
  ASSUME phase \in Phases
  PROVE  /\ phase \in {"engineShutdown", "onChocks"} => Stage = "parked"
         /\ phase = "taxi" => Stage = "taxi"
         /\ phase = "takeoff" => Stage = "rolling"
         /\ phase \in Airborne /\ at = "rollout" /\ landed => Stage = "landed"
         /\ phase \in Airborne /\ at = "rollout" /\ ~landed => Stage = "touched"
         /\ phase = "aboveTenThousand" /\ at # "rollout" => Stage = "high"
         /\ phase \in Airborne \ {"aboveTenThousand"} /\ at # "rollout" => Stage = "flying"
  BY DEF Stage, Phases, Airborne

\* ... and after a step.
LEMMA StageAfter ==
  ASSUME phase' \in Phases
  PROVE  /\ phase' \in {"engineShutdown", "onChocks"} => Stage' = "parked"
         /\ phase' = "taxi" => Stage' = "taxi"
         /\ phase' = "takeoff" => Stage' = "rolling"
         /\ phase' \in Airborne /\ at' = "rollout" /\ landed' => Stage' = "landed"
         /\ phase' \in Airborne /\ at' = "rollout" /\ ~landed' => Stage' = "touched"
         /\ phase' = "aboveTenThousand" /\ at' # "rollout" => Stage' = "high"
         /\ phase' \in Airborne \ {"aboveTenThousand"} /\ at' # "rollout" => Stage' = "flying"
  BY DEF Stage, Phases, Airborne

\* Outside onChocks the chocks are set as long as they are watched, and in onChocks as
\* long as they have not been released; the same after a step.
LEMMA ChocksSetOf ==
  ASSUME IInv, IInv'
  PROVE  /\ phase # "onChocks" => ChocksSet = watching
         /\ phase = "onChocks" => ChocksSet = ~chocksReleased
         /\ phase' # "onChocks" => ChocksSet' = watching'
         /\ phase' = "onChocks" => ChocksSet' = ~chocksReleased'
         /\ ChocksSet \in BOOLEAN /\ ChocksSet' \in BOOLEAN
  BY DEF ChocksSet, IInv, TypeOK, ChocksInv

\* A step that triggers nothing, and leaves the stage and the chocks.
LEMMA Silent ==
  ASSUME event' = None, Stage' = Stage, ChocksSet' = ChocksSet
  PROVE  Promise!Next
  BY DEF Promise!Next, Promise!Silence

LEMMA ParkedRefined ==
  ASSUME IInv, IInv', EngineShutdown \/ EngineStart
  PROVE  Promise!Next
<1> USE DEF IInv, TypeOK, In
<1>1. Stage = "parked" /\ ChocksSet = watching /\ watching = FALSE
  <2>1. phase = "engineShutdown" /\ at # "started"
    BY DEF EngineShutdown, EngineStart
  <2>2. watching = FALSE
    BY <2>1
  <2> QED
    BY <2>1, <2>2, StageOf, ChocksSetOf
<1>2. CASE EngineShutdown /\ sim.chocks
  <2>1. phase' = "onChocks" /\ event' = "chocksSet" /\ chocksReleased' = FALSE
    BY <1>2 DEF EngineShutdown, Enter, EventOf, setFlightPhase
  <2>2. Stage' = "parked" /\ ChocksSet' = TRUE
    BY <2>1, StageAfter, ChocksSetOf
  <2> QED
    BY <1>1, <2>1, <2>2 DEF Promise!Next, Promise!Ground, Promise!Chocks
<1>3. CASE EngineStart /\ enginesStarted
  <2>1. phase' = "taxi" /\ event' = "enginesStarted" /\ watching' = watching
    BY <1>1, <1>3 DEF EngineStart, setFlightPhase
  <2>2. Stage' = "taxi" /\ ChocksSet' = ChocksSet
    BY <1>1, <2>1, StageAfter, ChocksSetOf
  <2> QED
    BY <1>1, <2>1, <2>2 DEF Promise!Next, Promise!Ground, Promise!Moves
<1>4. CASE (EngineShutdown /\ ~sim.chocks) \/ (EngineStart /\ ~enginesStarted)
  <2>1. phase' = phase /\ phase = "engineShutdown" /\ event' = None /\ watching' = watching
    BY <1>4 DEF EngineShutdown, EngineStart, Stays, Goes
  <2>2. Stage' = Stage /\ ChocksSet' = ChocksSet
    BY <1>1, <2>1, StageAfter, ChocksSetOf
  <2> QED
    BY <2>1, <2>2, Silent
<1> QED
  BY <1>2, <1>3, <1>4

LEMMA OnChocksRefined ==
  ASSUME IInv, IInv', OnChocks \/ EngineStartOnChocks \/ LeaveChocks
  PROVE  Promise!Next
<1> USE DEF IInv, TypeOK, In
<1>1. Stage = "parked" /\ phase = "onChocks" /\ ChocksSet = ~chocksReleased
  <2>1. phase = "onChocks"
    BY DEF OnChocks, EngineStartOnChocks, LeaveChocks
  <2> QED
    BY <2>1, StageOf, ChocksSetOf
<1>2. CASE LeaveChocks
  <2>1. phase' = "taxi" /\ event' = "enginesStarted" /\ watching' = watching
    BY <1>2 DEF LeaveChocks, setFlightPhase
  <2>2. Stage' = "taxi" /\ ChocksSet' = watching
    BY <2>1, StageAfter, ChocksSetOf
  <2>3. watching = ~chocksReleased
    BY <1>2 DEF LeaveChocks, ChocksInv
  <2> QED
    BY <1>1, <2>1, <2>2, <2>3 DEF Promise!Next, Promise!Ground, Promise!Moves
<1>3. CASE checkChocksReleased /\ phase' = phase
  <2>1. Stage' = Stage /\ ChocksSet' = ~chocksReleased'
    BY <1>1, <1>3, StageAfter, ChocksSetOf
  <2>2. CASE ~chocksReleased /\ ~sim.chocks
    <3>1. event' = "chocksReleased" /\ ChocksSet' = FALSE /\ ChocksSet = TRUE
      BY <1>1, <1>3, <2>1, <2>2 DEF checkChocksReleased
    <3> QED
      BY <2>1, <3>1 DEF Promise!Next, Promise!Ground, Promise!Chocks
  <2>3. CASE chocksReleased \/ sim.chocks
    <3>1. event' = None /\ chocksReleased' = chocksReleased
      BY <1>3, <2>3 DEF checkChocksReleased
    <3> QED
      BY <1>1, <2>1, <3>1, Silent
  <2> QED
    BY <2>2, <2>3
<1>4. CASE EngineStartOnChocks /\ ~enginesStarted
  <2>1. phase' = phase /\ event' = None /\ chocksReleased' = chocksReleased
    BY <1>4 DEF EngineStartOnChocks
  <2>2. Stage' = Stage /\ ChocksSet' = ChocksSet
    BY <1>1, <2>1, StageAfter, ChocksSetOf
  <2> QED
    BY <2>1, <2>2, Silent
<1> QED
  BY <1>2, <1>3, <1>4 DEF OnChocks, EngineStartOnChocks

\* A step in which the processor is not, and does not get, on chocks, and that does
\* not end the watch for them.
LEMMA ChocksKept ==
  ASSUME IInv, IInv', phase # "onChocks", phase' # "onChocks", watching' = watching
  PROVE  ChocksSet' = ChocksSet
BY ChocksSetOf

LEMMA TaxiRefined ==
  ASSUME IInv, IInv', Taxi \/ Spooling
  PROVE  Promise!Next
<1> USE DEF IInv, TypeOK, In
<1>1. phase = "taxi" /\ Stage = "taxi"
  BY StageOf DEF Taxi, Spooling
<1>2. CASE phase' = "taxi" /\ event' = None /\ watching' = watching
  <2>1. Stage' = "taxi" /\ ChocksSet' = ChocksSet
    BY <1>1, <1>2, StageAfter, ChocksKept
  <2> QED
    BY <1>1, <1>2, <2>1, Silent
<1>3. CASE Taxi /\ Enter("engineShutdown")
  <2>1. phase' = "engineShutdown" /\ event' = "engineShutdown" /\ watching' = FALSE
    BY <1>3 DEF Enter, EventOf, setFlightPhase
  <2>2. Stage' = "parked" /\ ChocksSet' = FALSE
    BY <2>1, StageAfter, ChocksSetOf
  <2> QED
    BY <1>1, <2>1, <2>2 DEF Promise!Next, Promise!Ground
<1>4. CASE Spooling /\ Enter("takeoff")
  <2>1. phase' = "takeoff" /\ event' = "takeoffInitiated" /\ watching' = watching
    BY <1>4 DEF Enter, EventOf, setFlightPhase
  <2>2. Stage' = "rolling" /\ ChocksSet' = ChocksSet
    BY <1>1, <2>1, StageAfter, ChocksKept
  <2> QED
    BY <1>1, <2>1, <2>2 DEF Promise!Next, Promise!Takeoff, Promise!Moves
<1>5. Taxi => Enter("engineShutdown") \/ (phase' = phase /\ event' = None /\ watching' = watching)
  BY DEF Taxi, Stays, Goes
<1>6. Spooling => Enter("takeoff") \/ (phase' = phase /\ event' = None /\ watching' = watching)
  BY DEF Spooling, Stays, Goes
<1> QED
  BY <1>1, <1>2, <1>3, <1>4, <1>5, <1>6

LEMMA TakeoffRefined ==
  ASSUME IInv, IInv', TakeoffRoll \/ LiftOff
  PROVE  Promise!Next
<1> USE DEF IInv, TypeOK, In
<1>1. phase = "takeoff" /\ Stage = "rolling"
  BY StageOf DEF TakeoffRoll, LiftOff
<1>2. CASE phase' = "takeoff" /\ event' = None /\ watching' = watching
  <2>1. Stage' = "rolling" /\ ChocksSet' = ChocksSet
    BY <1>1, <1>2, StageAfter, ChocksKept
  <2> QED
    BY <1>1, <1>2, <2>1, Silent
<1>3. CASE /\ phase' = "taxi" /\ watching' = watching
           /\ event' \in {"takeoffCancelled", "takeoffAborted"}
  <2>1. Stage' = "taxi" /\ ChocksSet' = ChocksSet
    BY <1>1, <1>3, StageAfter, ChocksKept
  <2> QED
    BY <1>1, <1>3, <2>1 DEF Promise!Next, Promise!Takeoff, Promise!Moves
<1>4. CASE /\ phase' \in {"flyingCircuits", "climbout"} /\ at' = "loop"
           /\ watching' = watching /\ event' = "airborne"
  <2>1. Stage' = "flying"
    BY <1>4, StageAfter DEF Airborne
  <2>2. ChocksSet' = ChocksSet
    BY <1>1, <1>4, ChocksKept
  <2> QED
    BY <1>1, <1>4, <2>1, <2>2 DEF Promise!Next, Promise!Takeoff, Promise!Moves
<1>5. TakeoffRoll => \/ phase' = phase /\ event' = None /\ watching' = watching
                     \/ /\ phase' = "taxi" /\ watching' = watching
                        /\ event' \in {"takeoffCancelled", "takeoffAborted"}
  <2>1. (\E count : RollsOn(count)) => phase' = phase /\ event' = None /\ watching' = watching
    BY DEF RollsOn, Goes
  <2>2. ASSUME NEW e \in {"takeoffCancelled", "takeoffAborted"}, setFlightPhase("taxi", e)
        PROVE  phase' = "taxi" /\ watching' = watching /\ event' = e
    BY <2>2 DEF setFlightPhase
  <2>3. countdown \in {None, "recent", "past"} /\ Commits \in BOOLEAN /\ Aborts \in BOOLEAN
    BY DEF Time, Commits, Aborts
  <2>4. TakeoffRoll => \/ \E count : RollsOn(count)
                       \/ setFlightPhase("taxi", "takeoffCancelled")
                       \/ setFlightPhase("taxi", "takeoffAborted")
    BY <2>3 DEF TakeoffRoll
  <2> QED
    BY <2>1, <2>2, <2>4
<1>6. LiftOff => /\ phase' \in {"flyingCircuits", "climbout"} /\ at' = "loop"
                 /\ watching' = watching /\ event' = "airborne"
  BY DEF LiftOff, setFlightPhase
<1> QED
  BY <1>1, <1>2, <1>3, <1>4, <1>5, <1>6

\* The phases in the air are those of an aeroplane that flies, or rolls out.
LEMMA AirborneStage ==
  ASSUME IInv, phase \in Airborne, at \in {"loop", "rollout"}
  PROVE  /\ phase # "onChocks"
         /\ at = "rollout" => Stage = IF landed THEN "landed" ELSE "touched"
         /\ at = "loop" => ~landed
         /\ at = "loop" => Stage = IF phase = "aboveTenThousand" THEN "high" ELSE "flying"
<1>1. phase \in Phases /\ phase # "onChocks" /\ landed \in BOOLEAN
  BY DEF IInv, TypeOK, Phases, Airborne
<1>2. at = "loop" => ~landed
  BY <1>1 DEF IInv, LandedInv
<1> QED
  BY <1>1, <1>2, StageOf

LEMMA GoAroundRefined ==
  ASSUME IInv, IInv', phase \in Airborne, at \in {"loop", "rollout"}, GoAround,
         phase # "aboveTenThousand" \/ at = "rollout"
  PROVE  Promise!Next
<1>1. phase' = "flyingCircuits" /\ at' = "loop" /\ event' = "goAround" /\ watching' = watching
  BY DEF GoAround, setFlightPhase, IInv, TypeOK
<1>2. Stage' = "flying"
  BY <1>1, StageAfter DEF Airborne, IInv, TypeOK
<1>3. ChocksSet' = ChocksSet
  BY <1>1, AirborneStage, ChocksKept
<1>4. Stage \in {"flying", "touched", "landed"}
  BY AirborneStage
<1> QED
  BY <1>1, <1>2, <1>3, <1>4 DEF Promise!Next, Promise!Flight, Promise!Moves

LEMMA LandingRefined ==
  ASSUME IInv, IInv', Touchdown \/ Rollout
  PROVE  Promise!Next
<1> USE DEF IInv, TypeOK, In
<1>1. phase \in Airborne /\ phase # "onChocks" /\ landed \in BOOLEAN
  BY AirborneStage DEF Touchdown, Rollout
<1>2. CASE Touchdown
  <2>1. /\ phase' = phase /\ at' = "rollout" /\ landed' = landed
        /\ event' = "touchdown" /\ watching' = watching
    BY <1>2 DEF Touchdown, Goes
  <2>2. ~landed /\ Stage \in {"flying", "high"}
    BY <1>1, <1>2, AirborneStage DEF Touchdown
  <2>3. Stage' = "touched" /\ ChocksSet' = ChocksSet
    BY <1>1, <2>1, <2>2, StageAfter, ChocksKept
  <2> QED
    BY <2>1, <2>2, <2>3 DEF Promise!Next, Promise!Flight, Promise!Moves
<1>3. CASE Rollout /\ GoAround
  BY <1>1, <1>3, GoAroundRefined DEF Rollout
<1>4. CASE Rollout /\ \E time : RollsOut(None, time, landed)
  <2>1. /\ phase' = phase /\ at' = "rollout" /\ at = "rollout" /\ landed' = landed
        /\ event' = None /\ watching' = watching
    BY <1>4 DEF Rollout, RollsOut, Goes
  <2>2. Stage' = Stage
    BY <1>1, <2>1, StageOf, StageAfter
  <2>3. ChocksSet' = ChocksSet
    BY <1>1, <2>1, ChocksKept
  <2> QED
    BY <2>1, <2>2, <2>3, Silent
<1>5. CASE Rollout /\ RollsOut("landing", "past", TRUE) /\ ~landed
  <2>1. /\ phase' = phase /\ at' = "rollout" /\ at = "rollout" /\ landed' = TRUE
        /\ event' = "landing" /\ watching' = watching
    BY <1>5 DEF Rollout, RollsOut, Goes
  <2>2. Stage = "touched" /\ Stage' = "landed"
    BY <1>1, <1>5, <2>1, StageOf, StageAfter
  <2>3. ChocksSet' = ChocksSet
    BY <1>1, <2>1, ChocksKept
  <2> QED
    BY <2>1, <2>2, <2>3 DEF Promise!Next, Promise!Flight, Promise!Moves
<1>6. CASE Rollout /\ Enter("taxi")
  <2>1. phase' = "taxi" /\ event' = None /\ watching' = watching /\ at = "rollout"
    <3>1. watching \in BOOLEAN /\ EventOf("taxi") = None
      BY DEF EventOf
    <3> QED
      BY <1>6, <3>1, NoneAssumption DEF Rollout, Enter, setFlightPhase
  <2>2. Stage \in {"touched", "landed"} /\ Stage' = "taxi"
    BY <1>1, <2>1, AirborneStage, StageAfter
  <2>3. ChocksSet' = ChocksSet
    BY <1>1, <2>1, ChocksKept
  <2> QED
    BY <2>1, <2>2, <2>3 DEF Promise!Next, Promise!Flight, Promise!Moves
<1>7. Rollout => \/ GoAround
                 \/ \E time : RollsOut(None, time, landed)
                 \/ RollsOut("landing", "past", TRUE) /\ ~landed
                 \/ Enter("taxi")
  <2>1. touchdownTime \in {None, "recent", "past"}
    BY DEF Time
  <2> QED
    BY <1>1, <2>1 DEF Rollout
<1> QED
  BY <1>2, <1>3, <1>4, <1>5, <1>6, <1>7

LEMMA FlyingRefined ==
  ASSUME IInv, IInv', AwaitClimbThrust \/ Flying
  PROVE  Promise!Next
<1> USE DEF IInv, TypeOK, In
<1>1. /\ phase \in Airborne /\ at = "loop" /\ phase # "onChocks" /\ ~landed
      /\ Stage = IF phase = "aboveTenThousand" THEN "high" ELSE "flying"
  BY AirborneStage DEF AwaitClimbThrust, Flying
<1>2. CASE Stays("loop", None)
  <2>1. /\ phase' = phase /\ at' = at /\ landed' = landed
        /\ event' = None /\ watching' = watching
    BY <1>1, <1>2 DEF Stays, Goes, locals
  <2>2. Stage' = Stage /\ ChocksSet' = ChocksSet
    BY <1>1, <2>1, StageAfter, ChocksKept
  <2> QED
    BY <2>1, <2>2, Silent
<1>3. CASE GoAround /\ phase # "aboveTenThousand"
  BY <1>1, <1>3, GoAroundRefined
<1>4. CASE Enter("aboveTenThousand") /\ phase # "aboveTenThousand"
  <2>1. /\ phase' = "aboveTenThousand" /\ at' = "loop"
        /\ event' = "aboveTenThousand" /\ watching' = watching
    BY <1>4 DEF Enter, EventOf, setFlightPhase
  <2>2. Stage = "flying" /\ Stage' = "high" /\ ChocksSet' = ChocksSet
    BY <1>1, <1>4, <2>1, StageAfter, ChocksKept
  <2> QED
    BY <2>1, <2>2 DEF Promise!Next, Promise!Flight, Promise!Moves
<1>5. CASE Enter("belowTenThousand") /\ phase = "aboveTenThousand"
  <2>1. /\ phase' = "belowTenThousand" /\ at' = "loop"
        /\ event' = "belowTenThousand" /\ watching' = watching
    BY <1>5 DEF Enter, EventOf, setFlightPhase
  <2>2. Stage' = "flying"
    BY <2>1, StageAfter DEF Airborne
  <2>3. ChocksSet' = ChocksSet
    BY <1>1, <2>1, ChocksKept
  <2> QED
    BY <1>1, <1>5, <2>1, <2>2, <2>3 DEF Promise!Next, Promise!Flight, Promise!Moves
<1>6. Flying => \/ GoAround /\ phase # "aboveTenThousand"
                \/ Enter("aboveTenThousand") /\ phase # "aboveTenThousand"
                \/ Enter("belowTenThousand") /\ phase = "aboveTenThousand"
                \/ Stays("loop", None)
  BY DEF Flying
<1> QED
  BY <1>2, <1>3, <1>4, <1>5, <1>6 DEF AwaitClimbThrust

\* The callback watches outside onChocks, and triggers its event once.
LEMMA WatchChocksRefined ==
  ASSUME IInv, IInv', WatchChocks
  PROVE  Promise!Next
<1>1. /\ watching = TRUE /\ phase' = phase /\ at' = at /\ landed' = landed
      /\ watching' = sim.chocks /\ phase # "onChocks"
      /\ event' = IF sim.chocks THEN None ELSE "chocksReleased"
  BY DEF WatchChocks, locals, IInv, TypeOK
<1>2. Stage' = Stage
  BY <1>1 DEF Stage
<1>3. sim.chocks \in BOOLEAN /\ ChocksSet = TRUE /\ ChocksSet' = sim.chocks
  BY <1>1, ChocksSetOf DEF IInv, TypeOK, Sim, Readings
<1>4. CASE sim.chocks
  BY <1>1, <1>2, <1>3, <1>4, Silent
<1>5. CASE ~sim.chocks
  BY <1>1, <1>2, <1>3, <1>5 DEF Promise!Next, Promise!Ground, Promise!Chocks
<1> QED
  BY <1>4, <1>5

LEMMA OthersRefined ==
  ASSUME Elapse \/ Simulator
  PROVE  Promise!Next
<1>1. /\ event' = None /\ phase' = phase /\ at' = at /\ landed' = landed
      /\ chocksReleased' = chocksReleased /\ watching' = watching
  BY DEF Elapse, Simulator, locals
<1>2. Stage' = Stage /\ ChocksSet' = ChocksSet
  BY <1>1 DEF Stage, ChocksSet
<1> QED
  BY <1>1, <1>2, Silent

LEMMA StepRefined == IInv /\ IInv' /\ [Next]_vars => [Promise!Next]_(Promise!vars)
<1> SUFFICES ASSUME IInv, IInv', [Next]_vars PROVE [Promise!Next]_(Promise!vars)
  OBVIOUS
<1>1. CASE Processor
  BY <1>1, ParkedRefined, OnChocksRefined, TaxiRefined, TakeoffRefined, LandingRefined,
     FlyingRefined DEF Processor
<1>2. CASE WatchChocks
  BY <1>2, WatchChocksRefined
<1>3. CASE Elapse \/ Simulator
  BY <1>3, OthersRefined
<1>4. CASE UNCHANGED vars
  BY <1>4 DEF vars, locals, Promise!vars, Stage, ChocksSet
<1> QED
  BY <1>1, <1>2, <1>3, <1>4 DEF Next

\* Whatever the simulator does, the events are triggered in the orders that the actions,
\* the callouts and the checklists rely on, as FlightEvents states them.
THEOREM Refinement == Spec => ImplementsFlightEvents
<1>1. IInv => TypeOK
  BY DEF IInv
<1>2. Spec => Promise!Spec
  BY InitRefined, StepRefined, Invariance, PTL DEF Spec, Promise!Spec
<1> QED
  BY <1>1, <1>2, Invariance, PTL DEF ImplementsFlightEvents

-----------------------------------------------------------------------------
(* The checks before takeoff (ControlChecks.tla), driven by every order of events *)
(* that FlightEvents allows: its stages and chocks need not be those of a phase.  *)

\* Without voice control no command is ever activated, recognized or put aside.
VoiceInv ==
  ~voice => /\ command = [c \in Commands |-> "Inactive"]
            /\ recognized = {}
            /\ ~belated
            /\ ~brakeCheckVcWasActive

\* Outside the taxi the command "brake check" is off, so that a belated check of the
\* flight controls has nothing to put aside; it is ignored then only because the brakes
\* have been checked, until chocksSet forgets that, on the parked aeroplane, or because
\* a check has failed.
CommandInv ==
  /\ brakeCheckVcWasActive => controls \in {"pilot", "pm"}
  /\ stage # "taxi" => command["brakeCheck"] # "Active" /\ ~brakeCheckVcWasActive
  /\ stage # "parked" /\ command["brakeCheck"] = "Ignore"
       => brakesChecked \/ brakeCheckVcWasActive \/ failed

ChecksInv == ChecksTypeOK /\ VoiceInv /\ CommandInv /\ ChecksInTaxiOnly

-----------------------------------------------------------------------------
(* Lemmas about the operators *)

\* Looking at an axis adds parts of that axis only.
LEMMA CheckAxisParts ==
  ASSUME NEW parts \in SUBSET Parts, NEW axis \in Axes, NEW reading
  PROVE  checkAxis(axis, parts, reading) \in SUBSET Parts
<1>1. Ends[axis] \subseteq Parts /\ Neutral[axis] \in Parts
  BY DEF Parts
<1> QED
  BY <1>1 DEF checkAxis

LEMMA PfSideCheckParts ==
  ASSUME NEW parts \in SUBSET Parts, NEW reading
  PROVE  pfSideCheck(parts, reading) \in SUBSET Parts
<1> DEFINE elevator == IF InProgress("ailerons", parts) \/ Done("elevator", parts) THEN parts
                       ELSE checkAxis("elevator", parts, reading)
<1>1. "elevator" \in Axes /\ "ailerons" \in Axes /\ "rudder" \in Axes
  BY DEF Axes
<1>2. elevator \in SUBSET Parts
  BY <1>1, CheckAxisParts
<1>3. checkAxis("rudder", parts, reading) \in SUBSET Parts
  BY <1>1, CheckAxisParts
<1>4. checkAxis("ailerons", elevator, reading) \in SUBSET Parts
  BY <1>1, <1>2, CheckAxisParts
<1> HIDE DEF elevator
<1>5. pfSideCheck(parts, reading)
        = IF Done("elevator", parts) /\ Done("ailerons", parts)
          THEN checkAxis("rudder", parts, reading)
          ELSE IF InProgress("elevator", elevator) \/ Done("ailerons", parts) THEN elevator
               ELSE checkAxis("ailerons", elevator, reading)
  BY DEF pfSideCheck, elevator
<1> QED
  BY <1>2, <1>3, <1>4, <1>5

\* Where the flight is before and after each flightEvent that has actions here.
LEMMA FlightStep ==
  ASSUME Flight!TypeOK, Flight!Next
  PROVE  /\ Flight!TypeOK'
         /\ flightEvent' = "chocksSet" => stage = "parked" /\ stage' = "parked"
         /\ flightEvent' = "enginesStarted" => stage = "parked" /\ stage' = "taxi"
         /\ flightEvent' = "engineShutdown" => stage = "taxi" /\ stage' = "parked"
         /\ flightEvent' = "takeoffInitiated" => stage = "taxi" /\ stage' = "rolling"
         /\ flightEvent' \in {"takeoffCancelled", "takeoffAborted"} =>
              stage = "rolling" /\ stage' = "taxi"
         /\ flightEvent' = "airborne" => stage = "rolling" /\ stage' = "flying"
         /\ flightEvent' \notin {"chocksSet", "enginesStarted", "engineShutdown",
                                  "takeoffInitiated", "takeoffCancelled", "takeoffAborted",
                                  "airborne"} =>
              \/ stage' = stage
              \/ stage \notin {"parked", "taxi"} /\ stage' # "parked"
<1> USE NoEventAssumption DEF Flight!TypeOK, Flight!Stages, Flight!Events,
                          Flight!Moves, Flight!Chocks
<1>1. CASE Flight!Takeoff
  BY <1>1 DEF Flight!Takeoff
<1>2. CASE Flight!Flight
  BY <1>2 DEF Flight!Flight
<1>3. CASE Flight!Ground
  BY <1>3 DEF Flight!Ground
<1>4. CASE Flight!Silence
  BY <1>4 DEF Flight!Silence
<1> QED
  BY <1>1, <1>2, <1>3, <1>4 DEF Flight!Next

\* A check puts the command aside only if it is active.
LEMMA BeginCheckCommand ==
  ASSUME ChecksInv, BeginCheck, controls \notin {"pilot", "pm"}
  PROVE  /\ command' \in [Commands -> States]
         /\ brakeCheckVcWasActive' \in BOOLEAN
         /\ command'["brakeCheck"] = "Active" => command["brakeCheck"] = "Active"
         /\ command'["brakeCheck"] = "Ignore" /\ ~brakeCheckVcWasActive' =>
              command["brakeCheck"] = "Ignore" /\ ~brakeCheckVcWasActive
         /\ ~voice \/ stage # "taxi" => command' = command /\ ~brakeCheckVcWasActive'
<1>1. command \in [Commands -> States] /\ ~brakeCheckVcWasActive /\ "brakeCheck" \in Commands
  BY DEF ChecksInv, ChecksTypeOK, CommandInv, Commands
<1>2. /\ brakeCheckVcWasActive' = (voice /\ command["brakeCheck"] = "Active")
      /\ brakeCheckVcWasActive' \in BOOLEAN
  BY DEF BeginCheck, ChecksInv, ChecksTypeOK
<1>3. CASE brakeCheckVcWasActive'
  <2>1. command' = [command EXCEPT !["brakeCheck"] = "Ignore"]
    BY <1>3 DEF BeginCheck
  <2>3. command' \in [Commands -> States] /\ command'["brakeCheck"] = "Ignore"
    BY <1>1, <2>1 DEF States
  <2>2. stage = "taxi" /\ voice
    BY <1>2, <1>3 DEF ChecksInv, CommandInv
  <2> QED
    BY <1>2, <1>3, <2>2, <2>3
<1>4. CASE ~brakeCheckVcWasActive'
  <2>1. command' = command
    BY <1>4 DEF BeginCheck
  <2> QED
    BY <1>1, <1>2, <1>4, <2>1
<1> QED
  BY <1>3, <1>4

\* The invariant survives the beginning of a check, if the rest stays as it is and the
\* check is begun in time, or is known to be late.
LEMMA BeginCheckIInv ==
  ASSUME ChecksInv, BeginCheck, controls \notin {"pilot", "pm"},
         UNCHANGED <<flightVars, voice, flightControlsChecked, brakesChecked, brakes, failed>>,
         recognized' \in SUBSET recognized,
         belated' \in BOOLEAN, belated' => voice \/ belated, stage # "taxi" => belated'
  PROVE  ChecksInv'
<1>1. /\ stage' = stage /\ chocks' = chocks /\ flightEvent' = flightEvent /\ voice' = voice
      /\ brakesChecked' = brakesChecked /\ failed' = failed
  BY DEF flightVars
<1>2. ChecksTypeOK'
  <2>1. Flight!TypeOK'
    BY <1>1 DEF ChecksInv, ChecksTypeOK, Flight!TypeOK
  <2>2. /\ controls' = "pilot" /\ checked' = {} /\ isActive' = voice /\ late' = FALSE
        /\ checkingFlightControls' = (checkingFlightControls \/ voice)
    BY DEF BeginCheck
  <2> QED
    BY <1>1, <2>1, <2>2, BeginCheckCommand DEF ChecksInv, ChecksTypeOK
<1>3. VoiceInv'
  BY <1>1, BeginCheckCommand DEF ChecksInv, VoiceInv
<1>4. CommandInv'
  <2>1. controls' = "pilot" /\ ~brakeCheckVcWasActive
    BY DEF BeginCheck, ChecksInv, CommandInv
  <2> QED
    BY <1>1, <2>1, BeginCheckCommand DEF ChecksInv, CommandInv
<1>5. ChecksInTaxiOnly'
  BY <1>1 DEF ChecksInTaxiOnly
<1> QED
  BY <1>2, <1>3, <1>4, <1>5 DEF ChecksInv

\* What the end of a check leaves, done or not.
LEMMA EndCheckCommand ==
  ASSUME ChecksInv, NEW ok \in BOOLEAN, EndCheck(ok)
  PROVE  /\ command' \in [Commands -> States]
         /\ command'["brakeCheck"] =
              IF brakeCheckVcWasActive THEN "Active" ELSE command["brakeCheck"]
         /\ ~voice => command' = command
<1> DEFINE restored == IF brakeCheckVcWasActive THEN [command EXCEPT !["brakeCheck"] = "Active"]
                       ELSE command
<1>1. command \in [Commands -> States] /\ {"brakeCheck", "flightControlsCheck"} = Commands
  BY DEF ChecksInv, ChecksTypeOK, Commands
<1>2. /\ restored \in [Commands -> States]
      /\ restored["brakeCheck"] =
           IF brakeCheckVcWasActive THEN "Active" ELSE command["brakeCheck"]
      /\ ~voice => restored = command
  BY <1>1 DEF States, ChecksInv, VoiceInv
<1> HIDE DEF restored
<1>3. command' = IF ok /\ voice THEN [restored EXCEPT !["flightControlsCheck"] = "Inactive"]
                 ELSE restored
  BY DEF EndCheck, restored
<1> QED
  BY <1>1, <1>2, <1>3 DEF States

LEMMA EndCheckIInv ==
  ASSUME ChecksInv, NEW ok \in BOOLEAN, EndCheck(ok), controls \in {"pilot", "pm"},
         UNCHANGED <<flightVars, voice, recognized, brakesChecked, brakes, failed>>
  PROVE  ChecksInv'
<1>1. /\ stage' = stage /\ chocks' = chocks /\ flightEvent' = flightEvent /\ voice' = voice
      /\ recognized' = recognized /\ brakesChecked' = brakesChecked /\ brakes' = brakes
      /\ failed' = failed
  BY DEF flightVars
<1>2. /\ checkingFlightControls' = FALSE
      /\ flightControlsChecked' = (flightControlsChecked \/ ok)
      /\ controls' = (IF ok \/ voice THEN "none" ELSE "again") /\ belated' = FALSE
      /\ checked' = {} /\ isActive' = FALSE /\ late' = FALSE /\ brakeCheckVcWasActive' = FALSE
  BY DEF EndCheck, NoCheck
<1>3. ChecksTypeOK'
  <2>1. Flight!TypeOK'
    BY <1>1 DEF ChecksInv, ChecksTypeOK, Flight!TypeOK
  <2> QED
    BY <1>1, <1>2, <2>1, EndCheckCommand DEF ChecksInv, ChecksTypeOK
<1>4. VoiceInv'
  BY <1>1, <1>2, EndCheckCommand DEF ChecksInv, VoiceInv
<1>5. CommandInv'
  BY <1>1, <1>2, EndCheckCommand DEF ChecksInv, CommandInv
<1>6. ChecksInTaxiOnly'
  BY <1>1, <1>2 DEF ChecksInv, VoiceInv, ChecksInTaxiOnly
<1> QED
  BY <1>3, <1>4, <1>5, <1>6 DEF ChecksInv

-----------------------------------------------------------------------------
(* The steps *)

LEMMA InitChecks == ChecksInit => ChecksInv
<1> SUFFICES ASSUME ChecksInit PROVE ChecksInv
  OBVIOUS
<1> USE DEF ChecksInit
<1>1. Flight!TypeOK
  BY DEF Flight!Init, Flight!TypeOK, Flight!Stages, Flight!Events
<1>2. command \in [Commands -> States] /\ command["brakeCheck"] # "Ignore"
  BY DEF States, Commands
<1>3. flightEvent = "enginesStarted" => stage = "taxi"
  BY NoEventAssumption DEF Flight!Init, Flight!Events
<1>4. stage # "taxi" => command["brakeCheck"] # "Active" /\ controls = "none"
  <2>1. stage # "taxi" => flightEvent # "enginesStarted"
    BY <1>3
  <2> QED
    BY <2>1 DEF Commands
<1>5. ChecksTypeOK
  BY <1>1, <1>2 DEF ChecksTypeOK
<1>6. VoiceInv
  BY DEF VoiceInv
<1> QED
  BY <1>2, <1>4, <1>5, <1>6 DEF ChecksInv, CommandInv, ChecksInTaxiOnly

LEMMA ControlsIInv ==
  ASSUME ChecksInv, Again \/ PilotSide \/ PmSide \/ CheckFails \/ TenSeconds
  PROVE  ChecksInv'
<1>1. CASE Again
  <2>1. CASE flightControlsChecked
    <3>1. /\ controls' = "hung" /\ NoCheck
          /\ UNCHANGED <<stage, chocks, flightEvent, voice, command, recognized, belated, brakes,
                         failed, checkingFlightControls, flightControlsChecked, brakesChecked>>
      BY <1>1, <2>1 DEF Again, flightVars
    <3>2. ChecksTypeOK' /\ VoiceInv'
      BY <3>1 DEF ChecksInv, ChecksTypeOK, VoiceInv, NoCheck, Flight!TypeOK
    <3>3. CommandInv' /\ ChecksInTaxiOnly'
      BY <1>1, <3>1 DEF ChecksInv, CommandInv, ChecksInTaxiOnly, NoCheck, Again
    <3> QED
      BY <3>2, <3>3 DEF ChecksInv
  <2>2. CASE ~flightControlsChecked
    <3>1. BeginCheck /\ controls = "again" /\ recognized' = recognized /\ belated' = belated
      BY <1>1, <2>2 DEF Again
    <3>2. belated \in BOOLEAN /\ (belated => voice) /\ (stage # "taxi" => belated)
      BY <3>1 DEF ChecksInv, ChecksTypeOK, VoiceInv, ChecksInTaxiOnly
    <3> QED
      BY <1>1, <3>1, <3>2, BeginCheckIInv DEF Again
  <2> QED
    BY <2>1, <2>2
<1>2. CASE PilotSide /\ isActive /\ late
  BY <1>2, EndCheckIInv DEF PilotSide
<1>3. CASE PilotSide /\ ~(isActive /\ late)
  <2>1. PICK reading \in SurfaceReadings :
          /\ checked' = pfSideCheck(checked, reading)
          /\ controls' = IF Done("rudder", checked') THEN "pm" ELSE "pilot"
          /\ isActive' = (isActive \/ checked' # checked)
          /\ late' = (late /\ checked' = checked)
          /\ checkingFlightControls' = (checkingFlightControls \/ checked' # checked)
          /\ UNCHANGED <<brakeCheckVcWasActive, flightControlsChecked, command, belated>>
    BY <1>3 DEF PilotSide
  <2>2. /\ UNCHANGED <<stage, chocks, flightEvent, voice, recognized, brakesChecked, brakes,
                       failed>>
        /\ controls = "pilot"
    BY <1>3 DEF PilotSide, flightVars
  <2>3. checked' \in SUBSET Parts
    BY <2>1, PfSideCheckParts DEF ChecksInv, ChecksTypeOK
  <2>4. ChecksTypeOK' /\ VoiceInv'
    BY <2>1, <2>2, <2>3 DEF ChecksInv, ChecksTypeOK, VoiceInv, Flight!TypeOK
  <2>5. CommandInv' /\ ChecksInTaxiOnly'
    BY <2>1, <2>2 DEF ChecksInv, CommandInv, ChecksInTaxiOnly
  <2> QED
    BY <2>4, <2>5 DEF ChecksInv
<1>4. CASE PmSide
  BY <1>4, EndCheckIInv DEF PmSide
<1>5. CASE TenSeconds
  BY <1>5
     DEF TenSeconds, flightVars, voiceVars, flagVars, ChecksInv, ChecksTypeOK, VoiceInv,
         CommandInv,
              ChecksInTaxiOnly, Flight!TypeOK
<1>6. CASE CheckFails
  <2>1. /\ UNCHANGED <<stage, chocks, flightEvent, voice, command, recognized,
                       checkingFlightControls, flightControlsChecked, brakesChecked, brakes>>
        /\ controls' = "none" /\ belated' = FALSE /\ checked' = {}
        /\ isActive' = FALSE /\ late' = FALSE /\ brakeCheckVcWasActive' = FALSE
    BY <1>6 DEF CheckFails, NoCheck, flightVars, voiceVars, flagVars
  <2>2. failed' \in BOOLEAN /\ (failed \/ brakeCheckVcWasActive => failed')
    BY <1>6 DEF CheckFails
  <2>3. ChecksTypeOK' /\ VoiceInv'
    BY <2>1, <2>2 DEF ChecksInv, ChecksTypeOK, VoiceInv, Flight!TypeOK
  <2>4. CommandInv' /\ ChecksInTaxiOnly'
    BY <2>1, <2>2 DEF ChecksInv, CommandInv, ChecksInTaxiOnly
  <2> QED
    BY <2>3, <2>4 DEF ChecksInv
<1> QED
  BY <1>1, <1>2, <1>3, <1>4, <1>5, <1>6

LEMMA BrakeCheckIInv == ChecksInv /\ BrakeCheck => ChecksInv'
<1> SUFFICES ASSUME ChecksInv, BrakeCheck PROVE ChecksInv'
  OBVIOUS
<1>1. /\ UNCHANGED <<stage, chocks, flightEvent, voice, recognized, checkingFlightControls,
                     flightControlsChecked, controls, checked, isActive, late,
                     brakeCheckVcWasActive, belated, failed>>
      /\ brakes' = FALSE
  BY DEF BrakeCheck, flightVars, controlVars
<1>2. Flight!TypeOK'
  BY <1>1 DEF ChecksInv, ChecksTypeOK, Flight!TypeOK
<1>3. CASE command' = command
  <2>1. brakesChecked' \in BOOLEAN /\ (brakesChecked => brakesChecked')
    <3>1. brakesChecked' = TRUE \/ brakesChecked' = brakesChecked
      BY DEF BrakeCheck
    <3>2. brakesChecked \in BOOLEAN
      BY DEF ChecksInv, ChecksTypeOK
    <3>3. CASE brakesChecked' = TRUE
      BY <3>3
    <3>4. CASE brakesChecked' = brakesChecked
      BY <3>2, <3>4
    <3> QED
      BY <3>1, <3>3, <3>4
  <2>2. ChecksTypeOK'
    BY <1>1, <1>2, <1>3, <2>1 DEF ChecksInv, ChecksTypeOK
  <2>3. VoiceInv'
    BY <1>1, <1>3 DEF ChecksInv, VoiceInv
  <2>4. CommandInv' /\ ChecksInTaxiOnly'
    BY <1>1, <1>3, <2>1 DEF ChecksInv, CommandInv, ChecksInTaxiOnly
  <2> QED
    BY <2>2, <2>3, <2>4 DEF ChecksInv
<1>4. CASE voice /\ command' = [command EXCEPT !["brakeCheck"] = "Ignore"] /\ brakesChecked' = TRUE
  <2>1. command' \in [Commands -> States] /\ command'["brakeCheck"] = "Ignore"
    BY <1>4 DEF ChecksInv, ChecksTypeOK, Commands, States
  <2>2. ChecksTypeOK'
    BY <1>1, <1>2, <1>4, <2>1 DEF ChecksInv, ChecksTypeOK
  <2>3. VoiceInv'
    BY <1>1, <1>4 DEF VoiceInv
  <2>4. CommandInv' /\ ChecksInTaxiOnly'
    BY <1>1, <1>4, <2>1 DEF ChecksInv, CommandInv, ChecksInTaxiOnly
  <2> QED
    BY <2>2, <2>3, <2>4 DEF ChecksInv
<1> QED
  BY <1>3, <1>4 DEF BrakeCheck

LEMMA VoiceCommandsIInv ==
  ASSUME ChecksInv, NEW c \in Commands, Recognize(c) \/ TriggerVoiceCommand(c)
  PROVE  ChecksInv'
<1>1. CASE Recognize(c)
  <2>1. voice
    BY <1>1 DEF Recognize, ChecksInv, VoiceInv
  <2>2. /\ recognized' \subseteq Commands
        /\ UNCHANGED <<stage, chocks, flightEvent, voice, command, checkingFlightControls,
                       flightControlsChecked, brakesChecked, controls, checked, isActive, late,
                       brakeCheckVcWasActive, belated, brakes, failed>>
    BY <1>1 DEF Recognize, ChecksInv, ChecksTypeOK, flightVars, flagVars, controlVars
  <2>3. ChecksTypeOK' /\ VoiceInv'
    BY <2>1, <2>2 DEF ChecksInv, ChecksTypeOK, VoiceInv, Flight!TypeOK
  <2>4. CommandInv' /\ ChecksInTaxiOnly'
    BY <2>2 DEF ChecksInv, CommandInv, ChecksInTaxiOnly
  <2> QED
    BY <2>3, <2>4 DEF ChecksInv
<1>2. CASE TriggerVoiceCommand(c)
  <2>1. /\ voice /\ recognized' = recognized \ {c}
        /\ UNCHANGED <<stage, chocks, flightEvent, voice, failed>>
    BY <1>2 DEF TriggerVoiceCommand, ChecksInv, VoiceInv, flightVars
  <2>2. CASE brakes' = TRUE /\ UNCHANGED <<command, flagVars, controlVars>>
    <3>1. UNCHANGED <<command, checkingFlightControls, flightControlsChecked, brakesChecked,
                      controls, checked, isActive, late, brakeCheckVcWasActive, belated>>
      BY <2>2 DEF flagVars, controlVars
    <3>2. ChecksTypeOK' /\ VoiceInv'
      BY <2>1, <2>2, <3>1 DEF ChecksInv, ChecksTypeOK, VoiceInv, Flight!TypeOK
    <3>3. CommandInv' /\ ChecksInTaxiOnly'
      BY <2>1, <3>1 DEF ChecksInv, CommandInv, ChecksInTaxiOnly
    <3> QED
      BY <3>2, <3>3 DEF ChecksInv
  <2>3. CASE /\ StartControls
             /\ belated' = (belated \/ (controls' # controls /\ stage # "taxi"))
             /\ UNCHANGED <<brakes, flightControlsChecked, brakesChecked>>
    <3>1. CASE BeginCheck /\ controls = "none"
      <4>1. controls' # controls
        BY <3>1 DEF BeginCheck
      <4>2. belated' \in BOOLEAN /\ (stage # "taxi" => belated')
        BY <2>3, <4>1 DEF ChecksInv, ChecksTypeOK
      <4> QED
        BY <1>2, <2>1, <2>3, <3>1, <4>2, BeginCheckIInv DEF TriggerVoiceCommand, flightVars
    <3>2. CASE UNCHANGED <<controls, checked, isActive, late, brakeCheckVcWasActive,
                           checkingFlightControls, command>>
      <4>1. belated' = belated
        BY <2>3, <3>2 DEF ChecksInv, ChecksTypeOK
      <4>2. ChecksTypeOK' /\ VoiceInv'
        BY <2>1, <2>3, <3>2, <4>1 DEF ChecksInv, ChecksTypeOK, VoiceInv, Flight!TypeOK
      <4>3. CommandInv' /\ ChecksInTaxiOnly'
        BY <2>1, <2>3, <3>2, <4>1 DEF ChecksInv, CommandInv, ChecksInTaxiOnly
      <4> QED
        BY <4>2, <4>3 DEF ChecksInv
    <3> QED
      BY <2>1, <2>3, <3>1, <3>2 DEF StartControls
  <2> QED
    BY <1>2, <2>2, <2>3 DEF TriggerVoiceCommand
<1> QED
  BY <1>1, <1>2

\* Without voice control a check is only prepared: its delay comes first.
LEMMA StartWithoutVoice ==
  ASSUME ChecksInv, ~voice, StartControls
  PROVE  /\ command' = command /\ checkingFlightControls' = checkingFlightControls
         /\ controls' \in {"none", "again", "pilot", "pm", "hung"}
         /\ controls' \in {"pilot", "pm"} => controls' = controls
         /\ checked' \in SUBSET Parts /\ isActive' \in BOOLEAN /\ late' \in BOOLEAN
         /\ brakeCheckVcWasActive' = FALSE
<1>1. \/ UNCHANGED <<controls, checked, isActive, late, brakeCheckVcWasActive,
                     checkingFlightControls, command>>
      \/ controls' = "again" /\ NoCheck /\ UNCHANGED <<checkingFlightControls, command>>
  BY DEF StartControls
<1> QED
  BY <1>1 DEF NoCheck, ChecksInv, ChecksTypeOK, VoiceInv

LEMMA FlightEventIInv == ChecksInv /\ FlightEvent => ChecksInv'
<1> SUFFICES ASSUME ChecksInv, FlightEvent PROVE ChecksInv'
  OBVIOUS
<1>0. failed' \in BOOLEAN /\ (failed /\ command'["brakeCheck"] = "Ignore" => failed')
  <2>1. failed' = (failed /\ command'["brakeCheck"] = "Ignore")
    BY DEF FlightEvent
  <2> QED
    BY <2>1
<1>1. Flight!TypeOK /\ Flight!Next /\ UNCHANGED <<voice, recognized>>
  BY DEF FlightEvent, ChecksInv, ChecksTypeOK
<1>2. Flight!TypeOK'
  BY <1>1, FlightStep
<1>3. command \in [Commands -> States] /\ Commands = {"brakeCheck", "flightControlsCheck"}
  BY DEF ChecksInv, ChecksTypeOK, Commands
<1>4. CASE flightEvent' = "chocksSet"
  <2>1. resetFlags
    BY <1>4 DEF FlightEvent
  <2>2. stage = "parked" /\ stage' = "parked"
    BY <1>1, <1>4, FlightStep
  <2>3. ChecksTypeOK' /\ VoiceInv'
    BY <1>0, <1>1, <1>2, <2>1 DEF resetFlags, controlVars, ChecksInv, ChecksTypeOK, VoiceInv
  <2>4. CommandInv' /\ ChecksInTaxiOnly'
    BY <1>0, <2>1, <2>2 DEF resetFlags, controlVars, ChecksInv, CommandInv, ChecksInTaxiOnly
  <2> QED
    BY <2>3, <2>4 DEF ChecksInv
<1>5. CASE flightEvent' = "enginesStarted"
  <2>1. OnEnginesStarted
    BY <1>5 DEF FlightEvent
  <2>2. stage = "parked" /\ stage' = "taxi"
    BY <1>1, <1>5, FlightStep
  <2>3. CASE voice
    <3>1. /\ command' = [c \in Commands |-> "Active"]
          /\ UNCHANGED <<checkingFlightControls, controlVars, brakes, flightControlsChecked,
                         brakesChecked>>
      BY <2>1, <2>3 DEF OnEnginesStarted
    <3>2. command' \in [Commands -> States] /\ command'["brakeCheck"] = "Active"
      BY <1>3, <3>1 DEF States
    <3>3. ChecksTypeOK' /\ VoiceInv'
      BY <1>0, <1>1, <1>2, <2>3, <3>1, <3>2 DEF controlVars, ChecksInv, ChecksTypeOK, VoiceInv
    <3>4. CommandInv' /\ ChecksInTaxiOnly'
      BY <1>0, <2>2, <3>1, <3>2 DEF controlVars, ChecksInv, CommandInv, ChecksInTaxiOnly
    <3> QED
      BY <3>3, <3>4 DEF ChecksInv
  <2>4. CASE ~voice
    <3>1. /\ StartControls /\ brakes' = TRUE
          /\ UNCHANGED <<belated, flightControlsChecked, brakesChecked>>
      BY <2>1, <2>4 DEF OnEnginesStarted
    <3>2. ChecksTypeOK' /\ VoiceInv'
      BY <1>0, <1>1, <1>2, <2>4, <3>1, StartWithoutVoice DEF ChecksInv, ChecksTypeOK, VoiceInv
    <3>3. CommandInv'
      BY <1>0, <1>1, <1>3, <2>2, <2>4, <3>1, StartWithoutVoice DEF ChecksInv, VoiceInv, CommandInv
    <3>4. ChecksInTaxiOnly'
      BY <2>2 DEF ChecksInTaxiOnly
    <3> QED
      BY <3>2, <3>3, <3>4 DEF ChecksInv
  <2> QED
    BY <2>3, <2>4
<1>6. CASE flightEvent' \in {"engineShutdown", "takeoffInitiated"}
  <2>1. /\ command' = [c \in Commands |-> "Inactive"]
        /\ StopControls
        /\ flightControlsChecked' \in {flightControlsChecked, FALSE}
        /\ brakes' \in {brakes, brakes /\ voice}
        /\ UNCHANGED <<checkingFlightControls, brakesChecked>>
    BY <1>6 DEF FlightEvent, OnEngineShutdown, OnTakeoffInitiated, flagVars
  <2>2. /\ controls' = "none" /\ belated' = FALSE /\ checked' = {}
        /\ isActive' = FALSE /\ late' = FALSE /\ brakeCheckVcWasActive' = FALSE
    BY <2>1 DEF StopControls, NoCheck
  <2>3. command' \in [Commands -> States] /\ command'["brakeCheck"] = "Inactive"
    BY <1>3, <2>1 DEF States
  <2>4. ChecksTypeOK' /\ VoiceInv'
    BY <1>0, <1>1, <1>2, <2>1, <2>2, <2>3 DEF ChecksInv, ChecksTypeOK, VoiceInv
  <2>5. CommandInv' /\ ChecksInTaxiOnly'
    BY <1>0, <2>2, <2>3 DEF CommandInv, ChecksInTaxiOnly
  <2> QED
    BY <2>4, <2>5 DEF ChecksInv
<1>7. CASE flightEvent' = "takeoffCancelled"
  <2>1. OnTakeoffCancelled
    BY <1>7 DEF FlightEvent
  <2>2. stage = "rolling" /\ stage' = "taxi"
    BY <1>1, <1>7, FlightStep
  <2>3. CASE voice
    <3>1. /\ command' =
               [command EXCEPT
                  !["brakeCheck"] = IF brakesChecked THEN @ ELSE "Active",
                  !["flightControlsCheck"] = IF flightControlsChecked THEN @ ELSE "Active"]
          /\ UNCHANGED <<checkingFlightControls, controlVars, flightControlsChecked,
                         brakesChecked, brakes>>
      BY <2>1, <2>3 DEF OnTakeoffCancelled
    <3>2. /\ command' \in [Commands -> States]
          /\ command'["brakeCheck"] = IF brakesChecked THEN command["brakeCheck"] ELSE "Active"
      BY <1>3, <3>1 DEF States
    <3>3. ChecksTypeOK' /\ VoiceInv'
      BY <1>0, <1>1, <1>2, <2>3, <3>1, <3>2 DEF controlVars, ChecksInv, ChecksTypeOK, VoiceInv
    <3>4. CommandInv' /\ ChecksInTaxiOnly'
      BY <1>0, <2>2, <3>1, <3>2 DEF controlVars, ChecksInv, CommandInv, ChecksInTaxiOnly
    <3> QED
      BY <3>3, <3>4 DEF ChecksInv
  <2>4. CASE ~voice
    <3>1. StartControls /\ UNCHANGED <<belated, flightControlsChecked, brakesChecked, brakes>>
      BY <2>1, <2>4 DEF OnTakeoffCancelled
    <3>2. ChecksTypeOK' /\ VoiceInv'
      BY <1>0, <1>1, <1>2, <2>4, <3>1, StartWithoutVoice DEF ChecksInv, ChecksTypeOK, VoiceInv
    <3>3. CommandInv'
      BY <1>0, <1>1, <1>3, <2>2, <2>4, <3>1, StartWithoutVoice DEF ChecksInv, VoiceInv, CommandInv
    <3>4. ChecksInTaxiOnly'
      BY <2>2 DEF ChecksInTaxiOnly
    <3> QED
      BY <3>2, <3>3, <3>4 DEF ChecksInv
  <2> QED
    BY <2>3, <2>4
<1>8. CASE flightEvent' = "takeoffAborted"
  <2>1. OnTakeoffAborted
    BY <1>8 DEF FlightEvent
  <2>2. stage' = "taxi"
    BY <1>1, <1>8, FlightStep
  <2>3. ChecksTypeOK' /\ VoiceInv'
    BY <1>0, <1>1, <1>2, <2>1 DEF OnTakeoffAborted, controlVars, ChecksInv, ChecksTypeOK, VoiceInv
  <2>4. CommandInv' /\ ChecksInTaxiOnly'
    BY <1>0, <2>1, <2>2
       DEF OnTakeoffAborted, controlVars, ChecksInv, CommandInv, ChecksInTaxiOnly
  <2> QED
    BY <2>3, <2>4 DEF ChecksInv
<1>9. CASE flightEvent' = "airborne"
  <2>1. OnAirborne
    BY <1>9 DEF FlightEvent
  <2>2. stage = "rolling" /\ stage' = "flying"
    BY <1>1, <1>9, FlightStep
  <2>3. /\ command' \in [Commands -> States]
        /\ command'["brakeCheck"] \in {command["brakeCheck"], "Inactive"}
        /\ ~voice => command' = command
    BY <1>3, <2>1 DEF OnAirborne, States
  <2>4. ChecksTypeOK' /\ VoiceInv'
    BY <1>0, <1>1, <1>2, <2>1, <2>3
       DEF OnAirborne, flagVars, controlVars, ChecksInv, ChecksTypeOK, VoiceInv
  <2>5. CommandInv' /\ ChecksInTaxiOnly'
    BY <1>0, <2>1, <2>2, <2>3
       DEF OnAirborne, flagVars, controlVars, ChecksInv, CommandInv, ChecksInTaxiOnly
  <2> QED
    BY <2>4, <2>5 DEF ChecksInv
<1>10. CASE flightEvent' \notin {"chocksSet", "enginesStarted", "engineShutdown",
                                 "takeoffInitiated", "takeoffCancelled", "takeoffAborted",
                                 "airborne"}
  <2>1. UNCHANGED <<command, flagVars, controlVars, brakes>>
    BY <1>10 DEF FlightEvent
  <2>2. stage' = stage \/ (stage \notin {"parked", "taxi"} /\ stage' # "parked")
    BY <1>1, <1>10, FlightStep
  <2>3. ChecksTypeOK' /\ VoiceInv'
    BY <1>0, <1>1, <1>2, <2>1 DEF flagVars, controlVars, ChecksInv, ChecksTypeOK, VoiceInv
  <2>4. CommandInv' /\ ChecksInTaxiOnly'
    BY <1>0, <2>1, <2>2 DEF flagVars, controlVars, ChecksInv, CommandInv, ChecksInTaxiOnly
  <2> QED
    BY <2>3, <2>4 DEF ChecksInv
<1> QED
  BY <1>4, <1>5, <1>6, <1>7, <1>8, <1>9, <1>10

LEMMA NextChecks == ChecksInv /\ [ChecksNext]_(checksVars) => ChecksInv'
<1> SUFFICES ASSUME ChecksInv, [ChecksNext]_(checksVars) PROVE ChecksInv'
  OBVIOUS
<1>1. CASE UNCHANGED checksVars
  BY <1>1
     DEF checksVars, flightVars, voiceVars, flagVars, controlVars, ChecksInv, ChecksTypeOK,
         VoiceInv,
              CommandInv, ChecksInTaxiOnly, Flight!TypeOK
<1> QED
  BY <1>1, FlightEventIInv, BrakeCheckIInv, VoiceCommandsIInv, ControlsIInv DEF ChecksNext

LEMMA ChecksInvariance == ChecksSpec => []ChecksInv
  BY InitChecks, NextChecks, PTL DEF ChecksSpec

-----------------------------------------------------------------------------
(* The theorems about the checks *)

\* In any order of the flight's events that FlightEvents allows, and whatever commands
\* are recognized and delivered late: while the aeroplane taxies with its brakes
\* unchecked, "brake check" is in ignore mode only during a check of the flight controls
\* that activates it again, or after one that has ended by an error before it could.
THEOREM CommandCorrect == ChecksSpec => []BrakeCommandGivenBack
<1>1. ChecksInv => BrakeCommandGivenBack
  BY DEF ChecksInv, CommandInv, BrakeCommandGivenBack
<1> QED
  BY <1>1, ChecksInvariance, PTL

\* No check of the flight controls outlives the taxi, but for those begun too late.
THEOREM TaxiCorrect == ChecksSpec => []ChecksInTaxiOnly
<1>1. ChecksInv => ChecksInTaxiOnly
  BY DEF ChecksInv
<1> QED
  BY <1>1, ChecksInvariance, PTL

=============================================================================
