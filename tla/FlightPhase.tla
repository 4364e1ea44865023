----------------------------- MODULE FlightPhase -----------------------------
(***************************************************************************)
(* The phases of a flight (copilot/FlightPhaseProcessor.lua): a coroutine  *)
(* that polls the simulator and triggers events, and a callback that       *)
(* watches the chocks after the engines have been started.                 *)
(*                                                                         *)
(* A step is one iteration of a phase's loop, up to its copilot.suspend;   *)
(* the simulator (external) changes between any two.                       *)
(***************************************************************************)
EXTENDS Naturals

CONSTANT None

\* It is none of the values it is compared with.
ASSUME NoneAssumption == None \notin {"recent", "past", "engineShutdown"}

VARIABLES
  sim,                          \* what the processor reads of the simulator
  phase,                        \* FlightPhaseProcessor.currFlightPhase
  at,                           \* where its nextFlightPhase is suspended
  chocksReleased,               \* local to onChocks
  commited, countdown,          \* local to takeoff: countdown is cancelCountDownStart
  touchdownTime, landed,        \* local to airborne
  takeoffCompleted,             \* fields of airborne
  triggeredGoAround,
  watching,                     \* the callback that watches the chocks is registered
  event                         \* the event triggered by the last step, or None

locals == <<chocksReleased, commited, countdown, touchdownTime, landed>>
airborneVars == <<takeoffCompleted, triggeredGoAround>>
vars == <<sim, phase, at, locals, airborneVars, watching, event>>

Airborne == {"airborne", "climbout", "flyingCircuits", "aboveTenThousand", "belowTenThousand"}
Phases == {"engineShutdown", "onChocks", "taxi", "takeoff"} \union Airborne

\* A time stamp, as it is compared with now: taken, and long enough ago.
Time == {None, "recent", "past"}

N1 == {"low", "above50", "above80"}

\* On the ground speed is below 10, below 40 or above; the altitude is that of
\* an airfield, or below 9700, between, or above 10300 ft.
Readings ==
  [onGround: BOOLEAN, chocks: BOOLEAN, speed: {"still", "slow", "fast"},
   levers: {"reverse", "idle", "climb", "flex", "toga"},
   engines: {"off", "starting", "normal"}, eng1N1: N1, eng2N1: N1 \ {"above50"},
   altitude: {"low", "middle", "high"}]

Sim ==
  {s \in Readings :
     /\ s.chocks => s.onGround /\ s.speed = "still"
     /\ s.onGround => s.altitude = "low"
     /\ ~s.onGround => s.speed = "fast"
     /\ s.engines = "off" => s.eng1N1 = "low" /\ s.eng2N1 = "low"}

enginesRunning == sim.engines # "off"
enginesStarted == sim.engines = "normal"
idleThrustSelected == sim.levers = "idle"
reverseThrustSelected == sim.levers = "reverse"
takeoffThrustSelected == sim.levers \in {"climb", "flex", "toga"}
climbThrustSelected == sim.levers \in {"idle", "climb"}
goAroundTriggered == sim.levers = "toga"

-----------------------------------------------------------------------------
(* What a step may do *)

\* Variant: the chocks are still watched after the engines have been shut down.
setFlightPhaseOnly(new, e) ==
  /\ phase' = new /\ at' = "loop" /\ event' = e
  /\ UNCHANGED watching
  /\ commited' = FALSE /\ countdown' = None
  /\ touchdownTime' = None /\ landed' = FALSE
  /\ chocksReleased' = FALSE

\* setFlightPhase, after nextFlightPhase has returned; engineShutdown ends the
\* watch for the chocks, by an action that the first run of its callback adds.
setFlightPhase(new, e) ==
  /\ phase' = new
  /\ at' = "loop"
  /\ event' = e
  /\ watching' = (watching /\ e # "engineShutdown")
  /\ commited' = FALSE /\ countdown' = None
  /\ touchdownTime' = None /\ landed' = FALSE
  /\ chocksReleased' = FALSE

\* The phase goes on, with the local variables it has, or with a change to some.
Goes(place, e) ==
  /\ at' = place
  /\ event' = e
  /\ UNCHANGED <<phase, watching>>

Stays(place, e) == Goes(place, e) /\ UNCHANGED locals

\* The event a phase has of its own.
EventOf(p) ==
  CASE p = "onChocks" -> "chocksSet"
    [] p = "takeoff" -> "takeoffInitiated"
    [] p \in {"engineShutdown", "aboveTenThousand", "belowTenThousand"} -> p
    [] OTHER -> None

Enter(p) == setFlightPhase(p, EventOf(p))

In(p, place) == phase = p /\ at = place

-----------------------------------------------------------------------------
(* The phases on the ground *)

EngineShutdown ==
  /\ In("engineShutdown", "loop")
  /\ IF sim.chocks THEN Enter("onChocks")
     ELSE Stays(IF enginesStarted THEN "starting" ELSE "loop", None)
  /\ UNCHANGED airborneVars

\* The engines are looked at again after four seconds.
EngineStart ==
  /\ In("engineShutdown", "starting")
  /\ IF enginesStarted THEN setFlightPhase("taxi", "enginesStarted")
     ELSE Stays("loop", None)
  /\ UNCHANGED airborneVars

checkChocksReleased ==
  /\ chocksReleased' = (chocksReleased \/ ~sim.chocks)
  /\ event' = IF ~chocksReleased /\ ~sim.chocks THEN "chocksReleased" ELSE None

OnChocks ==
  /\ In("onChocks", "loop")
  /\ checkChocksReleased
  /\ at' = IF enginesStarted THEN "starting" ELSE "loop"
  /\ UNCHANGED <<phase, watching, airborneVars, commited, countdown, touchdownTime, landed>>

\* If the chocks are still there, they are watched from now on.  (The first run
\* of the callback comes before the coroutine's next, and is taken with it.  Left
\* out: engines that were running when onChocks looked and are off when taxi does
\* in the same run of the coroutine, so that engineShutdown precedes the callback.)
EngineStartOnChocks ==
  /\ In("onChocks", "starting")
  /\ IF enginesStarted
     THEN checkChocksReleased /\ at' = "started" /\ watching' = ~chocksReleased'
     ELSE at' = "loop" /\ event' = None /\ UNCHANGED <<chocksReleased, watching>>
  /\ UNCHANGED <<phase, airborneVars, commited, countdown, touchdownTime, landed>>

LeaveChocks ==
  /\ In("onChocks", "started")
  /\ setFlightPhase("taxi", "enginesStarted")
  /\ UNCHANGED airborneVars

\* Variant: a taxiing aircraft is not looked at but for its thrust.
TaxiForTakeoff ==
  /\ In("taxi", "loop")
  /\ Stays(IF takeoffThrustSelected THEN "spooling" ELSE "loop", None)
  /\ UNCHANGED airborneVars

Taxi ==
  /\ In("taxi", "loop")
  /\ CASE takeoffThrustSelected -> Stays("spooling", None)
       [] ~takeoffThrustSelected /\ ~enginesRunning -> Enter("engineShutdown")
       [] OTHER -> Stays("loop", None)
  /\ UNCHANGED airborneVars

\* The code looks at engine 1 twice.
Spooling ==
  /\ In("taxi", "spooling")
  /\ IF sim.eng1N1 # "low" THEN Enter("takeoff")
     ELSE Stays(IF takeoffThrustSelected THEN "spooling" ELSE "loop", None)
  /\ UNCHANGED airborneVars

Commits == commited \/ (sim.eng1N1 = "above80" /\ sim.eng2N1 = "above80")

Aborts ==
  sim.speed # "still" /\ (idleThrustSelected \/ reverseThrustSelected)

RollsOn(count) ==
  /\ Goes("rolling", None)
  /\ commited' = Commits
  /\ countdown' = count
  /\ UNCHANGED <<chocksReleased, touchdownTime, landed>>

\* One iteration of the loop of takeoff.
TakeoffRoll ==
  /\ phase = "takeoff"
  /\ at = "loop" \/ sim.onGround
  /\ IF takeoffThrustSelected THEN RollsOn(None)
     ELSE CASE ~Commits -> setFlightPhase("taxi", "takeoffCancelled")
            [] Commits /\ Aborts -> setFlightPhase("taxi", "takeoffAborted")
            [] Commits /\ ~Aborts /\ countdown = None -> RollsOn("recent")
            [] Commits /\ ~Aborts /\ countdown = "recent" -> RollsOn("recent")
            [] Commits /\ ~Aborts /\ countdown = "past" ->
                 setFlightPhase("taxi", "takeoffCancelled")
  /\ UNCHANGED airborneVars

\* Whether circuits are flown is read from the MCDU.
LiftOff ==
  /\ In("takeoff", "rolling")
  /\ ~sim.onGround
  /\ \E p \in {"flyingCircuits", "climbout"} : setFlightPhase(p, "airborne")
  /\ takeoffCompleted' = FALSE
  /\ UNCHANGED triggeredGoAround

-----------------------------------------------------------------------------
(* The phases in the air *)

AwaitClimbThrust ==
  /\ phase \in Airborne /\ at = "loop"
  /\ ~takeoffCompleted
  /\ takeoffCompleted' = climbThrustSelected
  /\ Stays("loop", None)
  /\ UNCHANGED triggeredGoAround

Touchdown ==
  /\ phase \in Airborne /\ at = "loop"
  /\ takeoffCompleted
  /\ sim.onGround
  /\ Goes("rollout", "touchdown")
  /\ touchdownTime' = "recent"
  /\ UNCHANGED <<chocksReleased, commited, countdown, landed, airborneVars>>

GoAround ==
  /\ setFlightPhase("flyingCircuits", "goAround")
  /\ triggeredGoAround' = TRUE

\* Variant: a landing is not remembered.
RollsOutUnmarked(e, time, land) ==
  /\ Goes("rollout", e)
  /\ touchdownTime' = time
  /\ UNCHANGED <<landed, chocksReleased, commited, countdown, triggeredGoAround>>

RollsOut(e, time, land) ==
  /\ Goes("rollout", e)
  /\ touchdownTime' = time
  /\ landed' = land
  /\ UNCHANGED <<chocksReleased, commited, countdown, triggeredGoAround>>

\* The loop that follows touchdown.
Rollout ==
  /\ phase \in Airborne /\ at = "rollout"
  /\ IF ~sim.onGround
     THEN IF goAroundTriggered THEN GoAround ELSE RollsOut(None, None, landed)
     ELSE CASE touchdownTime = None -> RollsOut(None, "recent", landed)
            [] ~landed /\ touchdownTime = "past" -> RollsOut("landing", "past", TRUE)
            [] (landed /\ touchdownTime # None) \/ touchdownTime = "recent" ->
                 IF sim.speed # "fast" THEN Enter("taxi") /\ UNCHANGED triggeredGoAround
                 ELSE RollsOut(None, touchdownTime, landed)
  /\ UNCHANGED takeoffCompleted

\* Only two of the phases notice, and forget, a go-around.
Flying ==
  /\ phase \in Airborne /\ at = "loop"
  /\ takeoffCompleted
  /\ ~sim.onGround
  /\ LET looks == phase \in {"flyingCircuits", "belowTenThousand"}
         going == triggeredGoAround /\ (looks => goAroundTriggered)
     IN IF looks /\ goAroundTriggered /\ ~triggeredGoAround THEN GoAround
        ELSE /\ triggeredGoAround' = going
             /\ CASE sim.altitude = "high" /\ ~going /\ phase # "aboveTenThousand" ->
                       Enter("aboveTenThousand")
                  [] sim.altitude = "low" /\ phase = "aboveTenThousand" ->
                       Enter("belowTenThousand")
                  [] OTHER -> Stays("loop", None)
  /\ UNCHANGED takeoffCompleted

Processor ==
  /\ \/ EngineShutdown \/ EngineStart \/ OnChocks \/ EngineStartOnChocks \/ LeaveChocks
     \/ Taxi \/ Spooling \/ TakeoffRoll \/ LiftOff
     \/ AwaitClimbThrust \/ Touchdown \/ Rollout \/ Flying
  /\ UNCHANGED sim

-----------------------------------------------------------------------------
(* The callback, the clock, and the simulator *)

WatchChocks ==
  /\ watching /\ at # "started"
  /\ event' = IF sim.chocks THEN None ELSE "chocksReleased"
  /\ watching' = sim.chocks
  /\ UNCHANGED <<sim, phase, at, locals, airborneVars>>

Elapse ==
  /\ \/ countdown = "recent" /\ countdown' = "past" /\ UNCHANGED touchdownTime
     \/ touchdownTime = "recent" /\ touchdownTime' = "past" /\ UNCHANGED countdown
  /\ event' = None
  /\ UNCHANGED <<sim, phase, at, chocksReleased, commited, landed, airborneVars, watching>>

\* One of the readings changes; the engines stop with what that entails.
Changed ==
  {[sim EXCEPT !.onGround = b] : b \in BOOLEAN}
    \union {[sim EXCEPT !.chocks = b] : b \in BOOLEAN}
    \union {[sim EXCEPT !.speed = x] : x \in {"still", "slow", "fast"}}
    \union {[sim EXCEPT !.levers = x] : x \in {"reverse", "idle", "climb", "flex", "toga"}}
    \union {[sim EXCEPT !.engines = x] : x \in {"starting", "normal"}}
    \union {[sim EXCEPT !.engines = "off", !.eng1N1 = "low", !.eng2N1 = "low"]}
    \union {[sim EXCEPT !.eng1N1 = x] : x \in N1}
    \union {[sim EXCEPT !.eng2N1 = x] : x \in N1 \ {"above50"}}
    \union {[sim EXCEPT !.altitude = x] : x \in {"low", "middle", "high"}}

Simulator ==
  /\ \E s \in Changed \ {sim} : s \in Sim /\ sim' = s
  /\ event' = None
  /\ UNCHANGED <<phase, at, locals, airborneVars, watching>>

-----------------------------------------------------------------------------

\* FlightPhaseProcessor:init.
Init ==
  /\ sim \in Sim
  /\ CASE ~enginesRunning ->
            /\ phase = IF sim.chocks THEN "onChocks" ELSE "engineShutdown"
            /\ event = EventOf(phase)
       [] enginesRunning /\ sim.onGround -> phase = "taxi" /\ event = "enginesStarted"
       [] OTHER -> phase = "airborne" /\ event = None
  /\ at = "loop"
  /\ commited = FALSE /\ countdown = None
  /\ takeoffCompleted = FALSE /\ triggeredGoAround = FALSE
  /\ touchdownTime = None /\ landed = FALSE
  /\ chocksReleased = FALSE /\ watching = FALSE

Next == Processor \/ WatchChocks \/ Elapse \/ Simulator

Spec == Init /\ [][Next]_vars

(* The coroutine and the callback are run again and again by the main loop, *)
(* and time passes; the simulator need not do anything.                     *)
FairSpec ==
  Spec /\ WF_vars(Processor) /\ WF_vars(WatchChocks) /\ WF_vars(Elapse)

-----------------------------------------------------------------------------
(* Properties *)

TypeOK ==
  /\ sim \in Sim
  /\ phase \in Phases
  /\ at \in {"loop", "starting", "started", "spooling", "rolling", "rollout"}
  /\ countdown \in Time /\ touchdownTime \in Time
  /\ {commited, takeoffCompleted, triggeredGoAround, landed, chocksReleased, watching}
       \subseteq BOOLEAN
  /\ watching => phase \notin {"engineShutdown", "onChocks"} \/ at = "started"

Stage ==
  CASE phase \in {"engineShutdown", "onChocks"} -> "parked"
    [] phase = "taxi" -> "taxi"
    [] phase = "takeoff" -> "rolling"
    [] phase \in Airborne /\ at = "rollout" -> IF landed THEN "landed" ELSE "touched"
    [] phase = "aboveTenThousand" /\ at # "rollout" -> "high"
    [] OTHER -> "flying"

\* chocksSet has been triggered and chocksReleased has not since: it is unless the
\* closure of onChocks is done with, or was dropped by engineShutdown.
ChocksSet ==
  ~chocksReleased /\ (phase = "onChocks" \/ watching)

Promise == INSTANCE FlightEvents WITH stage <- Stage, chocks <- ChocksSet

\* The events come in the orders that those who listen to them rely on: a takeoff
\* that was initiated is resolved in one of three ways, each landing follows its
\* touchdown, chocksReleased comes once for each chocksSet (actions.lua, callouts.lua,
\* initChecklists.lua); and the processor stays within its types.
ImplementsFlightEvents == Promise!Spec /\ []TypeOK

\* An aircraft that is left parked with its engines off is found out to be, from
\* wherever the phases are, an aborted takeoff or a flight included.
ShutdownNoticed ==
  <>[](/\ ~enginesRunning /\ sim.onGround /\ sim.speed = "still"
       /\ sim.levers = "idle")
    => <>[](phase \in {"engineShutdown", "onChocks"})

\* An aircraft that goes on at a high altitude is noticed to be above ten thousand
\* feet, unless a go-around is still remembered, or it took off again from its
\* rollout without the thrust of a go-around.
ClimbNoticed ==
  <>[](/\ sim.altitude = "high" /\ sim.levers = "climb"
       /\ phase \in Airborne /\ at = "loop" /\ ~triggeredGoAround)
    => <>[](phase = "aboveTenThousand")

\* The phase follows an aircraft that stays as it is, on the ground and in the air.
PhaseFollows == ShutdownNoticed /\ ClimbNoticed
=============================================================================
