---------------------------- MODULE FlightEvents ----------------------------
(***************************************************************************)
(* What the scripts that listen to the events of a flight (actions.lua,    *)
(* callouts.lua, initChecklists.lua) may rely on: the orders in which      *)
(* FlightPhaseProcessor.lua triggers them.                                 *)
(***************************************************************************)

CONSTANT None

VARIABLES
  stage,        \* how far the flight has got
  chocks,       \* chocksSet was the last event about the chocks
  event         \* the event triggered by the last step, or None

vars == <<stage, chocks, event>>

Stages == {"parked", "taxi", "rolling", "flying", "high", "touched", "landed"}

Events ==
  {"chocksSet", "chocksReleased", "enginesStarted", "engineShutdown", "takeoffInitiated",
   "takeoffCancelled", "takeoffAborted", "airborne", "aboveTenThousand",
   "belowTenThousand", "touchdown", "landing", "goAround"}

Init ==
  \/ /\ stage = "parked"
     /\ \/ event = "chocksSet" /\ chocks = TRUE
        \/ event = "engineShutdown" /\ chocks = FALSE
  \/ stage = "taxi" /\ event = "enginesStarted" /\ chocks = FALSE
  \/ stage = "flying" /\ event = None /\ chocks = FALSE

\* The event is triggered in one of the stages `from' and leads to `to'.
Moves(e, from, to) ==
  /\ event' = e
  /\ stage \in from
  /\ stage' = to
  /\ UNCHANGED chocks

Chocks(e, on) ==
  /\ event' = e
  /\ chocks' = on
  /\ UNCHANGED stage

Takeoff ==
  \/ Moves("takeoffInitiated", {"taxi"}, "rolling")
  \/ Moves("takeoffCancelled", {"rolling"}, "taxi")
  \/ Moves("takeoffAborted", {"rolling"}, "taxi")
  \/ Moves("airborne", {"rolling"}, "flying")

Flight ==
  \/ Moves("aboveTenThousand", {"flying"}, "high")
  \/ Moves("belowTenThousand", {"high"}, "flying")
  \/ Moves("touchdown", {"flying", "high"}, "touched")
  \/ Moves("landing", {"touched"}, "landed")
  \/ Moves("goAround", {"flying", "touched", "landed"}, "flying")
  \/ Moves(None, {"touched", "landed"}, "taxi")

Ground ==
  \/ Moves("enginesStarted", {"parked"}, "taxi")
  \/ /\ event' = "engineShutdown"        \* nobody looks after the chocks any more
     /\ stage = "taxi" /\ stage' = "parked"
     /\ chocks' = FALSE
  \/ stage = "parked" /\ Chocks("chocksSet", TRUE)
  \/ chocks = TRUE /\ Chocks("chocksReleased", FALSE)

Silence == event' = None /\ UNCHANGED <<stage, chocks>>

Next == Takeoff \/ Flight \/ Ground \/ Silence

Spec == Init /\ [][Next]_vars

TypeOK ==
  /\ stage \in Stages
  /\ chocks \in BOOLEAN
  /\ event \in Events \union {None}
=============================================================================
