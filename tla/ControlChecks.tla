--------------------------- MODULE ControlChecks ---------------------------
(***************************************************************************)
(* The checks of the flight controls and of the brakes before takeoff      *)
(* (copilot/callouts.lua and copilot/FlightControlCheck.lua): coroutines   *)
(* that watch what the pilot does, started by voice commands or by the     *)
(* events of the flight, and stopped by others.  The events come as        *)
(* FlightEvents promises, which FlightPhase keeps.  The names are none of  *)
(* FlightPhase's, so that both can be extended together.                   *)
(***************************************************************************)
EXTENDS FiniteSets

CONSTANT NoEvent

VARIABLES
  stage, chocks, flightEvent,   \* of FlightEvents
  voice,                        \* copilot.isVoiceControlEnabled
  command,                      \* states of the voice commands
  recognized,                   \* commands recognized, their callbacks in the queue
  checkingFlightControls,       \* fields of copilot.callouts, and of its brakeCheck
  flightControlsChecked,
  brakesChecked,
  controls,                     \* the coroutine that checks the flight controls
  checked,                      \* its FlightControlCheck: the parts of the axes checked,
  isActive, late,               \* ... and whether ten seconds have passed since the last
  brakeCheckVcWasActive,
  brakes,                       \* the coroutine that checks the brakes runs
  belated,                      \* this check was started by a command after its time
  failed                        \* a check that has put "brake check" aside has ended by
                                \* an error, and no event has switched the command since

flightVars == <<stage, chocks, flightEvent>>
voiceVars == <<command, recognized>>
flagVars == <<checkingFlightControls, flightControlsChecked, brakesChecked>>
controlVars == <<controls, checked, isActive, late, brakeCheckVcWasActive, belated>>
checksVars == <<flightVars, voice, voiceVars, flagVars, controlVars, brakes, failed>>

Flight == INSTANCE FlightEvents WITH event <- flightEvent, None <- NoEvent

ASSUME NoEventAssumption == NoEvent \notin Flight!Events

Commands == {"brakeCheck", "flightControlsCheck"}
States == {"Inactive", "Active", "Ignore"}

Axes == {"elevator", "ailerons", "rudder"}

Ends ==
  [elevator |-> {"fullUp", "fullDown"},
   ailerons |-> {"fullLeft", "fullRight"},
   rudder |-> {"fullLeftRud", "fullRightRud"}]

Neutral ==
  [elevator |-> "neutral_2", ailerons |-> "neutral_1", rudder |-> "neutral_3"]

Parts == UNION {Ends[axis] \union {Neutral[axis]} : axis \in Axes}

\* What can be read of the surfaces at once: the stick is neutral, at an end or in a
\* corner, or somewhere between; the pedals likewise.
SurfaceReadings ==
  {{}, {Neutral["elevator"], Neutral["ailerons"]}}
  \union {{part} : part \in UNION {Ends[axis] : axis \in Axes} \union {Neutral["rudder"]}}
  \union {{elevator, aileron} : elevator \in Ends["elevator"], aileron \in Ends["ailerons"]}

-----------------------------------------------------------------------------
(* FlightControlCheck *)

Done(axis, parts) == Neutral[axis] \in parts
InProgress(axis, parts) == parts \cap Ends[axis] # {} /\ ~Done(axis, parts)

checkAxis(axis, parts, reading) ==
  parts \union (reading \cap (IF Ends[axis] \subseteq parts THEN {Neutral[axis]} ELSE Ends[axis]))

\* The elevator and the ailerons, one of them at a time, and then the rudder.
pfSideCheck(parts, reading) ==
  LET elevator == IF InProgress("ailerons", parts) \/ Done("elevator", parts) THEN parts
                  ELSE checkAxis("elevator", parts, reading)
  IN IF Done("elevator", parts) /\ Done("ailerons", parts)
     THEN checkAxis("rudder", parts, reading)
     ELSE IF InProgress("elevator", elevator) \/ Done("ailerons", parts) THEN elevator
          ELSE checkAxis("ailerons", elevator, reading)

\* A check begins: with voice control the command "brake check" is put aside, and
\* the time runs at once; without, it starts with the first part that is checked.
BeginCheck ==
  /\ controls' = "pilot"
  /\ checked' = {}
  /\ isActive' = voice /\ late' = FALSE
  /\ checkingFlightControls' = (checkingFlightControls \/ voice)
  /\ brakeCheckVcWasActive' = (voice /\ command["brakeCheck"] = "Active")
  /\ command' = IF brakeCheckVcWasActive' THEN [command EXCEPT !["brakeCheck"] = "Ignore"]
                ELSE command

NoCheck ==
  /\ checked' = {}
  /\ isActive' = FALSE /\ late' = FALSE /\ brakeCheckVcWasActive' = FALSE

\* Variant: the command "brake check" is given back by a check that succeeds only.
EndCheckUnrestored(ok) ==
  /\ checkingFlightControls' = FALSE
  /\ flightControlsChecked' = (flightControlsChecked \/ ok)
  /\ command' = IF ok /\ voice
                THEN [command EXCEPT !["flightControlsCheck"] = "Inactive",
                                     !["brakeCheck"] = IF brakeCheckVcWasActive THEN "Active" ELSE @]
                ELSE command
  /\ controls' = IF ok \/ voice THEN "none" ELSE "again"
  /\ belated' = FALSE
  /\ NoCheck

\* flightControlsCheck after check() has returned.
EndCheck(ok) ==
  LET restored == IF brakeCheckVcWasActive THEN [command EXCEPT !["brakeCheck"] = "Active"]
                  ELSE command
  IN /\ checkingFlightControls' = FALSE
     /\ flightControlsChecked' = (flightControlsChecked \/ ok)
     /\ command' = IF ok /\ voice THEN [restored EXCEPT !["flightControlsCheck"] = "Inactive"]
                   ELSE restored
     /\ controls' = IF ok \/ voice THEN "none" ELSE "again"
     /\ belated' = FALSE
     /\ NoCheck

\* The action's coroutine, unless it is running: the function of the command, or the
\* delay that comes first without voice control.
StartControls ==
  CASE controls # "none" \/ (voice /\ flightControlsChecked) ->
         UNCHANGED <<controls, checked, isActive, late, brakeCheckVcWasActive,
                     checkingFlightControls, command>>
    [] controls = "none" /\ voice /\ ~flightControlsChecked -> BeginCheck
    [] controls = "none" /\ ~voice ->
         controls' = "again" /\ NoCheck /\ UNCHANGED <<checkingFlightControls, command>>

\* repeat until self:flightControlsCheck(), after the delay or a check that failed:
\* if the controls are checked already, it goes on for good without suspending.
Again ==
  /\ controls = "again"
  /\ IF flightControlsChecked
     THEN controls' = "hung" /\ NoCheck /\ UNCHANGED <<checkingFlightControls, command>>
     ELSE BeginCheck
  /\ UNCHANGED <<flightVars, voice, recognized, flightControlsChecked, brakesChecked,
                 brakes, belated, failed>>

PilotSide ==
  /\ controls = "pilot"
  /\ IF isActive /\ late
     THEN EndCheck(FALSE)
     ELSE \E reading \in SurfaceReadings :
            /\ checked' = pfSideCheck(checked, reading)
            /\ controls' = IF Done("rudder", checked') THEN "pm" ELSE "pilot"
            /\ isActive' = (isActive \/ checked' # checked)
            /\ late' = (late /\ checked' = checked)
            /\ checkingFlightControls' = (checkingFlightControls \/ checked' # checked)
            /\ UNCHANGED <<brakeCheckVcWasActive, flightControlsChecked, command, belated>>
  /\ UNCHANGED <<flightVars, voice, recognized, brakesChecked, brakes, failed>>

\* The pilot monitoring moves the sidestick six times; each may time out.
PmSide ==
  /\ controls = "pm"
  /\ \E ok \in BOOLEAN : EndCheck(ok)
  /\ UNCHANGED <<flightVars, voice, recognized, brakesChecked, brakes, failed>>

\* Any other error, of either side, is thrown again and ends the coroutine before the
\* flags and the command are put back.
CheckFails ==
  /\ controls \in {"pilot", "pm"}
  /\ controls' = "none" /\ belated' = FALSE
  /\ NoCheck
  /\ failed' = (failed \/ brakeCheckVcWasActive)
  /\ UNCHANGED <<flightVars, voice, voiceVars, flagVars, brakes>>

\* Variant: the time is not measured any more once a part has been checked.
TenSecondsAtFirst ==
  /\ controls = "pilot" /\ isActive /\ ~late /\ checked = {}
  /\ late' = TRUE
  /\ UNCHANGED <<flightVars, voice, voiceVars, flagVars, controls, checked, isActive,
                 brakeCheckVcWasActive, brakes, belated, failed>>

TenSeconds ==
  /\ controls = "pilot" /\ isActive /\ ~late
  /\ late' = TRUE
  /\ UNCHANGED <<flightVars, voice, voiceVars, flagVars, controls, checked, isActive,
                 brakeCheckVcWasActive, brakes, belated, failed>>

-----------------------------------------------------------------------------
(* The brakes *)

\* What it leads to depends on the pressure; with voice control the coroutine gives up
\* after five seconds, and it may end by an error.
BrakeCheck ==
  /\ brakes
  /\ \/ /\ ~checkingFlightControls
        /\ brakesChecked' = TRUE
        /\ brakes' = FALSE
        /\ command' = IF voice THEN [command EXCEPT !["brakeCheck"] = "Ignore"] ELSE command
     \/ /\ brakes' = FALSE
        /\ UNCHANGED <<brakesChecked, command>>
  /\ UNCHANGED <<flightVars, voice, recognized, checkingFlightControls,
                 flightControlsChecked, controlVars, failed>>

-----------------------------------------------------------------------------
(* Voice commands *)

\* Both are persistent: they stay active.
Recognize(c) ==
  /\ command[c] = "Active"
  /\ recognized' = recognized \union {c}
  /\ UNCHANGED <<flightVars, voice, command, flagVars, controlVars, brakes, failed>>

\* The callback is run later, whatever has become of the command.
TriggerVoiceCommand(c) ==
  /\ c \in recognized
  /\ recognized' = recognized \ {c}
  /\ \/ c = "brakeCheck" /\ brakes' = TRUE /\ UNCHANGED <<command, flagVars, controlVars>>
     \/ /\ c = "flightControlsCheck"
        /\ StartControls
        /\ belated' = (belated \/ (controls' # controls /\ stage # "taxi"))
        /\ UNCHANGED <<brakes, flightControlsChecked, brakesChecked>>
  /\ UNCHANGED <<flightVars, voice, failed>>

-----------------------------------------------------------------------------
(* The events of the flight, and the actions they run *)

\* A coroutine that is stopped says nothing: its flags and the command stay.
StopControls ==
  controls' = "none" /\ belated' = FALSE /\ NoCheck

resetFlags ==
  /\ checkingFlightControls' = FALSE
  /\ flightControlsChecked' = FALSE
  /\ brakesChecked' = FALSE
  /\ UNCHANGED <<command, controlVars, brakes>>

OnEnginesStarted ==
  /\ IF voice
     THEN /\ command' = [c \in Commands |-> "Active"]
          /\ UNCHANGED <<checkingFlightControls, controlVars, brakes>>
     ELSE StartControls /\ brakes' = TRUE /\ UNCHANGED belated
  /\ UNCHANGED <<flightControlsChecked, brakesChecked>>

OnEngineShutdown ==
  /\ command' = [c \in Commands |-> "Inactive"]
  /\ StopControls
  /\ flightControlsChecked' = FALSE
  /\ brakes' = (brakes /\ voice)
  /\ UNCHANGED <<checkingFlightControls, brakesChecked>>

\* Variant: the takeoff deactivates the commands and does not stop the check.
OnTakeoffInitiatedUnstopped ==
  /\ command' = [c \in Commands |-> "Inactive"]
  /\ UNCHANGED <<flagVars, controlVars, brakes>>

OnTakeoffInitiated ==
  /\ command' = [c \in Commands |-> "Inactive"]
  /\ StopControls
  /\ UNCHANGED <<flagVars, brakes>>

OnTakeoffCancelled ==
  /\ IF voice
     THEN /\ command' =
               [command EXCEPT
                  !["brakeCheck"] = IF brakesChecked THEN @ ELSE "Active",
                  !["flightControlsCheck"] = IF flightControlsChecked THEN @ ELSE "Active"]
          /\ UNCHANGED <<checkingFlightControls, controlVars>>
     ELSE StartControls /\ UNCHANGED belated
  /\ UNCHANGED <<flightControlsChecked, brakesChecked, brakes>>

OnTakeoffAborted ==
  /\ flightControlsChecked' = TRUE
  /\ brakesChecked' = TRUE
  /\ UNCHANGED <<checkingFlightControls, command, controlVars, brakes>>

OnAirborne ==
  /\ command' = IF voice THEN [command EXCEPT !["brakeCheck"] = "Inactive"] ELSE command
  /\ UNCHANGED <<flagVars, controlVars, brakes>>

\* An event of the flight is triggered, and runs the actions it has.
FlightEvent ==
  /\ controls # "hung"
  /\ Flight!Next
  /\ CASE flightEvent' = "chocksSet" -> resetFlags
       [] flightEvent' = "enginesStarted" -> OnEnginesStarted
       [] flightEvent' = "engineShutdown" -> OnEngineShutdown
       [] flightEvent' = "takeoffInitiated" -> OnTakeoffInitiated
       [] flightEvent' = "takeoffCancelled" -> OnTakeoffCancelled
       [] flightEvent' = "takeoffAborted" -> OnTakeoffAborted
       [] flightEvent' = "airborne" -> OnAirborne
       [] OTHER -> UNCHANGED <<command, flagVars, controlVars, brakes>>
  /\ failed' = (failed /\ command'["brakeCheck"] = "Ignore")
  /\ UNCHANGED <<voice, recognized>>

-----------------------------------------------------------------------------

ChecksInit ==
  /\ Flight!Init
  /\ voice \in BOOLEAN
  /\ LET started == flightEvent = "enginesStarted"
     IN /\ command = [c \in Commands |-> IF started /\ voice THEN "Active" ELSE "Inactive"]
        /\ controls = IF started /\ ~voice THEN "again" ELSE "none"
        /\ brakes = (started /\ ~voice)
  /\ recognized = {}
  /\ checkingFlightControls = FALSE
  /\ flightControlsChecked = FALSE /\ brakesChecked = FALSE
  /\ checked = {} /\ isActive = FALSE /\ late = FALSE
  /\ brakeCheckVcWasActive = FALSE /\ belated = FALSE /\ failed = FALSE

ChecksNext ==
  \/ FlightEvent
  \/ controls # "hung" /\ (\/ BrakeCheck
                           \/ \E c \in Commands : Recognize(c) \/ TriggerVoiceCommand(c))
  \/ Again \/ PilotSide \/ PmSide \/ CheckFails \/ TenSeconds

ChecksSpec == ChecksInit /\ [][ChecksNext]_checksVars

(* The main loop resumes the coroutine every 100 ms and time passes; what the pilot  *)
(* does is up to the pilot.                                                          *)
FairChecksSpec ==
  /\ ChecksSpec
  /\ WF_checksVars(TenSeconds)
  /\ WF_checksVars(Again \/ (late /\ PilotSide) \/ PmSide)

-----------------------------------------------------------------------------
(* Properties *)

ChecksTypeOK ==
  /\ Flight!TypeOK
  /\ voice \in BOOLEAN
  /\ command \in [Commands -> States]
  /\ recognized \subseteq Commands
  /\ checkingFlightControls \in BOOLEAN
  /\ flightControlsChecked \in BOOLEAN /\ brakesChecked \in BOOLEAN
  /\ controls \in {"none", "again", "pilot", "pm", "hung"}
  /\ checked \subseteq Parts
  /\ isActive \in BOOLEAN /\ late \in BOOLEAN /\ brakeCheckVcWasActive \in BOOLEAN
  /\ brakes \in BOOLEAN /\ belated \in BOOLEAN /\ failed \in BOOLEAN

\* While the aeroplane taxies and the brakes are not checked, the command "brake check"
\* is in ignore mode only if a check of the flight controls runs that will activate it
\* again (callouts.lua:282, 299), or one that would have has ended by an error, which
\* leaves it so until an event switches it; no stop or restart of the checks, nor a
\* timeout of either side, does.  That the pilot can ask is more, and not so: a check
\* that is stopped or fails leaves checkingFlightControls set (callouts.lua:257).
BrakeCommandGivenBack ==
  /\ ChecksTypeOK
  /\ stage = "taxi" /\ command["brakeCheck"] = "Ignore"
       => brakesChecked \/ (controls \in {"pilot", "pm"} /\ brakeCheckVcWasActive) \/ failed

\* The flight controls are checked while taxiing only: takeoffInitiated and engineShutdown
\* stop the check (callouts.lua:375), and nothing starts it before it is time again, but
\* for a command that was recognized in time and delivered too late (FSL2LuaScript.cpp:458).
ChecksInTaxiOnly == controls # "none" /\ stage # "taxi" => belated

\* A check that has begun ends: it is done, it is stopped, or it times out when the pilot
\* does nothing for ten seconds (FlightControlCheck.lua:116), and each part of an axis can
\* put that off once only.
ControlCheckEnds == isActive ~> ~isActive
=============================================================================
