---------------------------- MODULE MCSimConnect ----------------------------
(* SimEvents and TextMenu in one run: the steps of a behaviour are those   *)
(* of one of them while the other is as it began.  Both at once are too    *)
(* many.  Two scripts share a named event, and the object may be made anew *)
(* twice.                                                                  *)
EXTENDS SimEvents, TextMenu, TLC

Symmetry == Permutations(Scripts)

\* A start of each, at which it may stay.
EventsUnused == simUsage = {} /\ EventInit
MenuUnused == menuUsage = {} /\ MenuInit

EitherInit == EventInit /\ MenuInit /\ (EventsUnused \/ MenuUnused)

EitherNext ==
  \/ MenuUnused /\ EventNext /\ UNCHANGED menuVars
  \/ EventsUnused /\ MenuNext /\ UNCHANGED eventVars

EitherSpec == EitherInit /\ [][EitherNext]_<<eventVars, menuVars>>
=============================================================================
