-------------------------- MODULE MCEventDispatch ---------------------------
(* Small instances of EventDispatch for TLC. *)
EXTENDS EventDispatch

CONSTANTS e1, f1, c1, c2

\* One event starts with actions of every kind, any other with a function.
SomeList == [e \in Events |-> IF e = e1 THEN <<c1, f1>> ELSE <<f1>>]
ManyList == [e \in Events |-> IF e = e1 THEN <<c1, f1, c2>> ELSE <<f1>>]
=============================================================================
