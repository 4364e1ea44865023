-------------------------- MODULE MCCallbackRunner --------------------------
(* Small instances of CallbackRunner for TLC. *)
EXTENDS CallbackRunner

ObjSymmetry == Permutations(Objs)
=============================================================================
