-------------------------- MODULE MCScriptLifecycle --------------------------
(* The scripts and the uses of the API TLC takes for ScriptLifecycle. *)
EXTENDS ScriptLifecycle, TLC

CONSTANTS p1, p2

OneScript == <<p1>>

\* Scripts are restarted while events are handed to them; they are stopped too, and
\* take no mutex by themselves; they take mutexes, and are neither restarted nor stopped.
SafeUsages == {
  {"launch", "with", "close", "scripted"},
  {"launch", "launcher", "stop", "stopAll", "with"},
  {"with", "collect", "control"}}

DetachedSymmetry == Permutations(Detached)
=============================================================================
