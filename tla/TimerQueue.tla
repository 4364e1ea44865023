----------------------------- MODULE TimerQueue -----------------------------
(***************************************************************************)
(* What the callback queue of a script promises, without its data          *)
(* structures: every callable has at most one deadline; a callable is run  *)
(* when its deadline has come and no other one is earlier; while it runs,  *)
(* and only through calls of the script, deadlines come, go and change.    *)
(***************************************************************************)
EXTENDS Integers

CONSTANTS Callables, None, INDEFINITE, MaxTime

VARIABLES
  now,
  pending,    \* the deadline of each callable, None when it is not queued
  running     \* the callable the queue is running

vars == <<now, pending, running>>

Init ==
  /\ now = 0
  /\ pending = [c \in Callables |-> None]
  /\ running = None

\* A script queues c, now or later.
Add(c) ==
  /\ pending[c] = None
  /\ pending' = [pending EXCEPT ![c] = pending'[c]]
  /\ pending'[c] \in Nat /\ pending'[c] >= now /\ pending'[c] # INDEFINITE
  /\ UNCHANGED <<now, running>>

Remove(c) ==
  /\ pending[c] # None
  /\ pending' = [pending EXCEPT ![c] = None]
  /\ UNCHANGED <<now, running>>

\* c waits for another instant, or for good: one that has not passed, or at
\* least a later one than before.  When c is being run this may be its last act.
PutOff(c) ==
  /\ pending[c] # None
  /\ pending' = [pending EXCEPT ![c] = pending'[c]]
  /\ pending'[c] \in Nat /\ (pending'[c] >= now \/ pending'[c] > pending[c])
  /\ running' \in {running, IF running = c THEN None ELSE running}
  /\ UNCHANGED now

Earliest(c) ==
  \A d \in Callables : pending[d] # None => pending[c] <= pending[d]

Run(c) ==
  /\ running = None
  /\ pending[c] # None
  /\ pending[c] <= now
  /\ Earliest(c)
  /\ running' = c
  /\ UNCHANGED <<now, pending>>

Return ==
  /\ running # None
  /\ running' = None
  /\ UNCHANGED <<now, pending>>

Tick ==
  /\ now < MaxTime
  /\ now' = now + 1
  /\ UNCHANGED <<pending, running>>

Next ==
  \/ \E c \in Callables : Add(c) \/ Remove(c) \/ PutOff(c) \/ Run(c)
  \/ Return
  \/ Tick

Spec == Init /\ [][Next]_vars
=============================================================================
