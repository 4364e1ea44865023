----------------------------- MODULE MCChecklist -----------------------------
\* Two checklists for TLC: the first has an item without a check and one that is
\* checked by a coroutine, the second an item that is checked by a function.
EXTENDS Checklist

CONSTANTS c1, c2, t1, t2, r1, r2, other

MCCommands == Shared \union {t1, t2, r1, r2, other}
MCTrigger == [c \in Checklists |-> IF c = c1 THEN t1 ELSE t2]
MCItems ==
  [c \in Checklists |->
     IF c = c1 THEN <<[response |-> r1, check |-> "none"],
                      [response |-> r2, check |-> "coroutine"]>>
     ELSE <<[response |-> r1, check |-> "function"]>>]
MCPersistence ==
  [v \in Commands |-> IF v = other THEN "Ignore" ELSE "NonPersistent"]
=============================================================================
