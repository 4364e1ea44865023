--------------------------- MODULE TopologicalSort ---------------------------
(***************************************************************************)
(* The sort that puts the actions of an event in order: Ouroboros:sort     *)
(* (Copilot/libs/ouroboros.lua), called without a function that resolves   *)
(* cycles.  A depth-first search: the stack of calls of _visit is explicit, *)
(* and tables are traversed in any order, as pairs() does.                 *)
(***************************************************************************)
EXTENDS Integers, Sequences, FiniteSets, SequencesExt

CONSTANT Elements   \* whatever is, or once was, a node of the graph

ASSUME ElementsAssumption == IsFiniteSet(Elements)

VARIABLES
  nodes,            \* nodes[k]: the elements that come before k
  marked,           \* "no", "PROCESSING" or "DEAD"
  sorted,
  stack,            \* the calls of _visit: k, and the dependencies still to be visited
  cycle,            \* the cycle a call has returned, <<>> if none has
  isCycleComplete,
  outcome           \* "none", or what the sort has returned: "sorted", "cycle"

sortVars == <<nodes, marked, sorted, stack, cycle, isCycleComplete, outcome>>

Innermost == Last(stack)

Searching == outcome = "none" /\ cycle = <<>>

\* A call of _visit for an element that is not marked yet.
Call(k) == [k |-> k, todo |-> nodes[k]]

\* The loop over the nodes calls _visit.
VisitNode(k) ==
  /\ Searching
  /\ stack = <<>>
  /\ marked[k] = "no"
  /\ marked' = [marked EXCEPT ![k] = "PROCESSING"]
  /\ stack' = <<Call(k)>>
  /\ UNCHANGED <<nodes, sorted, cycle, isCycleComplete, outcome>>

\* Variant: the loop stays at the same dependency.
NotDone(d) == stack

\* What the innermost call goes on with, d being dealt with.
Done(d) == Append(Front(stack), [Innermost EXCEPT !.todo = @ \ {d}])

\* Variant: the node itself goes.
DropNode(d) == nodes' = [k \in DOMAIN nodes \ {Innermost.k} |-> nodes[k]]

\* Variant: all dependencies are dropped with it.
DropAll(d) == nodes' = [nodes EXCEPT ![Innermost.k] = {}]

\* f[dependency] = nil
DropForeign(d) == nodes' = [nodes EXCEPT ![Innermost.k] = @ \ {d}]

ForeignDependency(d) ==
  /\ d \notin DOMAIN nodes
  /\ DropForeign(d)
  /\ stack' = Done(d)
  /\ UNCHANGED <<marked, cycle, isCycleComplete>>

\* Variant: a node that is being processed is taken for one that is done.
IsVisited(d) == marked[d] # "no"

IsDead(d) == marked[d] = "DEAD"

DeadDependency(d) ==
  /\ d \in DOMAIN nodes
  /\ IsDead(d)
  /\ stack' = Done(d)
  /\ UNCHANGED <<nodes, marked, cycle, isCycleComplete>>

NewDependency(d) ==
  /\ d \in DOMAIN nodes
  /\ marked[d] = "no"
  /\ marked' = [marked EXCEPT ![d] = "PROCESSING"]
  /\ stack' = Append(Done(d), Call(d))
  /\ UNCHANGED <<nodes, cycle, isCycleComplete>>

\* The call for d returns {d}, false.
CycleFound(d) ==
  /\ d \in DOMAIN nodes
  /\ ~IsDead(d) /\ marked[d] = "PROCESSING"
  /\ cycle' = <<d>>
  /\ isCycleComplete' = FALSE
  /\ UNCHANGED <<nodes, marked, stack>>

VisitDependency(d) ==
  /\ Searching
  /\ stack # <<>>
  /\ d \in Innermost.todo
  /\ \/ ForeignDependency(d)
     \/ DeadDependency(d)
     \/ NewDependency(d)
     \/ CycleFound(d)
  /\ UNCHANGED <<sorted, outcome>>

Insert(k) == sorted' = Append(sorted, k)

\* All dependencies visited: marked DEAD and put behind them.
LeaveNode ==
  /\ Searching
  /\ stack # <<>>
  /\ Innermost.todo = {}
  /\ marked' = [marked EXCEPT ![Innermost.k] = "DEAD"]
  /\ Insert(Innermost.k)
  /\ stack' = Front(stack)
  /\ UNCHANGED <<nodes, cycle, isCycleComplete, outcome>>

\* Variant: the cycle is complete only at the end of the search.
GrowsAlways(k) == TRUE

\* The loop over the nodes of the cycle does not find k.
Grows(k) == k \notin Range(cycle)

\* A call that has got a cycle from the call it made returns it, with its own node
\* added unless the cycle is complete.
Unwind ==
  /\ outcome = "none"
  /\ cycle # <<>> /\ stack # <<>>
  /\ \/ /\ isCycleComplete
        /\ UNCHANGED <<cycle, isCycleComplete>>
     \/ /\ ~isCycleComplete
        /\ ~Grows(Innermost.k)
        /\ isCycleComplete' = TRUE
        /\ UNCHANGED cycle
     \/ /\ ~isCycleComplete
        /\ Grows(Innermost.k)
        /\ cycle' = Append(cycle, Innermost.k)
        /\ UNCHANGED isCycleComplete
  /\ stack' = Front(stack)
  /\ UNCHANGED <<nodes, marked, sorted, outcome>>

\* _sort and sort return.
SortReturns ==
  /\ outcome = "none"
  /\ stack = <<>>
  /\ \/ cycle # <<>> /\ outcome' = "cycle"
     \/ /\ cycle = <<>>
        /\ \A k \in DOMAIN nodes : marked[k] # "no"
        /\ outcome' = "sorted"
  /\ UNCHANGED <<nodes, marked, sorted, stack, cycle, isCycleComplete>>

SortInit ==
  /\ \E K \in SUBSET Elements : nodes \in [K -> SUBSET Elements]
  /\ marked = [k \in DOMAIN nodes |-> "no"]
  /\ sorted = <<>>
  /\ stack = <<>>
  /\ cycle = <<>>
  /\ isCycleComplete = FALSE
  /\ outcome = "none"

SortNext ==
  \/ \E k \in DOMAIN nodes : VisitNode(k)
  \/ \E d \in Elements : VisitDependency(d)
  \/ LeaveNode
  \/ Unwind
  \/ SortReturns

SortSpec == SortInit /\ [][SortNext]_sortVars

\* The sort is one call of a Lua function: nothing stops it half-way.
FairSortSpec == SortSpec /\ WF_sortVars(SortNext)

-----------------------------------------------------------------------------
(* Properties *)

Mark == {"no", "PROCESSING", "DEAD"}

Visit == [k : DOMAIN nodes, todo : SUBSET Elements]

\* The search's tables stay within their types.
SortTypeOK ==
  /\ DOMAIN nodes \subseteq Elements
  /\ nodes \in [DOMAIN nodes -> SUBSET Elements]
  /\ marked \in [DOMAIN nodes -> Mark]
  /\ sorted \in Seq(DOMAIN nodes)
  /\ stack \in Seq(Visit)
  /\ cycle \in Seq(DOMAIN nodes)
  /\ isCycleComplete \in BOOLEAN
  /\ outcome \in {"none", "sorted", "cycle"}

\* An order in which every node comes after its dependencies.
DependenciesFirst ==
  \A i \in DOMAIN sorted : \A d \in nodes[sorted[i]] :
    \E j \in DOMAIN sorted : j < i /\ sorted[j] = d

\* A sort that succeeds returns every node once, behind everything it depends on.
SortedTopologically ==
  outcome = "sorted" =>
    /\ Range(sorted) = DOMAIN nodes
    /\ IsInjective(sorted)
    /\ DependenciesFirst

\* What a sort that fails calls a cycle is one: each of its nodes is a dependency of
\* the next, and the last one of the first.
CycleIsCycle ==
  outcome = "cycle" =>
    /\ \A i \in 1..(Len(cycle) - 1) : cycle[i] \in nodes[cycle[i + 1]]
    /\ cycle[Len(cycle)] \in nodes[cycle[1]]

\* There is a cycle just if some nodes have all a dependency among themselves.
Cyclic ==
  \E K \in SUBSET DOMAIN nodes : K # {} /\ \A k \in K : nodes[k] \cap K # {}

\* The sort fails exactly if there is no order.
FailsOnCyclesOnly ==
  outcome # "none" => (outcome = "cycle" <=> Cyclic)

\* The sort returns an order of the nodes if there is one, and fails if there is none,
\* wherever the search starts and whatever it has dropped before.
OrderOrFailure == SortedTopologically /\ FailsOnCyclesOnly

\* The sort forgets a dependency only on what is not a node any more.
DropsForeignOnly ==
  [][\A k \in DOMAIN nodes : nodes[k] \cap DOMAIN nodes \subseteq nodes'[k]]_sortVars

\* Whatever the graph, the sort returns.
SortEnds == <>(outcome # "none")
=============================================================================
