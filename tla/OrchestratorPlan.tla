---------------------------- MODULE OrchestratorPlan ----------------------------
(***************************************************************************)
(* Orchestrator::orchestrate: a task description is split at " then " and  *)
(* each part at " and "; the loop over the parts collects subtasks and     *)
(* dependencies.  The caller may add dependencies to the plan it gets,     *)
(* whose fields are public, before it has the plan executed.               *)
(***************************************************************************)
EXTENDS Planning

CONSTANTS MaxParts,  \* bound: parts between " then "
          MaxAnd,    \* bound: subtasks in one part
          MaxEdits   \* bound: dependencies added by the caller

ASSUME BoundsAssumption == MaxParts \in Nat /\ MaxAnd \in Nat /\ MaxEdits \in Nat

VARIABLES parts,         \* subtasks in each part so far (blank ones are skipped)
          count,         \* subtasks.len()
          edges,         \* dependencies
          edits          \* dependencies the caller has added

planVars == <<parts, count, edges, edits>>

PlanInit == parts = <<>> /\ count = 0 /\ edges = <<>> /\ edits = 0

(* Mutant: the dependencies are made the other way round. *)
AllPairs_Reversed(from, mid, k) ==
    [i \in 1 .. (mid - from) * k |-> <<mid + ((i - 1) % k), from + ((i - 1) \div k)>>]

(* All pairs of a subtask in from .. mid - 1 and one of the k from mid on, in
   the order of the two nested loops. *)
AllPairs(from, mid, k) ==
    [i \in 1 .. (mid - from) * k |-> <<from + ((i - 1) \div k), mid + ((i - 1) % k)>>]

(* Where the previous part is taken to begin: the last subtask that was given
   a dependency. *)
PreviousStart ==
    IF Len(parts) = 1 \/ edges = <<>> THEN 0 ELSE Last(edges)[2]

ThenPart(k) ==
    /\ Len(parts) < MaxParts /\ edits = 0
    /\ parts' = Append(parts, k)
    /\ count' = count + k
    /\ edges' = IF parts = <<>> THEN edges
                  ELSE edges \o AllPairs(PreviousStart, count, k)
    /\ UNCHANGED edits

AddDependency(i, j) ==
    /\ edits < MaxEdits
    /\ edges' = Append(edges, <<i, j>>)
    /\ edits' = edits + 1
    /\ UNCHANGED <<parts, count>>

PlanNext ==
    \/ \E k \in 0 .. MaxAnd : ThenPart(k)
    \/ \E i, j \in 0 .. count : AddDependency(i, j)

PlanSpec == PlanInit /\ [][PlanNext]_planVars

--------------------------------------------------------------------------------
(* Properties *)

Order == TopologicalSort(count, edges)

(* topological_sort gives up exactly on plans that no order can satisfy, and
   returns an order that satisfies the plan otherwise. *)
SortCorrect ==
    LET sorted == Order
    IN  /\ sorted.found <=> InRange(count, edges) /\ Acyclic(count, edges)
        /\ sorted.found => IsSchedule(sorted.order, count, edges)

(* A plan executed as orchestrate made it runs in the order it was written,
   although its dependencies do not name every pair. *)
WrittenOrder ==
    edits = 0 => Order.found /\ Order.order = [i \in 1 .. count |-> i - 1]

(* Both, of every plan the caller can get and make of it. *)
PlanInOrder == SortCorrect /\ WrittenOrder
================================================================================
