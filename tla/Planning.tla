-------------------------------- MODULE Planning --------------------------------
(***************************************************************************)
(* The pure functions of openhawk-core/src/orchestrator.rs: which agent a  *)
(* subtask is given to, and the order subtasks are executed in.            *)
(*                                                                         *)
(* Subtasks are numbered from 0.  A dependency is a pair: the subtask to   *)
(* run first, and the one that depends on it.                              *)
(***************************************************************************)
EXTENDS Integers, Sequences, FiniteSets, SequencesExt, Filters

Subtasks(n) == 0 .. n - 1

--------------------------------------------------------------------------------
(* Choosing an agent.  An agent record is [pid, caps]. *)

CapabilityOverlap(caps, required) == Cardinality(caps \cap required)

(* max_by_key returns the last of several maxima; without agents, None. *)
BestAgent(agents, required, none) ==
    IF agents = <<>> THEN none
    ELSE LET Overlap(i) == CapabilityOverlap(agents[i].caps, required)
             best == CHOOSE i \in DOMAIN agents : \A j \in DOMAIN agents :
                        \/ Overlap(j) < Overlap(i)
                        \/ Overlap(j) = Overlap(i) /\ j <= i
         IN  agents[best].pid

--------------------------------------------------------------------------------
(* Kahn's algorithm *)

InRange(n, deps) == \A d \in ToSet(deps) : {d[1], d[2]} \subseteq Subtasks(n)

(* A dependency listed twice counts twice. *)
InDegree(i, deps) == Cardinality({k \in DOMAIN deps : deps[k][2] = i})

KahnInit(n, deps) ==
    [order |-> <<>>,
     degree |-> [i \in Subtasks(n) |-> InDegree(i, deps)],
     queue |-> Only([i \in 1 .. n |-> i - 1], {i \in Subtasks(n) : InDegree(i, deps) = 0})]

(* One dependency of the popped subtask is met. *)
Release(state, d) ==
    LET left == state.degree[d[2]] - 1
    IN  [state EXCEPT !.degree[d[2]] = left,
                      !.queue = IF left = 0 THEN Append(@, d[2]) ELSE @]

(* Mutant: a dependent is queued as soon as one of its dependencies is met. *)
Release_Early(state, d) ==
    [state EXCEPT !.degree[d[2]] = @ - 1,
                  !.queue = IF d[2] \in ToSet(state.queue \o state.order) THEN @
                            ELSE Append(@, d[2])]

(* Mutant: see Release_Early. *)
KahnPop_Early(state, deps) ==
    LET node == Head(state.queue)
    IN  FoldLeft(Release_Early, [state EXCEPT !.order = Append(@, node), !.queue = Tail(@)],
                 SelectSeq(deps, LAMBDA d : d[1] = node))

(* The subtask at the head of the queue is next; what depends on it is released
   in the order in which the dependencies are listed. *)
KahnPop(state, deps) ==
    LET node == Head(state.queue)
        after[k \in 0 .. Len(deps)] ==
            IF k = 0 THEN [state EXCEPT !.order = Append(@, node), !.queue = Tail(@)]
            ELSE IF deps[k][1] = node THEN Release(after[k - 1], deps[k])
            ELSE after[k - 1]
    IN  after[Len(deps)]

(* At most n subtasks are popped before the queue is empty. *)
Kahn(n, deps) ==
    LET after[k \in 0 .. n] ==
            IF k = 0 THEN KahnInit(n, deps)
            ELSE LET state == after[k - 1]
                 IN  IF state.queue = <<>> THEN state ELSE KahnPop(state, deps)
    IN  after[n].order

(* None when a dependency names no subtask, or not all subtasks come out. *)
TopologicalSort(n, deps) ==
    LET order == IF InRange(n, deps) THEN Kahn(n, deps) ELSE <<>>
    IN  [found |-> InRange(n, deps) /\ Len(order) = n, order |-> order]

--------------------------------------------------------------------------------
(* What the sort is for. *)

(* Every subtask once, after all it depends on. *)
IsSchedule(order, n, deps) ==
    /\ Len(order) = n /\ ToSet(order) = Subtasks(n)
    /\ \A d \in ToSet(deps) : \A i, j \in 1 .. n : d = <<order[i], order[j]>> => i < j

(* No set of subtasks in which each waits for another one of the set. *)
Acyclic(n, deps) ==
    LET edges == ToSet(deps)
    IN  \A S \in (SUBSET Subtasks(n)) \ {{}} :
            \E i \in S : \A d \in edges : d[2] = i => d[1] \notin S
================================================================================
