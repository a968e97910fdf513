----------------------------- MODULE MCOrchestrator -----------------------------
(* Orchestrator on small instances: two agents, two subtasks. *)
EXTENDS Orchestrator, TLC

CONSTANTS a1, a2

Plan(deps) == [required |-> (0 :> {"coding"} @@ 1 :> {}), dependencies |-> deps]
InOrder == {Plan(<<<<0, 1>>>>)}
SomePlans == InOrder \cup {Plan(<<<<1, 0>>>>), Plan(<<<<0, 1>>, <<1, 0>>>>)}

Coder == [pid |-> a1, caps |-> {"coding"}]
Helper == [pid |-> a2, caps |-> {}]
Both == {<<Coder, Helper>>}
SomeRegistries == {<<>>, <<Coder, Helper>>}
================================================================================
