-------------------------------- MODULE Router --------------------------------
(***************************************************************************)
(* The LLM router and the air gap of openhawk-core.  A request walks the   *)
(* providers by priority and takes the answer of the first that is there   *)
(* and answers; one that finds none is queued.  Nothing empties the queue. *)
(*                                                                         *)
(* Whether a provider is reachable and answers changes at any time: the    *)
(* two functions that ask are stubs in the code, which always succeed, and *)
(* the loop is modelled for whatever they say.                             *)
(***************************************************************************)
EXTENDS Naturals, Sequences, Functions, Filters

CONSTANTS
    Configured,    \* the providers of the configuration, in its order
    Agents,        \* agents that send requests
    MaxQueued,     \* bound: requests queued
    None

Providers == Range(Configured)

VARIABLES
    call,      \* agent -> its route_request
    queued,    \* (agent, request) pairs, in the order they were given up
    answer     \* history: agent -> who answered its last request, and whom it had asked

vars == <<call, queued, answer>>

NoCall == [pc |-> "idle", local_only |-> FALSE, todo |-> <<>>, refused |-> {}]
NoAnswer == [by |-> None, local_only |-> FALSE, refused |-> {}]
Init == call = [a \in Agents |-> NoCall] /\ queued = <<>> /\ answer = [a \in Agents |-> NoAnswer]

--------------------------------------------------------------------------------
(* LlmRouter *)

(* Mutant: the order of the configuration. *)
new_Unsorted(ps) == ps

(* sort_by_key keeps the order of equal priorities. *)
Before(p, q) ==
    \/ p.priority < q.priority
    \/ p.priority = q.priority /\ \E i, j \in DOMAIN Configured :
           i < j /\ Configured[i] = p /\ Configured[j] = q
Preference == {r \in Providers \X Providers : Before(r[1], r[2])}
new(ps) == Sorted(ps, Preference)

filter_for_air_gap(ps, gap) == Only(ps, {p \in Range(ps) : ~gap \/ p.local})

route_request(a, local_only) ==
    /\ call[a].pc = "idle"
    /\ call' = [call EXCEPT ![a] = [pc |-> "try", local_only |-> local_only, refused |-> {},
                                    todo |-> filter_for_air_gap(new(Configured), local_only)]]
    /\ UNCHANGED <<queued, answer>>

(* Available, and its call succeeds. *)
Answers(a) ==
    LET c == call[a] IN
    /\ c.pc = "try" /\ c.todo # <<>>
    /\ answer' = [answer EXCEPT ![a] = [by |-> Head(c.todo), local_only |-> c.local_only,
                                        refused |-> c.refused]]
    /\ call' = [call EXCEPT ![a] = NoCall]
    /\ UNCHANGED queued

(* Not available, or its call fails: the next one. *)
Falls(a) ==
    /\ call[a].pc = "try" /\ call[a].todo # <<>>
    /\ call' = [call EXCEPT ![a].todo = Tail(@), ![a].refused = @ \cup {Head(call[a].todo)}]
    /\ UNCHANGED <<queued, answer>>

Queue(a) ==
    /\ call[a].pc = "try" /\ call[a].todo = <<>> /\ Len(queued) < MaxQueued
    /\ queued' = Append(queued, [agent |-> a, local_only |-> call[a].local_only, refused |-> call[a].refused])
    /\ call' = [call EXCEPT ![a] = NoCall]
    /\ answer' = [answer EXCEPT ![a] = NoAnswer]

--------------------------------------------------------------------------------
(* AirGapEnforcer: what it lets through. *)

check_network_request(enabled, local) == ~enabled \/ local
check_llm_provider(enabled, p) == ~enabled \/ p.local
filter_llm_providers(enabled, ps) == Only(ps, {p \in Range(ps) : check_llm_provider(enabled, p)})
check_nest_operation(enabled, operation) == ~enabled \/ operation \notin {"publish", "search_remote"}

--------------------------------------------------------------------------------
Next == \E a \in Agents :
    \/ \E local_only \in BOOLEAN : route_request(a, local_only)
    \/ Answers(a) \/ Falls(a) \/ Queue(a)
Spec == Init /\ [][Next]_vars

--------------------------------------------------------------------------------
(* Properties *)

Eligible(local_only) == {p \in Providers : ~local_only \/ p.local}

(* A request is answered by a provider it may use, after every eligible one that
   comes before it has refused, and by no other; it is queued only when all of
   them have; and none that the air gap blocks is ever asked. *)
BestAnswer ==
    /\ \A a \in Agents : answer[a].by # None =>
          /\ check_llm_provider(answer[a].local_only, answer[a].by)
          /\ answer[a].refused = {p \in Eligible(answer[a].local_only) : Before(p, answer[a].by)}
    /\ \A i \in DOMAIN queued : queued[i].refused = Eligible(queued[i].local_only)
    /\ \A gap \in BOOLEAN : filter_llm_providers(gap, Configured) = filter_for_air_gap(Configured, gap)
================================================================================
