------------------------------ MODULE Orchestrator ------------------------------
(***************************************************************************)
(* Orchestrator::execute_plan on top of the message bus.                   *)
(*                                                                         *)
(* The orchestrator runs the subtasks one after the other.  For each it    *)
(* subscribes to a reply topic of its own, sends task.run to the agent     *)
(* directly and waits 30 seconds at most for a reply; a subtask that fails *)
(* is tried once more with another agent.  Agents are tasks on the same    *)
(* bus: they connect, answer, answer late or never, and go away.           *)
(***************************************************************************)
EXTENDS Planning

CONSTANTS
    Agents,        \* pids
    Orch,          \* the pid the orchestrator subscribes with (0)
    Registries,    \* what register_agent may have been called with
    Plans,         \* plans to execute: [required, dependencies]
    Chans,         \* enough for every dispatch and every agent
    Ids,           \* task ids: nothing keeps uuid_v4_simple from giving one twice
    Capacity,      \* of a channel
    Inbox,         \* the topic agents subscribe to
    None

VARIABLES subscriptions, direct, buffer, receiver, sending, queue, now

Methods == {"task.run", "task.done", "task.failed"}
Message == [method : Methods, id : Ids, subtask : Nat]

ASSUME NamesAssumption == Orch \notin Agents /\ None \notin Agents \cup Chans \cup Ids \cup Message
ASSUME RegistriesAssumption ==
    \A r \in Registries : r \in Seq(ToSet(r)) /\ \A a \in ToSet(r) : a.pid \in Agents
ASSUME PlansAssumption ==
    \A p \in Plans :
        /\ DOMAIN p.required = Subtasks(Cardinality(DOMAIN p.required))
        /\ \A i \in DOMAIN p.required : IsFiniteSet(p.required[i])
        /\ IsFiniteSet(DOMAIN p.required)
        /\ p.dependencies \in Seq(Nat \X Nat)

Bus == INSTANCE MessageBus WITH
    Pids <- Agents \cup {Orch}, Tasks <- Agents \cup {Orch}, Topics <- Ids \cup {Inbox},
    Messages <- Message, MaxQueue <- 0, Retention <- 0, MaxTime <- 0

VARIABLES
    agents,        \* the registered agents
    attached,      \* whether the orchestrator has a bus
    dependencies,  \* of the plan
    assigned,      \* subtask -> its agent
    required,      \* subtask -> the capabilities it requires
    status,        \* subtask -> "pending", "running", "completed" or "failed"
    todo,          \* subtasks in the order of execution, the current one first
    pc,            \* where execute_plan is
    attempt,       \* of the current subtask: 1 or 2
    call,          \* the dispatch in progress: [id, chan, outcome, why, reply]
    report,        \* what execute_plan returned
    job,           \* agent -> the task.run it is working on
    log            \* history: [subtask, pid, id, why, reply] of each dispatch that returned

bus == <<subscriptions, direct, buffer, receiver, sending, queue, now>>
plan == <<agents, attached, dependencies, required>>
vars == <<bus, plan, assigned, status, todo, pc, attempt, call, report, job, log>>

NoCall == [id |-> None, chan |-> None, outcome |-> None, why |-> "none", reply |-> None]
Size == Cardinality(DOMAIN required)
Current == Head(todo)

Init ==
    /\ Bus!Init
    /\ agents \in Registries
    /\ attached \in BOOLEAN
    /\ \E p \in Plans : required = p.required /\ dependencies = p.dependencies
    \* orchestrate() may have been called before any agent was registered.
    /\ \E known \in {agents, <<>>} :
          assigned = [i \in DOMAIN required |-> BestAgent(known, required[i], None)]
    /\ status = [i \in DOMAIN required |-> "pending"]
    /\ todo = <<>>
    /\ pc = "plan"
    /\ attempt = 1
    /\ call = NoCall
    /\ report = "none"
    /\ job = [a \in Agents |-> None]
    /\ log = <<>>

--------------------------------------------------------------------------------
(* The loop of execute_plan *)

(* Mutant: the subtasks are run in the order they are listed. *)
ExecutePlan_Listed ==
    /\ pc = "plan"
    /\ todo' = [i \in 1 .. Size |-> i - 1] /\ pc' = "next"
    /\ UNCHANGED <<bus, plan, assigned, status, attempt, call, report, job, log>>

ExecutePlan ==
    /\ pc = "plan"
    /\ LET sorted == TopologicalSort(Size, dependencies)
       IN  IF sorted.found
           THEN todo' = sorted.order /\ pc' = "next" /\ UNCHANGED report
           ELSE pc' = "end" /\ report' = "cyclic" /\ UNCHANGED todo
    /\ UNCHANGED <<bus, plan, assigned, status, attempt, call, job, log>>

NextSubtask ==
    /\ pc = "next" /\ todo # <<>>
    /\ status' = [status EXCEPT ![Current] = "running"]
    /\ pc' = "dispatch" /\ attempt' = 1
    /\ UNCHANGED <<bus, plan, assigned, todo, call, report, job, log>>

(* Mutant: one subtask completed is enough. *)
Report_Partial ==
    /\ pc = "next" /\ todo = <<>>
    /\ report' = IF \E i \in DOMAIN status : status[i] = "completed" THEN "success" ELSE "failed"
    /\ pc' = "end"
    /\ UNCHANGED <<bus, plan, assigned, status, todo, attempt, call, job, log>>

Report ==
    /\ pc = "next" /\ todo = <<>>
    /\ report' = IF \E i \in DOMAIN status : status[i] = "failed" THEN "failed" ELSE "success"
    /\ pc' = "end"
    /\ UNCHANGED <<bus, plan, assigned, status, todo, attempt, call, job, log>>

(* Mutant: the status is left as it is. *)
Finish_NoStatus(s) ==
    /\ todo' = Tail(todo) /\ pc' = "next"
    /\ UNCHANGED <<assigned, status, attempt>>

Finish(s) ==
    /\ status' = [status EXCEPT ![Current] = s]
    /\ todo' = Tail(todo) /\ pc' = "next"
    /\ UNCHANGED <<assigned, attempt>>

Others == Only(agents, {r \in ToSet(agents) : r.pid # assigned[Current]})

(* Mutant: the agent that failed may be asked again. *)
Retry_Same ==
    /\ assigned' = [assigned EXCEPT ![Current] = BestAgent(agents, required[Current], None)]
    /\ pc' = "dispatch" /\ attempt' = 2
    /\ UNCHANGED <<status, todo>>

Retry ==
    /\ assigned' = [assigned EXCEPT ![Current] = BestAgent(Others, required[Current], None)]
    /\ pc' = "dispatch" /\ attempt' = 2
    /\ UNCHANGED <<status, todo>>

(* dispatch_subtask has returned. *)
AfterDispatch(outcome, why, reply) ==
    /\ log' = Append(log, [subtask |-> Current, pid |-> assigned[Current],
                           id |-> call.id, why |-> why, reply |-> reply])
    /\ call' = NoCall
    /\ IF outcome = "ok" THEN Finish("completed")
       ELSE IF attempt = 1 /\ Others # <<>> THEN Retry
       ELSE Finish("failed")

--------------------------------------------------------------------------------
(* dispatch_subtask *)

NoAgentAssigned ==
    /\ pc = "dispatch" /\ assigned[Current] = None
    /\ AfterDispatch("err", "unassigned", None)
    /\ UNCHANGED <<bus, plan, report, job>>

Simulate ==
    /\ pc = "dispatch" /\ assigned[Current] # None /\ ~attached
    /\ AfterDispatch("ok", "no_bus", None)
    /\ UNCHANGED <<bus, plan, report, job>>

Unused == {c \in Chans : receiver[c] = "unused"}
FreshChan == CHOOSE c \in Unused : TRUE

SubscribeReply ==
    /\ pc = "dispatch" /\ assigned[Current] # None /\ attached /\ Unused # {}
    /\ \E id \in Ids :
          /\ Bus!Subscribe(Orch, id, FreshChan)
          /\ call' = [NoCall EXCEPT !.id = id, !.chan = FreshChan]
    /\ pc' = "send"
    /\ UNCHANGED <<plan, assigned, status, todo, attempt, report, job, log>>

(* send_direct finds the agent's channel, or NoSubscriber: simulate. *)
SendTask ==
    /\ pc = "send"
    /\ LET pid == assigned[Current]
           run == [method |-> "task.run", id |-> call.id, subtask |-> Current]
       IN  \/ Bus!SendDirect(Orch, pid, run) /\ pc' = "sending" /\ UNCHANGED call
           \/ /\ direct[pid] = None /\ UNCHANGED bus
              /\ pc' = "return"
              /\ call' = [call EXCEPT !.outcome = "ok", !.why = "no_subscriber"]
    /\ UNCHANGED <<plan, assigned, status, todo, attempt, report, job, log>>

(* The send waits while the agent's channel is full, with no time limit. *)
TaskSent ==
    /\ pc = "sending" /\ Bus!SendNext(Orch)
    /\ pc' = "wait"
    /\ UNCHANGED <<plan, assigned, status, todo, attempt, call, report, job, log>>

(* Mutant: any reply will do. *)
TakeReply_Any ==
    /\ pc = "wait" /\ Bus!Receive(call.chan)
    /\ call' = [call EXCEPT !.outcome = "ok", !.why = "reply",
                            !.reply = Head(buffer[call.chan])]
    /\ pc' = "return"
    /\ UNCHANGED <<plan, assigned, status, todo, attempt, report, job, log>>

(* task.done is success, whatever else arrives is failure. *)
TakeReply ==
    /\ pc = "wait" /\ Bus!Receive(call.chan)
    /\ LET reply == Head(buffer[call.chan])
       IN  call' = [call EXCEPT !.outcome = IF reply.method = "task.done" THEN "ok" ELSE "err",
                                !.why = "reply", !.reply = reply]
    /\ pc' = "return"
    /\ UNCHANGED <<plan, assigned, status, todo, attempt, report, job, log>>

(* Mutant: no timeout. *)
TimedOut_Never == FALSE /\ UNCHANGED vars

(* No reply after 30 seconds: simulate.  A reply that is there is taken first. *)
TimedOut ==
    /\ pc = "wait" /\ buffer[call.chan] = <<>>
    /\ call' = [call EXCEPT !.outcome = "ok", !.why = "timeout"]
    /\ pc' = "return"
    /\ UNCHANGED <<bus, plan, assigned, status, todo, attempt, report, job, log>>

(* The reply receiver goes out of scope; its subscription stays. *)
Return ==
    /\ pc = "return"
    /\ Bus!Drop(call.chan)
    /\ AfterDispatch(call.outcome, call.why, call.reply)
    /\ UNCHANGED <<plan, report, job>>

--------------------------------------------------------------------------------
(* Agents *)

idle == <<plan, assigned, status, todo, pc, attempt, call, report, log>>

Connect(a) ==
    /\ attached /\ direct[a] = None /\ Unused # {}
    /\ Bus!Subscribe(a, Inbox, FreshChan)
    /\ UNCHANGED <<idle, job>>

Accept(a) ==
    /\ job[a] = None /\ sending[a] = Bus!Idle
    /\ direct[a] # None /\ Bus!Receive(direct[a])
    /\ job' = [job EXCEPT ![a] = Head(buffer[direct[a]])]
    /\ UNCHANGED idle

Answer(a, method) ==
    /\ job[a] # None
    /\ Bus!Publish(a, job[a].id, [job[a] EXCEPT !.method = method])
    /\ job' = [job EXCEPT ![a] = None]
    /\ UNCHANGED idle

AnswerSent(a) == Bus!SendNext(a) /\ UNCHANGED <<idle, job>>

(* It drops the task, as one that only prints what it receives does. *)
Ignore(a) ==
    /\ job[a] # None
    /\ job' = [job EXCEPT ![a] = None]
    /\ UNCHANGED <<bus, idle>>

Leave(a) ==
    /\ direct[a] # None /\ Bus!Drop(direct[a])
    /\ job' = [job EXCEPT ![a] = None]
    /\ UNCHANGED idle

--------------------------------------------------------------------------------
Execute ==
    \/ ExecutePlan \/ NextSubtask \/ Report \/ NoAgentAssigned \/ Simulate
    \/ SubscribeReply \/ SendTask \/ TaskSent \/ TakeReply \/ TimedOut \/ Return

AgentStep(a) ==
    \/ Connect(a) \/ Accept(a) \/ AnswerSent(a) \/ Ignore(a) \/ Leave(a)
    \/ \E method \in {"task.done", "task.failed"} : Answer(a, method)

(* The report has been returned. *)
Ended == pc = "end" /\ UNCHANGED vars

Next == Execute \/ Ended \/ \E a \in Agents : AgentStep(a)

Spec == Init /\ [][Next]_vars

(* The orchestrator keeps running. *)
FairSpec == Spec /\ WF_vars(Execute)

(* ... and agents take, sooner or later, what is in their channel. *)
ReadingSpec ==
    /\ Spec
    /\ WF_vars(Execute)
    /\ \A a \in Agents : WF_vars(Accept(a)) /\ WF_vars(Ignore(a)) /\ WF_vars(AnswerSent(a))

--------------------------------------------------------------------------------
(* Properties *)

(* Every variable of the orchestrator keeps its type, at most one subtask is
   running, and the reply channel of the dispatch in progress is its own. *)
TypeOK ==
    /\ assigned \in [DOMAIN required -> Agents \cup {None}]
    /\ status \in [DOMAIN required -> {"pending", "running", "completed", "failed"}]
    /\ todo \in Seq(DOMAIN required)
    /\ pc \in {"plan", "next", "dispatch", "send", "sending", "wait", "return", "end"}
    /\ attempt \in {1, 2}
    /\ report \in {"none", "success", "failed", "cyclic"}
    /\ job \in [Agents -> Message \cup {None}]
    /\ Cardinality({i \in DOMAIN status : status[i] = "running"}) <= 1
    /\ pc \in {"send", "sending", "wait", "return"} <=> call.chan # None
    /\ call.chan # None => receiver[call.chan] = "open"

(* A subtask is not dispatched before everything it depends on has come to its
   end, one way or the other. *)
DependenciesEnd ==
    \A i \in DOMAIN status : status[i] # "pending" =>
        \A d \in ToSet(dependencies) : d[2] = i => status[d[1]] \in {"completed", "failed"}

(* A subtask is tried twice at most, one try right after the other and by
   different agents. *)
TriedTwice ==
    \A j, k \in DOMAIN log :
        j < k /\ log[j].subtask = log[k].subtask => k = j + 1 /\ log[j].pid # log[k].pid

(* However late answers come in, the reply a dispatch ended with was an answer to
   that dispatch, or to an earlier one that had been given the same id: to none
   but itself as long as its id was new.  And the subtask is completed by a reply
   only if that was task.done. *)
RepliesMatch ==
    \A k \in DOMAIN log : log[k].why = "reply" =>
        LET i == log[k].subtask
            last == \A l \in DOMAIN log : log[l].subtask = i => l <= k
        IN  /\ log[k].reply.id = log[k].id
            /\ \E j \in 1 .. k : log[j].id = log[k].id /\ log[j].subtask = log[k].reply.subtask
            /\ last => (status[i] = "completed" <=> log[k].reply.method = "task.done")

(* The plan is executed to its end, or not at all: success is reported when all
   subtasks are completed, failure when all have ended and one failed. *)
ReportExact ==
    pc = "end" =>
        \/ report = "cyclic" /\ \A i \in DOMAIN status : status[i] = "pending"
        \/ report = "success" /\ \A i \in DOMAIN status : status[i] = "completed"
        \/ /\ report = "failed" /\ \E i \in DOMAIN status : status[i] = "failed"
           /\ \A i \in DOMAIN status : status[i] \in {"completed", "failed"}

(* Nothing runs before what it depends on has ended, and the report says how all
   of it ended. *)
PlanExact == DependenciesEnd /\ ReportExact

(* A subtask is tried twice at most, and what it believes was said under its id. *)
TriesExact == TriedTwice /\ RepliesMatch

(* "Agents that don't reply within this window are treated as failed." *)
TimeoutIsFailure ==
    \A k \in DOMAIN log : log[k].why = "timeout" => status[log[k].subtask] # "completed"

(* A plan comes to its end. *)
PlanEnds == <>(pc = "end")
================================================================================
