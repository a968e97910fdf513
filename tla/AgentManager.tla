------------------------------ MODULE AgentManager ------------------------------
(***************************************************************************)
(* AgentManager of openhawk-core: it spawns agents, stops, pauses and      *)
(* resumes them, and keeps their state in a map and in the table agents.   *)
(*                                                                         *)
(* Calls run in several threads on one manager.  A step is a critical      *)
(* section of the map or of the database, or one system call: in between,  *)
(* other calls run, agents exit, and the system gives the pid of a process *)
(* that was waited for to another one.                                     *)
(***************************************************************************)
EXTENDS Naturals, FiniteSets

CONSTANTS
    Pids,
    Threads,      \* callers of one manager
    MaxGen,       \* bound: processes that get the same pid
    MaxFaults,    \* bound: statements that fail
    MaxRestarts,  \* bound: processes, after the first, that make a manager
    None

ASSUME BoundsAssumption == MaxGen \in Nat /\ MaxFaults \in Nat /\ MaxRestarts \in Nat

States == {"Running", "Paused", "Stopping", "Stopped"}
Entry == [state : States, gen : Nat, reaped : BOOLEAN]

ASSUME NoneAssumption == None \notin States /\ None \notin Pids /\ None \notin Entry

VARIABLES
    proc,      \* pid -> the process: "none", "running", "suspended" or "zombie"
    gen,       \* pid -> how many processes have had it
    map,       \* pid -> entry in the map of agents; gen is that of its Child
    row,       \* pid -> state in the table agents
    op,        \* thread -> its call: [call, pc, pid, gen]
    result,    \* thread -> what its last call returned
    faults, restarts,
    (* History: *)
    strays,    \* signals that hit another process than the one meant
    calm       \* no two calls have overlapped, nothing failed or was restarted

vars == <<proc, gen, map, row, op, result, faults, restarts, strays, calm>>
os == <<proc, gen, strays>>

NoCall == [call |-> "none", pc |-> "idle", pid |-> None, gen |-> 0]

Init ==
    /\ proc = [p \in Pids |-> "none"]
    /\ gen = [p \in Pids |-> 0]
    /\ map = [p \in Pids |-> None]
    \* What earlier runs, and earlier boots, have left in the database.
    /\ row \in [Pids -> {None, "Stopped"}]
    /\ op = [t \in Threads |-> NoCall]
    /\ result = [t \in Threads |-> "none"]
    /\ faults = 0 /\ restarts = 0
    /\ strays = {} /\ calm = TRUE

--------------------------------------------------------------------------------
(* Shapes of a step *)

At(t, pc) == op[t].pc = pc
Pid(t) == op[t].pid

Goto(t, pc) == op' = [op EXCEPT ![t].pc = pc] /\ UNCHANGED result

Return(t, outcome) ==
    /\ op' = [op EXCEPT ![t] = NoCall]
    /\ result' = [result EXCEPT ![t] = outcome]

(* A call about an agent begins by looking it up. *)
Begin(t, call, pc, p) ==
    /\ At(t, "idle")
    /\ IF map[p] = None
       THEN Return(t, "not_found")
       ELSE /\ op' = [op EXCEPT ![t] = [call |-> call, pc |-> pc, pid |-> p,
                                        gen |-> map[p].gen]]
            /\ result' = [result EXCEPT ![t] = "none"]
    /\ UNCHANGED <<os, map, row, faults, restarts>>

(* kill(pid, signal): Err without a process of that pid.  Zombies take no notice. *)
Signal(t, Effect(_), next) ==
    IF proc[Pid(t)] = "none"
    THEN Return(t, "err") /\ UNCHANGED <<proc, strays>>
    ELSE /\ proc' = [proc EXCEPT ![Pid(t)] = IF @ = "zombie" THEN @ ELSE Effect(@)]
         /\ strays' = IF gen[Pid(t)] = op[t].gen THEN strays
                      ELSE strays \cup {<<op[t].call, op[t].pc>>}
         /\ Goto(t, next)

(* The two halves of update_state. *)
UpdateMap(t, state, next) ==
    /\ map' = [map EXCEPT ![Pid(t)] = IF @ = None THEN @ ELSE [@ EXCEPT !.state = state]]
    /\ Goto(t, next)
    /\ UNCHANGED <<os, row, faults, restarts>>

StatementFails(t) ==
    /\ faults < MaxFaults
    /\ faults' = faults + 1
    /\ Return(t, "err")
    /\ UNCHANGED <<os, map, row, restarts>>

UpdateRow(t, state, next) ==
    /\ row' = [row EXCEPT ![Pid(t)] = IF @ = None THEN @ ELSE state]
    /\ IF next = "return" THEN Return(t, "ok") ELSE Goto(t, next)
    /\ UNCHANGED <<os, map, faults, restarts>>

--------------------------------------------------------------------------------
(* spawn *)

Spawn(t) ==
    /\ At(t, "idle")
    /\ \E p \in Pids :
          /\ proc[p] = "none" /\ gen[p] < MaxGen
          /\ proc' = [proc EXCEPT ![p] = "running"]
          /\ gen' = [gen EXCEPT ![p] = @ + 1]
          /\ op' = [op EXCEPT ![t] = [call |-> "spawn", pc |-> "insert", pid |-> p,
                                      gen |-> gen'[p]]]
    /\ result' = [result EXCEPT ![t] = "none"]
    /\ UNCHANGED <<map, row, faults, restarts, strays>>

(* The pid is the primary key: a row of an earlier agent is in the way.  The
   Child is dropped then, which does not stop the process. *)
SpawnInsert(t) ==
    /\ At(t, "insert")
    /\ IF row[Pid(t)] = None
       THEN row' = [row EXCEPT ![Pid(t)] = "Running"] /\ Goto(t, "track")
       ELSE Return(t, "err") /\ UNCHANGED row
    /\ UNCHANGED <<os, map, faults, restarts>>

SpawnTrack(t) ==
    /\ At(t, "track")
    /\ map' = [map EXCEPT ![Pid(t)] = [state |-> "Running", gen |-> op[t].gen,
                                       reaped |-> FALSE]]
    /\ Return(t, "ok")
    /\ UNCHANGED <<os, row, faults, restarts>>

--------------------------------------------------------------------------------
(* stop *)

Stop(t, p) == Begin(t, "stop", "stopping", p)
MarkStopping(t) == At(t, "stopping") /\ UpdateMap(t, "Stopping", "stopping_row")
RecordStopping(t) == At(t, "stopping_row") /\ UpdateRow(t, "Stopping", "term")

SendTerm(t) ==
    /\ At(t, "term")
    /\ Signal(t, LAMBDA s : s, "poll")
    /\ UNCHANGED <<gen, map, row, faults, restarts>>

(* Mutant: that the child has been waited for is not remembered. *)
Reap_Forgets(p) ==
    /\ proc' = [proc EXCEPT ![p] = "none"]
    /\ UNCHANGED map

Reap(p) ==
    /\ map' = [map EXCEPT ![p].reaped = TRUE]
    /\ proc' = IF map[p].reaped THEN proc ELSE [proc EXCEPT ![p] = "none"]

(* try_wait, every 100 ms: the agent is no longer in the map, or it has exited
   and is waited for, now or earlier. *)
Poll(t) ==
    /\ At(t, "poll")
    /\ IF map[Pid(t)] = None THEN UNCHANGED <<map, proc>>
       ELSE (map[Pid(t)].reaped \/ proc[Pid(t)] = "zombie") /\ Reap(Pid(t))
    /\ Goto(t, "remove")
    /\ UNCHANGED <<gen, strays, row, faults, restarts>>

(* Mutant: the loop has no deadline. *)
Deadline_Never(t) == FALSE /\ UNCHANGED vars

(* Five seconds have passed. *)
Deadline(t) ==
    /\ At(t, "poll")
    /\ Goto(t, "kill")
    /\ UNCHANGED <<os, map, row, faults, restarts>>

(* child.id() is None once the child has been waited for. *)
GetChild(t) ==
    /\ At(t, "kill")
    /\ Goto(t, IF map[Pid(t)] = None \/ map[Pid(t)].reaped THEN "log" ELSE "sigkill")
    /\ UNCHANGED <<os, map, row, faults, restarts>>

(* Mutant: SIGTERM once more. *)
SendKill_Term(t) ==
    /\ At(t, "sigkill")
    /\ Goto(t, "log")
    /\ UNCHANGED <<os, map, row, faults, restarts>>

(* SIGKILL to the pid; an error is ignored. *)
SendKill(t) ==
    /\ At(t, "sigkill")
    /\ IF proc[Pid(t)] = "none" THEN Goto(t, "log") /\ UNCHANGED <<proc, strays>>
       ELSE Signal(t, LAMBDA s : "zombie", "log")
    /\ UNCHANGED <<gen, map, row, faults, restarts>>

(* INSERT INTO healing_events *)
LogForced(t) ==
    /\ At(t, "log")
    /\ Goto(t, "remove")
    /\ UNCHANGED <<os, map, row, faults, restarts>>

(* Mutant: the entry stays. *)
Remove_Not(t) ==
    /\ At(t, "remove") /\ Goto(t, "stopped_row")
    /\ UNCHANGED <<os, map, row, faults, restarts>>

(* The entry goes, and its Child with it. *)
Remove(t) ==
    /\ At(t, "remove")
    /\ map' = [map EXCEPT ![Pid(t)] = None]
    /\ Goto(t, "stopped_row")
    /\ UNCHANGED <<os, row, faults, restarts>>

(* Mutant: the row keeps "Stopping". *)
RecordStopped_Not(t) ==
    /\ At(t, "stopped_row") /\ Return(t, "ok")
    /\ UNCHANGED <<os, map, row, faults, restarts>>

RecordStopped(t) == At(t, "stopped_row") /\ UpdateRow(t, "Stopped", "return")

--------------------------------------------------------------------------------
(* pause, resume, and enforce_budget, which pauses an agent over its budget *)

Pause(t, p) == Begin(t, "pause", "sigstop", p)
EnforceBudget(t, p) == Begin(t, "budget", "sigstop", p)
Resume(t, p) == Begin(t, "resume", "sigcont", p)

SendStop(t) ==
    /\ At(t, "sigstop")
    /\ Signal(t, LAMBDA s : "suspended", "paused")
    /\ UNCHANGED <<gen, map, row, faults, restarts>>

SendCont(t) ==
    /\ At(t, "sigcont")
    /\ Signal(t, LAMBDA s : "running", "running")
    /\ UNCHANGED <<gen, map, row, faults, restarts>>

MarkPaused(t) == At(t, "paused") /\ UpdateMap(t, "Paused", "paused_row")
RecordPaused(t) == At(t, "paused_row") /\ UpdateRow(t, "Paused", "return")
MarkRunning(t) == At(t, "running") /\ UpdateMap(t, "Running", "running_row")
RecordRunning(t) == At(t, "running_row") /\ UpdateRow(t, "Running", "return")

(* Any of the statements may fail. *)
Fault(t) ==
    /\ op[t].pc \in {"insert", "stopping_row", "log", "stopped_row", "paused_row", "running_row"}
    /\ StatementFails(t)

--------------------------------------------------------------------------------
(* The environment *)

(* A process exits, because of SIGTERM or not.  Suspended ones cannot. *)
Exit(p) ==
    /\ proc[p] = "running"
    /\ proc' = [proc EXCEPT ![p] = "zombie"]
    /\ UNCHANGED <<gen, strays, map, row, op, result, faults, restarts>>

Held(p) == \/ map[p] # None /\ map[p].gen = gen[p]
           \/ \E t \in Threads : op[t].call = "spawn" /\ Pid(t) = p /\ op[t].gen = gen[p]

(* The runtime, or the parent, waits for a zombie whose Child is not held. *)
ReapOrphan(p) ==
    /\ proc[p] = "zombie" /\ ~Held(p)
    /\ proc' = [proc EXCEPT ![p] = "none"]
    /\ UNCHANGED <<gen, strays, map, row, op, result, faults, restarts>>

(* Some other program is started and gets a free pid. *)
OtherProcess(p) ==
    /\ proc[p] = "none" /\ gen[p] < MaxGen
    /\ proc' = [proc EXCEPT ![p] = "running"]
    /\ gen' = [gen EXCEPT ![p] = @ + 1]
    /\ UNCHANGED <<strays, map, row, op, result, faults, restarts>>

(* The process with the manager ends, and another one makes a new manager on
   the same database, as each command of the command line does. *)
Restart ==
    /\ restarts < MaxRestarts
    /\ restarts' = restarts + 1
    /\ map' = [p \in Pids |-> None]
    /\ op' = [t \in Threads |-> NoCall]
    /\ result' = [t \in Threads |-> "none"]
    /\ UNCHANGED <<os, row, faults>>

--------------------------------------------------------------------------------
SpawnStep(t) == SpawnInsert(t) \/ SpawnTrack(t)
StopStep(t) ==
    \/ MarkStopping(t) \/ RecordStopping(t) \/ SendTerm(t) \/ Poll(t) \/ Deadline(t)
    \/ GetChild(t) \/ SendKill(t) \/ LogForced(t) \/ Remove(t) \/ RecordStopped(t)
PauseStep(t) ==
    \/ SendStop(t) \/ MarkPaused(t) \/ RecordPaused(t)
    \/ SendCont(t) \/ MarkRunning(t) \/ RecordRunning(t)

Call(t) ==
    \/ Spawn(t)
    \/ \E p \in Pids : Stop(t, p) \/ Pause(t, p) \/ Resume(t, p) \/ EnforceBudget(t, p)

Step ==
    \/ \E t \in Threads : Call(t) \/ SpawnStep(t) \/ StopStep(t) \/ PauseStep(t) \/ Fault(t)
    \/ \E p \in Pids : Exit(p) \/ ReapOrphan(p) \/ OtherProcess(p)
    \/ Restart

StayCalm ==
    calm' = /\ calm /\ faults' = 0 /\ restarts' = 0
            /\ \A t, u \in Threads : t # u => At(t, "idle")' \/ At(u, "idle")'

Next == Step /\ StayCalm

Spec == Init /\ [][Next]_vars

(* A thread that is in a call keeps running. *)
FairSpec ==
    /\ Spec
    /\ \A t \in Threads :
          WF_vars((SpawnStep(t) \/ StopStep(t) \/ PauseStep(t)) /\ StayCalm)

--------------------------------------------------------------------------------
(* Properties *)

Alive(p) == proc[p] \in {"running", "suspended"}
Quiet == \A t \in Threads : At(t, "idle")

(* Every variable keeps its type; an entry holds the latest process of its pid
   until that one has been waited for, and has a row. *)
TypeOK ==
    /\ proc \in [Pids -> {"none", "running", "suspended", "zombie"}]
    /\ gen \in [Pids -> 0 .. MaxGen]
    /\ map \in [Pids -> Entry \cup {None}]
    /\ row \in [Pids -> States \cup {None}]
    /\ \A t \in Threads : At(t, "idle") <=> op[t] = NoCall
    /\ faults \in 0 .. MaxFaults /\ restarts \in 0 .. MaxRestarts
    /\ \A p \in Pids : map[p] # None =>
          /\ row[p] # None
          /\ ~map[p].reaped => map[p].gen = gen[p] /\ proc[p] # "none"

(* When a stop is about to report the agent as stopped, it no longer runs: not
   when it was suspended, not when two callers stop it at once, not when its
   pid has been given to another process. *)
StopKills ==
    \A t \in Threads : At(t, "stopped_row") =>
        ~(Alive(Pid(t)) /\ gen[Pid(t)] = op[t].gen)

(* As long as calls do not overlap and no statement fails, the map, the table
   and the process agree between calls. *)
Agreement ==
    calm /\ Quiet => \A p \in Pids :
        IF map[p] = None THEN row[p] \in {None, "Stopped"}
        ELSE /\ map[p].state = row[p]
             /\ map[p].state = "Running" => proc[p] # "suspended"
             /\ map[p].state = "Paused" => proc[p] # "running"

(* As long as calls do not overlap, a signal reaches the agent it is meant for
   and no process that got its pid afterwards. *)
SignalsOwn == calm => strays = {}

(* The three together: who is stopped, what is on record, and who is signalled. *)
AgentsInHand == StopKills /\ Agreement /\ SignalsOwn

(* Every call ends. *)
CallsEnd == \A t \in Threads : ~At(t, "idle") ~> At(t, "idle")
================================================================================
