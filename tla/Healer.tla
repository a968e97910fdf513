-------------------------------- MODULE Healer --------------------------------
(***************************************************************************)
(* SelfHealer of openhawk-core beside the snapshot engine: attempt_healing *)
(* restores the newest snapshot of the failed agent file by file, without  *)
(* pruning, over the same table, directories and working directory, and    *)
(* logs one event.                                                         *)
(***************************************************************************)
EXTENDS Savepoint, Filters, Functions

CONSTANT MaxHeals    \* bound: calls of attempt_healing

VARIABLES
    heal,            \* the call of attempt_healing in progress
    healing_events,  \* the table
    outcome,         \* what the last call returned
    before           \* history: `work` when the call listed the snapshot

healerVars == <<heal, healing_events, outcome, before>>
allVars == <<vars, healerVars>>

(* The locals of the call; `calm`: nobody else moved `work` since the listing;
   `missed`: files whose copy failed. *)
NoHeal == [pc |-> "idle", agent |-> None, attempt |-> 0, snap |-> None,
           paths |-> {}, todo |-> {}, restored |-> 0, calm |-> FALSE, missed |-> {}]

HealerInit ==
    /\ Init
    /\ heal = NoHeal
    /\ healing_events = <<>>
    /\ outcome = "none"
    /\ before = Nothing

HealAt(pc) == heal.pc = pc

(* The loop: a simulated failure uses up every attempt, and max_retries = 0
   makes none; otherwise the first attempt decides. *)
attempt_healing(a, max_retries, always_fail) ==
    /\ HealAt("idle")
    /\ Len(healing_events) < MaxHeals
    /\ IF always_fail \/ max_retries = 0
       THEN heal' = [NoHeal EXCEPT !.pc = "failure", !.agent = a, !.attempt = max_retries]
       ELSE heal' = [NoHeal EXCEPT !.pc = "select", !.agent = a, !.attempt = 1]
    /\ outcome' = "none"
    /\ UNCHANGED <<vars, healing_events, before>>

(* SELECT ... ORDER BY timestamp DESC LIMIT 1 *)
SelectSnapshot ==
    /\ HealAt("select")
    /\ IF RowsOf(heal.agent) = {}
       THEN heal' = [heal EXCEPT !.pc = "success"]
       ELSE \E s \in Latest(heal.agent) :
                heal' = [heal EXCEPT !.pc = "paths", !.snap = s]
    /\ UNCHANGED <<vars, healing_events, outcome, before>>

(* It fails, which counts as no snapshot; or preparing or running the second query
   does: Some("rollback_failed:..."). *)
QueryFails ==
    /\ heal.pc \in {"select", "paths"}
    /\ faults < MaxFaults
    /\ heal' = [heal EXCEPT !.pc = "success"]
    /\ faults' = faults + 1
    /\ UNCHANGED <<work, hidden, disk, clock, op, result, writes, history,
                   healing_events, outcome, before>>

(* The paths; a row that cannot be read is passed over. *)
ListPaths ==
    /\ HealAt("paths")
    /\ \E listed \in SUBSET Present(manifest[heal.snap]) :
          /\ faults' = IF listed = Present(manifest[heal.snap]) THEN faults ELSE faults + 1
          /\ heal' = [heal EXCEPT !.pc = "copy", !.paths = listed, !.todo = listed, !.calm = TRUE]
    /\ faults' <= MaxFaults
    /\ before' = work
    /\ UNCHANGED <<work, hidden, disk, clock, op, result, writes, history,
                   healing_events, outcome>>

(* Mutant: the loop of `rollback`, which clears the way first. *)
CopyBack_Prunes(f) ==
    /\ HealAt("copy") /\ f \in heal.todo
    /\ store[heal.snap][f] # None
    /\ work' = [g \in Files |-> IF g = f THEN store[heal.snap][f]
                                ELSE IF g \in heal.paths THEN work[g] ELSE None]
    /\ quiet' = {}
    /\ heal' = [heal EXCEPT !.todo = @ \ {f}, !.restored = @ + 1]
    /\ UNCHANGED <<hidden, disk, clock, op, result, writes, faults, truth,
                   healing_events, outcome, before>>

CopyBack(f) ==
    /\ HealAt("copy") /\ f \in heal.todo
    /\ store[heal.snap][f] # None
    /\ work' = [work EXCEPT ![f] = store[heal.snap][f]]
    /\ quiet' = {}
    /\ heal' = [heal EXCEPT !.todo = @ \ {f}, !.restored = @ + 1]
    /\ UNCHANGED <<hidden, disk, clock, op, result, writes, faults, truth,
                   healing_events, outcome, before>>

(* fs::copy fails, as it does without a copy of that name: the file is passed over. *)
CopyFails(f) ==
    /\ HealAt("copy") /\ f \in heal.todo
    /\ heal' = [heal EXCEPT !.todo = @ \ {f}, !.missed = @ \cup {f}]
    /\ IF store[heal.snap][f] = None \/ f \in hidden THEN UNCHANGED faults
       ELSE faults < MaxFaults /\ faults' = faults + 1
    /\ UNCHANGED <<work, hidden, disk, clock, op, result, writes, history,
                   healing_events, outcome, before>>

CopiesDone ==
    /\ HealAt("copy") /\ heal.todo = {}
    /\ heal' = [heal EXCEPT !.pc = "success"]
    /\ UNCHANGED <<vars, healing_events, outcome, before>>

(* log_event, and the answer the caller gets. *)
log_event ==
    /\ heal.pc \in {"success", "failure"}
    /\ healing_events' = Append(healing_events,
           [agent |-> heal.agent, outcome |-> heal.pc, attempt |-> heal.attempt,
            snap |-> heal.snap, restored |-> heal.restored])
    /\ outcome' = IF heal.pc = "success" THEN "recovered" ELSE "escalated"
    /\ heal' = NoHeal
    /\ before' = Nothing
    /\ UNCHANGED vars

(* The INSERT fails: Err, with the files restored all the same. *)
LogFails ==
    /\ heal.pc \in {"success", "failure"}
    /\ faults < MaxFaults
    /\ outcome' = "err"
    /\ heal' = NoHeal
    /\ before' = Nothing
    /\ faults' = faults + 1
    /\ UNCHANGED <<work, hidden, disk, clock, op, result, writes, history, healing_events>>

get_history(a) == Only(healing_events, {e \in Range(healing_events) : e.agent = a})

HealStep ==
    \/ SelectSnapshot \/ ListPaths \/ CopiesDone \/ QueryFails \/ log_event \/ LogFails
    \/ \E f \in Files : CopyBack(f) \/ CopyFails(f)

EngineStep ==
    /\ Next
    /\ heal' = [heal EXCEPT !.calm = @ /\ work' = work]
    /\ UNCHANGED <<healing_events, outcome, before>>

HealerNext ==
    \/ \E a \in Agents, n \in {0, 3}, simulated \in BOOLEAN :
          attempt_healing(a, n, simulated)
    \/ HealStep
    \/ EngineStep

HealerSpec == HealerInit /\ [][HealerNext]_allVars

--------------------------------------------------------------------------------
(* Properties *)

(* Healing from a snapshot that was taken undisturbed, listed whole, and copied
   while nobody else moves the working directory brings back every file but
   those whose copy failed, counts exactly those it brought back, and leaves
   the files the agent added alone (attempt_healing never prunes). *)
HealRestores ==
    LET image == truth[heal.snap]
    IN  (/\ HealAt("copy") /\ heal.todo = {} /\ heal.calm
         /\ image # None /\ heal.paths = LossyNames(Present(image)))
           => /\ \A f \in heal.paths \ heal.missed : work[f] = image[f]
              /\ \A f \in (Files \ heal.paths) \cup heal.missed : work[f] = before[f]
              /\ heal.restored = Cardinality(heal.paths \ heal.missed)

(* What `hawk healing` reads back: a healing that names a snapshot of the agent,
   one still being created included, never claims more files than its row. *)
HealCounted ==
    \A a \in Agents : \A i \in DOMAIN get_history(a) :
        LET e == get_history(a)[i]
        IN  e.snap # None => /\ rows[e.snap] # None /\ rows[e.snap].agent = a
                             /\ e.restored <= rows[e.snap].file_count
================================================================================
