-------------------------------- MODULE Commands --------------------------------
(***************************************************************************)
(* The `openhawk` command line (openhawk-cli/src/main.rs) and the opening  *)
(* of its database (openhawk-core/src/db.rs): every command is a process   *)
(* of its own, which opens the database, builds fresh engines over it,     *)
(* runs one operation and exits.                                           *)
(*                                                                         *)
(* What an operation does inside its engine is the subject of the engine's *)
(* own module: here it is one step on what outlives the process.           *)
(***************************************************************************)
EXTENDS Naturals, FiniteSets, Sequences

CONSTANTS
    Shells,       \* who types commands
    Pids,         \* pids the operating system hands out
    Names,        \* secrets, keys, packages, patterns, items, ids
    MaxCommands   \* bound: commands typed

VARIABLES
    dir,          \* the data directory exists: no command makes it
    schema,       \* the tables that exist
    versions,     \* rows of schema_version
    agents,       \* table agents: pid -> state, or "none"
    alive,        \* agent processes
    record,       \* what files and tables hold, by area
    shell,        \* the command each shell is running
    typed,        \* how much of MaxCommands is used up
    refused       \* history: opens that failed on a constraint

vars == <<dir, schema, versions, agents, alive, record, shell, typed, refused>>
database == <<dir, schema, versions, refused>>

Areas == {"vault", "config", "reports", "alerts", "packages", "patterns", "scaffold"}

(* The variants of HawkCommand; `undo_none` is `undo` without an id. *)
NeedsDatabase == {"run", "stop", "pause", "resume", "ps", "undo", "undo_none",
                  "diff", "verify", "cost", "report", "scan", "orchestrate",
                  "replay", "search", "install", "publish", "history", "accept",
                  "reset"}

(* The tables, made in one batch. *)
SCHEMA ==
    {"schema_version", "agents", "sessions", "session_actions", "snapshots",
     "snapshot_files", "token_usage", "verification_reports", "healing_events",
     "patterns", "installed_packages", "sync_peers", "sync_queue", "bus_queue",
     "watch_alerts"}

(* What each takes; Type draws from these. *)
Line ==
    ({"stop", "pause", "resume"} \X Pids) \cup
    ({"vault_set", "vault_get", "vault_rm", "config_set", "scan", "sdk_init",
      "install", "publish", "verify", "accept"} \X Names) \cup
    ({"run", "ps", "undo", "undo_none", "diff", "config_show", "inspect", "tokens",
      "cost", "report", "orchestrate", "replay", "search", "sync",
      "unknown_strategy", "trust", "history", "reset", "talon", "eye", "setup"} \X {"none"})

Prompt == [pc |-> "idle", kind |-> "none", arg |-> "none", ok |-> TRUE]

Init ==
    /\ dir \in BOOLEAN /\ schema = {} /\ versions = 0
    /\ agents = [p \in Pids |-> "none"] /\ alive = {}
    /\ record = [a \in Areas |-> {}]
    /\ shell = [c \in Shells |-> Prompt]
    /\ typed = 0 /\ refused = 0

At(c, pc) == shell[c].pc = pc
Goto(c, pc) == shell' = [shell EXCEPT ![c].pc = pc]
Exit(c, ok) == shell' = [shell EXCEPT ![c] = [Prompt EXCEPT !.ok = ok]]

(* The command line is parsed; a command without a database goes to its body. *)
Type(c, kind, arg) ==
    /\ At(c, "idle") /\ typed < MaxCommands
    /\ typed' = typed + 1
    /\ shell' = [shell EXCEPT ![c] =
           [pc |-> IF kind \in NeedsDatabase THEN "open" ELSE "body",
            kind |-> kind, arg |-> arg, ok |-> TRUE]]
    /\ UNCHANGED <<database, agents, alive, record>>

--------------------------------------------------------------------------------
(* init_database: the file, the schema, and migrate, whose SELECT and INSERT are
   not one transaction. *)

init_database(c) ==
    /\ At(c, "open")
    /\ IF dir THEN Goto(c, "select") /\ schema' = schema \cup SCHEMA
              ELSE Exit(c, FALSE) /\ UNCHANGED schema
    /\ UNCHANGED <<dir, versions, refused, agents, alive, record, typed>>

(* Mutant: the version is not looked at. *)
SelectVersion_Skipped(c) ==
    /\ At(c, "select")
    /\ Goto(c, "insert")
    /\ UNCHANGED <<database, agents, alive, record, typed>>

SelectVersion(c) ==
    /\ At(c, "select")
    /\ Goto(c, IF versions < 1 THEN "insert" ELSE "body")
    /\ UNCHANGED <<database, agents, alive, record, typed>>

(* PRIMARY KEY: the second of two openers that both saw no version fails. *)
InsertVersion(c) ==
    /\ At(c, "insert")
    /\ IF versions = 0
       THEN versions' = 1 /\ Goto(c, "body") /\ UNCHANGED refused
       ELSE refused' = refused + 1 /\ Exit(c, FALSE) /\ UNCHANGED versions
    /\ UNCHANGED <<dir, schema, agents, alive, record, typed>>

--------------------------------------------------------------------------------
(* The bodies.  Those that change nothing share Read, when they succeed, and
   Fail. *)

In(c, kinds) == At(c, "body") /\ shell[c].kind \in kinds
Same == UNCHANGED <<database, agents, alive, record, typed>>
Read(c, kinds) == In(c, kinds) /\ Exit(c, TRUE) /\ Same
Fail(c, kinds) == In(c, kinds) /\ Exit(c, FALSE) /\ Same

(* The argument put into or taken out of an area. *)
Put(c, area) == record' = [record EXCEPT ![area] = @ \cup {shell[c].arg}]
Take(c, area) == record' = [record EXCEPT ![area] = @ \ {shell[c].arg}]
Known(c, area) == shell[c].arg \in record[area]
Others == UNCHANGED <<database, agents, alive, typed>>

(* AgentManager::new: an empty map, for this process alone. *)
Managed(c) == {}

(* spawn, in that manager: the process, then its row, whose INSERT fails on the
   row an earlier agent of that pid has left. *)
Run(c) ==
    /\ In(c, {"run"})
    /\ \/ \E pid \in Pids \ alive :
             /\ alive' = alive \cup {pid}
             /\ IF agents[pid] = "none"
                THEN agents' = [agents EXCEPT ![pid] = "Running"] /\ Exit(c, TRUE)
                ELSE Exit(c, FALSE) /\ UNCHANGED agents
       \/ Exit(c, FALSE) /\ UNCHANGED <<agents, alive>>
    /\ UNCHANGED <<database, record, typed>>

Stop(c) ==
    /\ In(c, {"stop"})
    /\ IF shell[c].arg \in Managed(c)
       THEN /\ agents' = [agents EXCEPT ![shell[c].arg] = "Stopped"]
            /\ alive' = alive \ {shell[c].arg} /\ Exit(c, TRUE)
       ELSE Exit(c, FALSE) /\ UNCHANGED <<agents, alive>>
    /\ UNCHANGED <<database, record, typed>>

Pause(c) ==
    /\ In(c, {"pause"})
    /\ IF shell[c].arg \in Managed(c)
       THEN agents' = [agents EXCEPT ![shell[c].arg] = "Paused"] /\ Exit(c, TRUE)
       ELSE Exit(c, FALSE) /\ UNCHANGED agents
    /\ UNCHANGED <<database, alive, record, typed>>

Resume(c) ==
    /\ In(c, {"resume"})
    /\ IF shell[c].arg \in Managed(c)
       THEN agents' = [agents EXCEPT ![shell[c].arg] = "Running"] /\ Exit(c, TRUE)
       ELSE Exit(c, FALSE) /\ UNCHANGED agents
    /\ UNCHANGED <<database, alive, record, typed>>

(* It prints what is in Managed. *)
Ps(c) == Read(c, {"ps"})

(* No snapshot is ever taken from the command line: one named here is not
   found, and `undo` alone asks for one. *)
Undo(c) == \/ Fail(c, {"undo"})
           \/ Fail(c, {"undo_none"})
Diff(c) == Fail(c, {"diff"})

VaultBody(c) ==
    \/ In(c, {"vault_set"}) /\ Put(c, "vault") /\ Exit(c, TRUE) /\ Others
    \/ In(c, {"vault_get"}) /\ Known(c, "vault") /\ Exit(c, TRUE) /\ Same
    \/ In(c, {"vault_get", "vault_rm"}) /\ ~Known(c, "vault") /\ Exit(c, FALSE) /\ Same
    \/ /\ In(c, {"vault_rm"}) /\ Known(c, "vault")
       /\ Take(c, "vault") /\ Exit(c, TRUE) /\ Others

ConfigBody(c) ==
    \/ In(c, {"config_set"}) /\ Put(c, "config") /\ Exit(c, TRUE) /\ Others
    \/ Read(c, {"config_show"})

(* A new bus: nothing on it. *)
Inspect(c) == Read(c, {"inspect"})

(* A report is stored unless the session has no claims. *)
Verify(c) ==
    \/ In(c, {"verify"}) /\ Put(c, "reports") /\ Exit(c, TRUE) /\ Others
    \/ Read(c, {"verify"})

Stats(c) == Read(c, {"tokens", "cost"})

Watch(c) ==
    \/ Read(c, {"report"})
    \/ In(c, {"scan"}) /\ Put(c, "alerts") /\ Exit(c, TRUE) /\ Others
    \/ Read(c, {"scan"})

(* The files of a scaffold, or exit(1) for an unknown language. *)
Sdk(c) ==
    \/ In(c, {"sdk_init"}) /\ Put(c, "scaffold") /\ Exit(c, TRUE) /\ Others
    \/ Fail(c, {"sdk_init"})

(* The agents whose rows say Running, alive or not, are registered without
   capabilities with an orchestrator on a bus of its own. *)
Orchestrate(c) == Read(c, {"orchestrate"}) \/ Fail(c, {"orchestrate"})

Replay(c) == Read(c, {"replay"})

(* install looks the name up first; publish validates, or exit(1). *)
NestBody(c) ==
    \/ Read(c, {"search"})
    \/ In(c, {"install", "publish"}) /\ Put(c, "packages") /\ Exit(c, TRUE) /\ Others
    \/ Fail(c, {"install", "publish"})

(* A SyncEngine for this process alone: it forgets the secret, the selection and
   the strategy as soon as it has set them. *)
SyncBody(c) ==
    \/ Read(c, {"sync"})
    \/ Fail(c, {"unknown_strategy"})

Trust(c) == Read(c, {"trust"})

(* A long error is cut at a byte: inside a character, the command panics. *)
Healing(c) == Read(c, {"history"}) \/ Fail(c, {"history"})

PatternsBody(c) ==
    \/ In(c, {"accept"}) /\ Put(c, "patterns") /\ Exit(c, TRUE) /\ Others
    \/ Fail(c, {"accept"})
    \/ Read(c, {"reset"})

(* A TalonRegistry for this process alone. *)
Talon(c) == Read(c, {"talon"})

(* Each has a module of its own: the terminal may fail, the tools are installed. *)
Eye(c) == Read(c, {"eye"}) \/ Fail(c, {"eye"})
Setup(c) == Read(c, {"setup"})

(* The agent exits; its row stays as it is. *)
AgentExits(pid) ==
    /\ pid \in alive
    /\ alive' = alive \ {pid}
    /\ UNCHANGED <<database, agents, record, shell, typed>>

Body(c) ==
    \/ Run(c) \/ Stop(c) \/ Pause(c) \/ Resume(c) \/ Ps(c) \/ Undo(c) \/ Diff(c)
    \/ VaultBody(c) \/ ConfigBody(c) \/ Inspect(c) \/ Verify(c) \/ Stats(c) \/ Watch(c)
    \/ Sdk(c) \/ Orchestrate(c) \/ Replay(c) \/ NestBody(c) \/ SyncBody(c)
    \/ Trust(c) \/ Healing(c) \/ PatternsBody(c) \/ Talon(c) \/ Eye(c) \/ Setup(c)

Next ==
    \/ \E c \in Shells :
          \/ \E line \in Line : Type(c, line[1], line[2])
          \/ init_database(c) \/ SelectVersion(c) \/ InsertVersion(c) \/ Body(c)
    \/ \E pid \in Pids : AgentExits(pid)

Spec == Init /\ [][Next]_vars

--------------------------------------------------------------------------------
(* Properties *)

(* Opening is safe for any number of shells on a machine that has never run a
   command: a body that needs the database has its tables and its one version
   row, and the race of the first openers costs each shell but one at most one
   command, never a later one. *)
DatabaseReady ==
    /\ \A c \in Shells : In(c, NeedsDatabase) => schema = SCHEMA /\ versions = 1
    /\ versions <= 1
    /\ refused < Cardinality(Shells)

(* README.md: `openhawk stop <pid>` is the lifecycle control of an agent that
   `openhawk run` has started: while the agent is alive and its row says
   Running, a stop does not exit leaving it so.  (Typed in the shell that ran the
   agent, and so after it.) *)
StopReaches ==
    [][\A c \in Shells :
          LET pid == shell[c].arg
          IN  In(c, {"stop"}) /\ pid \in alive /\ agents[pid] = "Running"
                  /\ shell'[c].pc = "idle"
                  => agents'[pid] # "Running"]_vars
================================================================================
