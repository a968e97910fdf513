# OpenHawk in TLA+

OpenHawk is a command line and a set of Rust crates that start agent processes,
watch and control them, snapshot and roll back the directories they work in,
carry messages between them, and split tasks among them, on one SQLite database.
These modules model the parts of it that have state worth arguing about; TLC
checks them on small instances and TLAPS proves the main invariants for every
instance.

To run one of the checks: `tlc -config savepoint_concurrent.cfg MCSavepoint.tla`.
To check the proofs: `tlapm SavepointProofs.tla`, and likewise every other module whose
name ends in `Proofs`.

## Inventory

| Component | State | Operations | What makes it correct | Module |
|---|---|---|---|---|
| Snapshot engine `openhawk-savepoint` | snapshot directories, tables `snapshots` and `snapshot_files` | `create_snapshot`, `rollback`, `rollback_latest`, `diff` | what is reported as a snapshot has all that its walk could list and can be restored, and a rollback restores it and nothing else, while agents write and other processes use the engine | `Savepoint` |
| Self-healer `self_healer.rs` | table `healing_events` | `attempt_healing`, with a rollback of its own | a healing brings back what it says it brought back, and leaves the rest alone | `Healer` |
| Message bus `openhawk-bus` | subscriptions, direct channels, the channels themselves, queues for offline agents | `publish`, `send_direct`, `subscribe`, `unsubscribe`, `queue_for_offline`, `deliver_queued`, `expire_old_messages` | messages of one sender arrive in order, once, at every subscriber; nothing is lost while it is retained; senders get through | `MessageBus` |
| Orchestrator `orchestrator.rs` | registered agents, the plan it executes, one reply channel per dispatch | `orchestrate`, `topological_sort`, `execute_plan` | dependency order, each subtask tried at most twice, the report matches what happened, the plan ends | `Orchestrator`, `OrchestratorPlan` |
| Agent manager `agent_manager.rs` | map of children and their states, table `agents` | `spawn`, `stop`, `pause`, `resume`, `enforce_budget` | a stopped agent no longer runs, signals hit the agent they are meant for, map, table and process agree, calls end | `AgentManager` |
| Vault `openhawk-vault` | one encrypted file, one key in the system's keychain | `authenticate`, `set`, `get`, `delete`, `list_keys` | what was set is got back, under the same passphrase; a call changes one key, and undoes at most what other processes have written since it read the file | `Vault` |
| Session recorder `session_recorder.rs` | table `session_actions` | `record_action`, `get_log`, `cleanup_old_sessions` | step numbers unique, dense and in the order of time; only old actions go | `SessionLog` |
| Permission guard `permission_guard.rs`, watch `openhawk-watch` | manifests, trusted numbers; table `watch_alerts`, which both write | `check_*`, `trust`; scans, `get_alerts`, `generate_report` | nobody is allowed more than the manifest without trust; the report is what the scans returned | `Guard` |
| Resource monitor `resource_monitor.rs`, token tracker `token_tracker.rs` | limits by process number; table `token_usage` | `register`, the background task; `record`, `check_budget` | whoever is suspended, or called over budget, has used too much; hogs get suspended; limits whose bytes do not fit into 64 bits do no more harm than they must | `Resources` |
| Configuration `config.rs`, `config_engine.rs`, `daemon.rs` | two TOML files, the configuration a daemon took | `load`, `get_effective`, `set`, `initialize` | what `set` writes `load` reads | `Settings` |
| LLM router, air gap `llm_router.rs`, `air_gap.rs` | provider order, queued requests | `route_request`, `check_*`, `filter_*` | the best provider that may answer does; no remote one in air-gap mode | `Router` |
| Manifest parser `manifest.rs` | none | `parse`, `validate`, `to_toml` | what is written parses to the same | `Manifest` |
| Memory `openhawk-memory` | tables of entries and archives, Aura | `store`, `query`, `archive_session` over MCP, A2A or Aura, base64 | nearest scope first, nothing lost, archives complete, Aura and the fallback say the same up to what Aura does to a text | `MemoryStore`, `Memory`, `AuraMemory`, `Codec` |
| Pattern detector `pattern_detector.rs` | log of a process, table `patterns` | `detect_patterns`, accept, decline, reset, clean-up | the user's decision stays, counts are true | `Patterns` |
| Talon loader `talon.rs` | records and instances of plugins, under two locks | `install`, `load`, `unload` | a status is true of its instance | `Talons` |
| Nest registry `openhawk-nest` | tables of packages and of the index | `install`, `search`, `publish` | one install per name, searches find, no version is published but the manifest's | `Nest` |
| Compression `openhawk-compress` | cache, statistics | `compress`, `invalidate_cache` | answers fit the threshold asked for, totals add up | `Compress` |
| Sync `openhawk-sync` | key, selection, queue, conflict log of a device | `enable`, `queue_change`, `flush_queue`, `resolve_conflict` | devices agree, a change is kept until sent, losses are on record | `Sync` |
| Verifier `openhawk-verify` | table `verification_reports` | `verify_session`, `verify_with_claimcheck` | nobody is blamed for another's resource, a status is no better than its checks | `Audit` |
| Dashboard `openhawk-ui` | lists, selection, view | the keys | what is undone is what is set off on the screen | `Dashboard` |
| Rust SDK `openhawk-sdk-rust` | a bus, a store, handlers under a mutex | `publish`, `subscribe`, `register_handler`, `dispatch` | each publisher's messages in order, one handler per method, one at a time, none after a panic, calls return | `Client` |
| Command line `main.rs`, schema `db.rs` | what outlives a process: database, files, agents | every command | no command runs without its tables; a command reaches what another started | `Commands` |
| Setup `setup.rs` | the marker, installed tools, a build directory | `maybe_first_run`, `run_setup` | what is reported as installed is there | `Setup` |
| Platform glue, types, errors | none | | | not modelled |

How they interact. The command line and the dashboard call the engines in
their own processes, so that two of them may run the same engine on the same
database and directories at once; agents are processes of their own, which
nothing stops while a snapshot is taken or restored. The orchestrator is a
client of the bus: it subscribes to a reply topic, sends `task.run` directly to
the agent and waits. The agent manager writes the table `agents` that snapshots
refer to by foreign key. The self-healer reads the snapshots the engine wrote.
The vault, the configuration and the session log are files and a table that several
processes change by reading, computing and writing back. The self-healer copies from
the directories of the snapshot engine. The guard and the watch engine write one table
of alerts. The verifier reads the log that the recorder writes. Every command is a
process that builds its engines anew over the database and forgets them at its end.

What is hard in it:

* sequences of file-system calls and SQL statements without a transaction: a
  crash or an error in between leaves what was done so far;
* file trees that agents change while they are walked, hashed and copied, with
  directories that cannot be listed and names that are not UTF-8;
* errors that are taken for an absence (`.ok()`, `unwrap_or`), and a walk, a look-up or
  a command that then goes on;
* products and sums of a fixed width, and outputs of other programs that need not agree
  with themselves;
* channel senders cloned under a mutex and used after it is released, on
  channels that may be full or closed by then;
* replies that come after the wait for them has timed out;
* pids read under a lock and signalled after it, when the process may have been
  waited for and its pid given away;
* state kept both in memory and in the database by processes that come and go;
* a file, or the greatest number in a table, read by two processes before either
  writes;
* caches, lists and trust that are kept by a key (a text, an index, a process number)
  which says less than the code takes it to say;
* calls into foreign code (plugins, handlers, scanners, installers) with a lock held, or
  half way through a change.

## Modules

| Module | What it is |
|---|---|
| `SnapshotCatalog` | abstract: a write-once catalogue of snapshots |
| `Savepoint` | the snapshot engine, one step per file-system call or SQL statement |
| `SavepointProofs` | theorems about `Savepoint` and `Healer`, with proofs |
| `MessageBus` | the bus, one step per critical section and per channel send |
| `BusHistory` | `MessageBus` with a record of what was sent and received |
| `BusProofs` | theorems about both, with proofs |
| `Planning` | the pure functions of the orchestrator: choice of an agent, Kahn's algorithm, and what they are for |
| `OrchestratorPlan` | `orchestrate`: how a task becomes a plan, on top of `Planning` |
| `Orchestrator` | `execute_plan`, with agents, on top of `Planning` and an instance of `MessageBus` |
| `OrchestratorProofs` | theorems about `Planning`, `OrchestratorPlan` and `Orchestrator`, with proofs |
| `AgentManager` | the agent manager, the processes it manages and the pids they have |
| `AgentManagerProofs` | theorems about `AgentManager`, with proofs |
| `SecretStore` | abstract: a store that each call reads, changes in one place and replaces |
| `Vault` | the vault file and the keychain, with processes that die |
| `VaultProofs` | theorems about `Vault`, with proofs |
| `SessionLog` | the table `session_actions`, one step per statement of `record_action` |
| `SessionLogProofs` | theorems about `SessionLog`, with proofs |
| `Guard` | the permission guard and the watch engine, on one table of alerts |
| `Resources` | the resource monitor and the token tracker |
| `Settings` | the layered configuration and the daemon that starts from it |
| `Router` | the LLM router and the air gap |
| `MemoryStore` | the in-memory store, as operators |
| `Memory` | that store behind MCP and A2A |
| `AuraMemory` | the store backed by Aura, with its fallback |
| `Codec`, `Manifest` | pure functions: base64; reading and writing a manifest |
| `Nest`, `Talons`, `Patterns`, `Compress`, `Sync`, `Audit`, `Setup` | the component of that name in the inventory |
| `Healer` | the self-healer, on the variables and beside the actions of `Savepoint` |
| `Dashboard` | the dashboard's loop, keys and what its views show |
| `Client` | the Rust SDK's client with its threads, on top of `MemoryStore` |
| `Commands` | the command line and the opening of the database |
| `Services` | nineteen components and pure functions that keep to themselves, side by side, and their properties |
| `ServicesProofs` | theorems about `Services`, with proofs |
| `MCServices` | values for `Services`, and the two remaining parts of the run: bus and plan |
| `MC...` | other instances for TLC: symmetry sets, plans, registries |
| `Filters` | the elements of a sequence that are in a set, sequences joined, a sequence cut into pieces, and a sequence sorted, as functions |
| `SequenceLemmas` | what these functions return, and other facts about sequences, with proofs |

In every module, a definition whose comment begins with "Mutant:" is the
definition after it with a plausible bug; the properties below find each of them.

### Savepoint

`work` is the working directory; `dirs` and `store` are the snapshot
directories and what is in them; `rows` and `manifest` are the tables
`snapshots` and `snapshot_files`. A file's contents stand for its bytes and for
their SHA-256. `op[p]` holds the local variables of the engine call that process
`p` is in: which loop it is in (`pc`), what that loop has still to visit
(`todo`), the file in its hands (`cur`), the hashes computed so far, and the
keys of the manifest it loaded (`keep`).

Both walks end in `.filter_map(|e| e.ok())`: what lies in a directory that cannot be
listed is passed over. `hidden` are those files, `Hide` is somebody who changes the
permissions, and `Listed` is what a walk comes across now. A rollback may still write a
file there (the directory may be writable) or fail to. And both tables know a file by
`to_string_lossy` of its path, the constant `Lossy`: two paths may have one name, whose second
row the primary key refuses, and a name need not be the path of any file, so that a
rollback finds no copy of it. `SnapshotFaithful` says what a snapshot then is: what its
walk could list. That it may lack files and be reported as taken nevertheless is a
property of the code that no comment denies.

`create_snapshot` is `CreateBegin`, then `HashFile` and `CopyFile` for every
entry of the walk, `InsertRow`, `InsertFile` for every entry, and `CreateReturn`.
`rollback` is `Rollback` or `RollbackLatest` (which look up the row),
`LoadManifest`, `RestoreFile` for every entry, `PruneBegin`, `PruneFile` for every
file that is not in the manifest, and `RollbackReturn`. `HashMissing`,
`CopyMissing` and `PruneMissing` are the same calls when the file is gone by then.
`AgentWrite` is an agent at work. `Fault` is any of the `?` returning early, or
the death of the process: nothing is undone in either case. `quiet` and `truth`
are history variables, to say what a snapshot ought to hold: `truth[s]` is the
working directory at the time `s` was returned, if nobody but its creator
touched the directory meanwhile.

Abstractions: one `fs::copy` is one step (a partly copied file is not modelled);
directories are flat, and there is one working directory, whose own path is UTF-8 (the
row of a snapshot has it through `to_string_lossy` as well); the copy strategies give the
same contents; timestamps of one process strictly increase and are taken in the order of
the `CreateBegin` steps.

### MessageBus, BusHistory

`subscriptions`, `direct` and `queue` are the fields of `BusState`. `buffer` and
`receiver` are the tokio channels: up to `Capacity` messages, and whether the
receiving half is still there. `publish` and `send_direct` are `Publish` or
`SendDirect`, which clone the senders under the mutex, followed by one `SendNext`
for each of them, which waits while the channel is full. `Receive` and `Drop` are
the agents. Messages are model values that passed `validate`; one that does not
pass changes nothing. `inspect` only reads and is left out.

`BusHistory` has the same steps and records, next to them, what each task has sent
and to which channels it was addressed, what each channel's receiver has taken, and
what was queued and delivered. It hands every message out once, so that order and
duplicates can be seen.

### Planning, OrchestratorPlan, Orchestrator

A subtask is a number; what it requires is a set of capabilities. How words are
split and how capabilities are inferred from them is left out: `OrchestratorPlan`
takes the number of subtasks of each `then` part, and builds the dependencies with
the loop of the code, the start of the previous part included, which the code
derives from the last dependency pushed (`PreviousStart`). `AddDependency` is a
caller that changes the plan, whose fields are public. `Kahn` is a recursive
function over the states of the loop (`order`, `degree`, `queue`).

`Orchestrator` has one step per await of `dispatch_subtask`: `SubscribeReply`,
`SendTask` (or `NoSubscriber`, which simulates the task), `TaskSent`, then
`TakeReply` or `TimedOut`, and `Return`, which drops the receiver. `AfterDispatch`
is what `execute_plan` does with the outcome: finish, or retry with the best of the
other agents. Agents (`Connect`, `Accept`, `Answer`, `AnswerSent`, `Ignore`,
`Leave`) are external, and do whatever the bus lets them. `log` is a history of the
dispatches. The branch of the code for a reply channel that was closed is left out:
the bus keeps the sender, so that it cannot be. The id of a dispatch is any of `Ids`,
whether it was used before or not: it is the sub-second part of the clock, and nothing
looks whether it is new. `RepliesMatch` says what that can do: a dispatch believes an
answer that was given under its id, to itself or to an earlier dispatch with the same one.

### AgentManager

`proc` and `gen` are the system's processes: what runs under a pid, and how many
processes have had the pid so far. `map` is the map of the manager, with the state
of an entry and whether its child has been waited for; `row` is the table. A call
is in `op[t]`; one step is one critical section, one SQL statement or one system
call, so that other calls, exits and reuse of pids come in between. `stop` is
`Stop`, `MarkStopping`, `RecordStopping`, `SendTerm`, `Poll` until the deadline,
`GetChild`, `SendKill`, `LogForced`, `Remove` and `RecordStopped`; `pause`, `resume`
and `enforce_budget` send their signal and update the state, in the map and then in
the table. `Exit`, `ReapOrphan`, `OtherProcess` and `Restart` are the environment.
`strays` records signals that hit another process than the one meant; `calm` says
that so far no two calls have overlapped, and nothing failed or was restarted.

### Vault, SecretStore

`file` is what was last written to the vault file, `torn` says that what is there
now does not parse; `fs::write` is the two steps `Truncate` and `Write`. Keys are
records of the passphrase and salt they are derived from, or random ones from the
keychain; an entry holds the key it was sealed with and opens with that one only
(cryptography is taken as perfect, and random values never repeat). `Authenticate`,
`Set` and `Delete` read the file, compute what it should be and go on to `Truncate`
and `Write`; `Get` only reads. `DrawKey` and `StoreKey` are the path without a
usable key in the keychain, which the code also takes when reading it fails. Every process
of `Procs` may do all of it, at any time: there is no lock between commands. The history `lost`
are the salts that were overwritten by a call which had read the file before.

`SecretStore` says what that amounts to. A call reads the store, changes one key or sets the
first salt in what it has read, and puts that in the place of what is there. One that meets no
other changes one thing; one that overlaps others takes back what they wrote since it read,
and nothing more; a store that a call has cleared, or two have written at once, may be
unreadable.

### SessionLog

`rows` is the table `session_actions`. `record_action` is `Select` (the greatest
number of the session, plus one), `Stamp` (the time) and `Insert`, in which the
uniqueness constraint rejects a number that is taken by now. `Fail` is a statement
that fails or a process that dies. `Cleanup` deletes the actions that are older
than a period. The clock (`now`) is taken never to go back, and payloads are left
out. `raced` is a history variable: a clean-up has run while somebody was recording.

### The services

`Services` puts the parts side by side: a behaviour picks a `part` at the start
and takes the steps of that part only. TLA+ modules that are instantiated need
variables to stand for theirs; the parts share `s1`, ..., `s17`, in the order in which
each module declares its own, and what a part does not need stays 0. The state spaces
add up and do not multiply, and each property begins with the part it is about. The
parts are the modules as they stand: no definition is replaced. `Services` has the
parts whose parameters are its constants, and `ServicesProofs` proves its properties for
all their values; `MCServices` adds values, and two parts of its own: the bus once more,
for its liveness, and `OrchestratorPlan`.

Three constructs of the code are recursive functions of `Filters` wherever the provers
have to know what they do: `retain` and `filter` on a list (`Only`), `join` (`Joined`),
and the stable `sort_by` (`Sorted`), which inserts each element behind those that may
stand before it.

* `Guard`. A manifest is, for each of the four kinds, the set of the requests its
  patterns match. `check_fs_access` and the others decide as the code does: trust
  first, then the manifest, and a refusal is logged into `table`. A scan is
  `StartScan`, one `store_alert` per finding, `StoreFails` (the `?` of an insert) and
  `ScanReturns`; denials interleave with the findings in the table.
* `Resources`. `life[p]` counts the processes that have had number `p`. The background
  task is `MonitorStep`: `refresh_all`, `CloneLimits` under the lock, then one
  `suspend_process` for each process over its limit; exits, starts and registrations come in between.
  `limit_bytes` is the product in 64 bits (`LongWord`): a limit in megabytes that is too large
  wraps around, or, in a build with overflow checks, ends the task after some of the others
  were suspended (`TaskPanics`), and nobody notices as its handle was dropped.
  `record` keeps the widths: what is stored is summed as i64, the cost is taken from a
  u32 sum that wraps at `Word`.
* `Settings`. A document maps three keys, two of one section and one of another, one of
  them a number, to nothing, a string or a number. `set` is `SetLoad`, `SetRead`,
  `SetTruncate` and `SetWrite` by processes that may die; `Edit` is the user's editor.
* `Router`. A call walks the sorted providers: `Answers` or `Falls` for each, `Queue`
  after the last.
* `MemoryStore` and `Memory`. The keys of the store are strings `scope:id:key`, and a
  query looks for a suffix: names are sequences of the parts between colons so that
  names with colons in them meet. `starts_with` and `ends_with` are those of Rust on
  `scope:id:` and `:key`: the colon is part of the pattern, so that something stands on
  its other side. `AuraMemory`: Aura comes and goes (`Flip`) and each of its commands,
  `get` and `ls` included, may fail, which the code takes for no answer and no entries. What is
  stored in it is the text that comes nearest to the bytes (`from_utf8_lossy`), what it prints
  is trimmed (`trim`), and a blank is no answer; this process keeps the bytes.
* `Codec`. `base64_encode` and `base64_decode` by quotients and remainders, on
  all inputs of up to 4 bytes or 5 characters from a set that has the boundary values.
  `Manifest`: a document has each field or lacks it; `parse` returns a set of at most one
  manifest.
* `Nest`, `Patterns`. The statement that looks and the statement that writes are two
  steps. A look-up of a pattern that fails is one that found nothing (`Select`), and a
  failed write leaves the row out (`WriteFails`). A manifest line has a key, a text, quotes
  and perhaps a comment: `extract_version_from_manifest` removes blanks and double quotes
  and leaves the rest in the value (`Alone`); the manifest may be missing, or a file that
  cannot be read (`Spoil`). `Talons`: a call into a plugin is `Enter` and `Leave`, which succeeds, fails or
  panics, with both locks held in between.
* `Compress`. A text is a sequence of sentences; the mutex is held while `sqz` runs
  (`Start`, `Finish`). `Sync`: the crate has no transport; `Take` delivers anything that
  was ever encrypted, once or more often, in any order.
* `Audit`. The claims and the evidence are two reads; `Record` and `Cleanup` come in
  between. claimcheck's output is any set of results beside any `Summaries`: the status is
  that of the summary, the verdicts are those of the claims, and nothing compares them.
* `Healer` EXTENDS `Savepoint`: its steps run beside every action of the engine, agents
  that write included. `SelectSnapshot`, `ListPaths` and one `CopyBack` or `CopyFails`
  per file are the rollback of `attempt_healing`, which never removes a file.
* `Dashboard`. `screen` is what the last draw showed, so that a key can be compared
  with what its user saw. A list is drawn from its top and cut off at the bottom of its area
  (`Fitting`), whose height may be another at every draw; a second without a key, or a key that
  means nothing, draws again (`Redraw`).
* `Client`. `publish` takes the senders and then sends to one after another (`Send`), so that
  two publishers interleave. The mutex is held while a handler runs; handlers return, panic
  (which poisons it) or call their own client again.
* `Setup`. The source build uses one directory for all processes.
* `Commands`. A body is one step on what outlives the process; `Managed` is the empty
  map of the manager that each command makes. The first opening of the database is
  `init_database`, `SelectVersion` and `InsertVersion`. A batch of statements that fails, and
  a version that cannot be read and counts as none (`db.rs` 28), are not modelled: what a shell
  is refused for is the race of two first commands.

## What is checked

| Run | Instance | Shows |
|---|---|---|
| `savepoint_concurrent` | 3 files, two of them of one name, 2 contents, 1 snapshot, 2 processes, 1 write by an agent or change of permissions, 1 fault | `TypeOK`, `Recoverable` (`EntriesBacked`, `SnapshotFaithful`, `RoundTrip`), and that the engine implements `SnapshotCatalog` |
| `savepoint_sequential` | 2 files of one name, 2 contents, 2 snapshots, 1 process, 3 writes or changes of permissions, no fault | `ManifestTrue`, `OperationsEnd` |
| `savepoint_partial` | 2 files, 1 process, 1 fault | violation: `PruneSparesSnapshot` |
| `bus` | 2 tasks, 2 agents, 2 channels with room for one message, 3 messages, queues of 2, clock to 2 | `TypeOK`, `DeliveryExact` (`StreamExact`, `QueueExact`) |
| `orchestrator` | 2 subtasks in order, out of order or in a cycle; no agent or 2, with and without a bus; 2 ids, which repeat | `TypeOK`, `PlanExact` (`DependenciesEnd`, `ReportExact`), `TriesExact` (`TriedTwice`, `RepliesMatch`), `PlanEnds` |
| `orch_timeout` | 2 subtasks in order, 2 agents | violation: `TimeoutIsFailure` |
| `manager` | 1 pid that is used twice, 2 callers, 1 fault, 1 restart | `TypeOK`, `AgentsInHand` (`StopKills`, `Agreement`, `SignalsOwn`), `CallsEnd` |
| `vault` | 1 key, 1 value, 1 passphrase, 2 salts, 2 random keys, 2 processes, 1 crash, 1 fault of the keychain | `TypeOK`, `SecretsKept` (`GetReturns`, `OpensAgain`), and that the file is a `SecretStore` |
| `vault_salt` | 2 processes, nothing fails | violation: `SaltStays` |
| `session` | 2 recorders, 2 sessions, 3 step numbers, clock to 3, periods 0 and 1 | `TypeOK`, `Numbered` (`Chronological`, `GapFree`), `LogGrows` (`RowsKept`, `Appended`) |
| `services` | the 19 parts of `Services` and the 2 of `MCServices`, with the values given there | see below |
| `cli` | 1 shell, 1 pid, 2 commands | violation: `StopReaches`, by a `run` and a `stop` typed after it |

The run `services`, part by part. `GuardSound`: more than the manifest is allowed only to
a trusted name or to whoever has got a trusted number, and reports have the lines that
scans said they added. `NumbersSound`: only a number some process of which was over its
limit, or had a limit that does not fit into 64 bits, is suspended, and the monitor dies of
nothing else; budgets go by number; costs are less than tokens only where the sum
wrapped. `SettingsSound`: files stop loading only after a `set` that reported success
wrote what the parser refuses; the mode that was set stays; a manifest is written as one
that parses to the same. `RouterSound`: the first eligible provider that answers is the one
that answered, and only requests all have refused are queued. `MemorySound`: scopes are
preferred as the comment says, nothing stored is lost but to a key that reads the same,
archives are complete, a key stored in the global scope alone is answered with the bytes stored
last or, by Aura, with their text, trimmed, unless Aura has missed a write of a key that it
has, what is listed can be got unless it is a blank, and base64 makes a round trip, either
way. `PlanInOrder`: plans keep the order written and the sort fails exactly on cycles
(`WrittenOrder`, `SortCorrect`). `NestSound`: one install of a name succeeds, searches find
every part of a name, and a manifest with one line like a version is published under no other,
and under that one if the line is plain and the file can be read. `PluginsSound`: a status is
true of its instance; a row keeps the user's last decision, and a sequence has one row unless
processes raced or a look-up failed. `AuditSound`: a session whose log was left alone passes
its own check, and a report is `Verified` only if all verdicts of the fallback are passes, or
some of claimcheck's and none a failure, if its summary agrees with its claims.
`CompressSound`, `SyncSound`: as in the inventory, with the exceptions that their definitions
name. `RecoverySound`: a healing restores and counts what its snapshot has, what a
setup built is there, no command runs without its tables. `ClientSound`: the messages of one
publisher are handled in order, all of a method by the handler registered first, one at a
time, and none after a handler that panicked. `ScreenSound` and `UndoesHighlighted`:
the dashboard hides no newer alert, and an undo hits the row that was set off or, if none is,
one that did not fit. `Progress`: publishers get through, hogs are suspended as long as there
is a monitor, calls of a client return.

Several of these properties except the cases in which the code is known to do otherwise, so
that they say how far such a case can go: a number that had another process before
(`NumbersSound`, `GuardSound`), a limit that does not fit, sets that overlapped or wrote what
does not load (`SettingsSound`), an answer from the cache (`CompressSound`), equal clocks
(`SyncSound`), a log that was cleaned up meanwhile and a summary that disagrees (`AuditSound`),
a look-up that failed (`PluginsSound`), a row that did not fit (`UndoesHighlighted`). The same
holds of `calm` in `AgentsInHand`. The hazards in `PROJECT.json` name each of them.

Bounds. Two files are enough for a snapshot to be half done and for one file to be
restored while another is removed, and a third for two of them to have one name; two contents, for a file to differ from its
copy; two processes, for every race between two engine calls; one fault, for
every partial result. Snapshots are two where "the latest" matters. Channels have
room for one message so that they fill up; two senders and two receivers make
every interleaving of two publishers at two subscribers; three messages let one
sender have two. Four parts are enough for a part to have two before it, one of
which is blank. Two subtasks and two agents make a retry, a late answer to the
first try and a dependent; six channels are one for each of the four dispatches
and one for each agent, and with two ids, of which each dispatch takes any, each try can
have the id of each other one. One pid is enough for a signal to go astray, as it may be used twice.
In the vault, two processes make every overlap of two calls, one that dies between
truncating and writing included; what a call does to one key it does to each, and the proofs are
for any number of both. The run hides, with `VIEW`, only whether a call that returned nothing
ended well. `vault_salt` shows the overlap that takes the salt back. Two recorders make the race for a
number, three numbers a number that is held while it and the next are used.

In `services`: two providers of equal priority and one before them; names with and
without colons that collide as strings (an agent is called what a key begins with); two threads or processes wherever there is a
race, and one more command than shells so that a command meets what the race of the
first two has left; scanner outputs that are empty or have every kind of finding; lists
of agents in which a filter moves the selection, on terminals with room for one row or for all;
five calls on two devices, enough for a value to come back; a process number that is used
twice; limits of 1 and 4 where 4 does not fit (a "megabyte" of 2 bytes, words of 8 values);
manifests of up to two lines, each any combination of key, text, quotes and comment; values
that are blank, that are not UTF-8 and whose text has blanks around it.

Deadlock is checked but for `bus`, `services` and `cli`: there all messages may
be sent, and clocks, calls and edits at their bounds. Everywhere else something can
always happen; the end of a plan is the self-loop `Ended`.

Symmetry is used in runs without temporal properties other than safety ones, on
values the specifications only compare (agents, channels, processes, salts, random keys). The runs
`manager`, `session` and `cli` check the modules as they are, without an `MC` module.

Fairness.

* `savepoint_sequential`: a process inside an engine call keeps running (weak
  fairness of its steps); the engine has no lock it could wait for.
* `services`, in its part for the bus: a task that waits at a full channel is served
  in its turn by tokio, whose senders queue in order (strong fairness of `SendNext`,
  `GetsThrough`), and receivers keep reading (weak fairness of `Receive`). The code does
  not guarantee the latter: a receiver that neither reads nor goes away blocks its
  publishers for ever. In its part for the client, a thread that is in a call or has a
  message to take keeps running; in its part for resources, the background task does.
  A handler that calls its own client is excepted in `Waiting`: it never returns.
* `orchestrator`: `execute_plan` keeps running, its timeout included (weak fairness
  of `Execute`), and agents take, sooner or later, what is in their channel. Nothing
  else is assumed of them: they may never answer. Without the second part the send
  of `task.run` to a full channel, which no timeout covers, blocks the plan.
* `manager`: a thread that is in a call keeps running. No fairness is assumed of the
  agents, which need not exit.

`calm` in `Agreement` and `SignalsOwn`, and `raced` in the properties of the session
log, restrict what is claimed: with two overlapping calls a pause may overwrite the
state of a stop, the map and the table may come to differ, and a signal may reach a
process that got the pid of an agent in between; and after a clean-up that deletes
the whole of a session in which somebody is about to insert, numbers begin again
below it. No comment or test of the code promises more.

## What is proved

`SavepointProofs` proves, for all finite sets of files and all sets of contents,
snapshots, agents and processes, any way of making names UTF-8, and any number of writes,
changes of permissions and faults:

* `TypeCorrect`: `TypeOK`;
* `Backed`: `EntriesBacked`, a manifest entry always has its row and a stored copy of a file
  of its name;
* `Faithful`: `SnapshotFaithful`, a snapshot taken undisturbed is for ever exactly what its
  walk could list, each file under a name of its own;
* `RollbackRestores`: `RoundTrip`, an undisturbed rollback of such a snapshot that is about to
  succeed has put all of it back and left nothing else that it could list;
* `Recovery`: the three together, `Recoverable`;
* `Refinement`: `CatalogSpec`, the engine implements `SnapshotCatalog`;
* `TrueManifest`: `ManifestTrue` as long as nothing fails, in any interleaving of any number
  of processes (that nothing fails is its hypothesis, and `savepoint_partial` shows why);
* `HealingCorrect`: `HealRestores` and `HealCounted` of the self-healer, which runs beside
  every action of the engine.

The assumptions are those of `Savepoint`: the bounds are numbers, `Files` is
finite, a name that was made UTF-8 once stays as it is, and `None` is none of the other values. The argument is one inductive
invariant, `IInv`. None of the properties is inductive by itself: a manifest
entry is backed because of the hashes and copies that the creating process made
before, so `IInv` says of each phase what is in place already. `Owned`: only one
process creates a given snapshot, and while it does no one has a sealed result
for it. `CreateInv`: every file whose hash is known has its copy, except the one
in hand, and every manifest entry comes from those hashes. `QuietInv`: in a call
nobody disturbed, hashes and copies equal the working directory (`QuietWalk`), and
the part already restored equals the snapshot (`QuietRestore`). Each action has a
lemma that says what it does to its process, a step that preserves each conjunct,
and the properties follow from `IInv`.

The healer's invariant, `HealInv`, is `IInv` with four parts more. `Counted`: no snapshot
has more entries than its row says, also while it is created, which is why a healing from
an unfinished one cannot claim too much. `Picked`: the row the healer has chosen is of its
agent, and what it still has to copy, has copied and has missed are the paths it listed.
`Undisturbed`: as long as nobody else moved the working directory, each path copied so far
is as in the snapshot, and each other file as it was before. `EventsTrue` says of the
events on record what `HealCounted` says of those that are read back.

`SessionLogProofs` proves all five properties of the session log (`TypeCorrect`,
`InOrder`, `Dense`, `Kept`, `AtTheEnd`; together `Numbering` and `Growth`), for all sets of recorders, sessions and
periods and all bounds, from the assumptions that the periods and bounds are
numbers. That the log is dense and in the order of time does not say why the next
action keeps it so: two recorders may hold the same number, and one may hold a
number while others go on. The inductive invariant adds that a recorder holds a
number that follows one of the log or is in it by now (`Follows`), and a time no
earlier than those of the lower numbers (`Later`), which are all in the past
(`Past`). From these, `NextNumber` shows that a number that is not taken when it is
inserted is greater than all others; `InsertEffect` says what follows for the log,
and `InsertInProgress` that what the other recorders hold is still good. A clean-up
keeps the log dense because it removes by time, and times follow numbers
(`CleanupGapFree`).

`AgentManagerProofs` proves, for all sets of pids and callers, any number of faults and
restarts and any number of processes that have had a pid:

* `TypeCorrect`: `TypeOK`, with what it says of an entry and its process;
* `InHand`: `AgentsInHand`, that is `StopKills`, `Agreement` and `SignalsOwn`.

The assumptions are that the bounds are numbers and that `None` is no state, pid or
entry. Nothing a call has looked up need be true of the process when it acts on it: the
pid may have been given away in between. `IInv` therefore speaks of generations. An
entry is of the latest process of its pid, or knows that its child was waited for
(`Entries`); a process that is being spawned is tracked by nobody else (`Spawned`,
`Apart`), as its row would be in the way; and a stop holds the generation of the entry
until it has seen that generation dead, or the entry go, which only another stop of the
same generation can bring about (`Stopped`). A dead generation stays dead, hence
`StopKills`, for any interleaving. The other two hold as long as calls do not overlap:
`CalmInv` says that at most one thread is in a call (`Alone`), that map, table and
process agree about every other pid (`Agree`), and in each phase of the call what is
already true of its own (`Phase`), above all that the process to be signalled is that
of the entry (`Meant`).

`VaultProofs` proves, for all keys, values, passphrases and salts, any number of
processes, crashes and faults:

* `TypeCorrect`: `TypeOK`;
* `Kept`: `SecretsKept`, that is `GetReturns` and `OpensAgain`;
* `Refinement`: `RefinesStore`.

All three are for calls that overlap in any way; the only assumption is that `None` is no salt,
no key and no file. What a call has loaded is what it had read, but for the one change it is
about to save (`Edited`). The salt that a sealed secret needs is the one in the file or in what
some call has read, or it is in `lost`: `SaltInv` says so of the file, of every call in progress
(`Fine`) and of every key that is held (`Opens`), since a call that writes puts what it has
read, and one change, in the place of what is there, and `lost` takes the salt that goes.

`BusProofs` proves, for all agents, topics, messages, tasks and channels, and any
capacities and limits:

* `BusTyped` and `TypeCorrect`: `TypeOK`, of the bus alone and with its history;
* `Delivery`: `DeliveryExact`, that is `StreamExact` and `QueueExact`.

The assumptions are those of `MessageBus`: channels have room, limits are numbers, and
`None` is no channel, topic or message. What a channel's receiver has taken and what the channel holds is one sequence, `Flow(c)`.
The invariant (`ChannelInv`) says of each channel and sender that the messages of that
sender in `Flow(c)` are those of its log that were addressed to the channel and are not
still on their way there (`StreamsAt`), in this order; it needs that a message is sent
once (`SentOnce`), that an operation goes to no channel twice (`ChansOnce`) and that what
it sends is the last of its sender's log (`SendsLatest`). The queues have an invariant of
their own (`QueueInv`): what was delivered and then what is still in the queue are what was
queued, in this order, without entries that are no longer retained (`QueueAt`). Both are about filtered sequences, whose facts (`OnlyAppend`,
`OnlyConcat`, `OnlyTwice` and so on) are in `SequenceLemmas`.

`OrchestratorProofs` proves, for all agents, plans, registries, ids and channels:

* `SortsAll`: for every number of subtasks and every list of dependencies, duplicates and
  subtasks that do not exist included, `TopologicalSort` finds an order exactly when there
  is one, with every subtask once and after those it depends on;
* `TypeCorrect`: `TypeOK`;
* `PlanExecuted`: `PlanExact`, that is `DependenciesEnd` and `ReportExact`;
* `TriesBelieved`: `TriesExact`, that is `TriedTwice` and `RepliesMatch`, whether ids repeat
  or not;
* `PlanCorrect`: `PlanInOrder` of `OrchestratorPlan`, for any number of parts, of subtasks in
  a part and of dependencies that the caller adds.

The assumptions are those of `Orchestrator`: names differ, registered agents are agents,
plans have subtasks that are finite sets of capabilities. `SortsAll` goes by induction
over the states of Kahn's loop: what has been output meets all its dependencies, and the
degree of a subtask counts those that are not output (`KahnInv`). `IInv` has two halves.
`Progress` says what is done: `Scheduled` (what is left of the plan is in order, and
subtasks are pending, running or over accordingly) and `Tried` (a subtask that is still
to be done was tried at most once, and not by the agent that has it now). `Lines` says
that the bus keeps the dispatches apart: the reply channel of the dispatch in progress
gets messages of its id only (`Private`), as no one else is subscribed with it (`Wired`),
and what is about to be returned is one of them (`Returning`). A message that is anywhere
under way is about a subtask that was dispatched under its id (`AllKnown`); a late answer to
the first try is not taken for one to the second unless that has the same id.
That a plan with no
subtasks and a dependency outside it is reported as cyclic was found by this proof, and
`ReportExact` says it now.

That a plan comes out as it was written, although its dependencies do not name every pair,
is in `PlanCorrect`. What does it is that every subtask of a part but the first depends on
the one right before its part (`Layered`): that is the last one `orchestrate` has counted,
and the code's derivation of where the part before begins never misses it. So Kahn's queue
stays in increasing order (`PopOrdered`): whatever a subtask releases is of the part that
begins right after it, and then nothing of an earlier part is waiting. `AsWritten` says
this of the plan so far, `PairsFacts` what the two nested loops push (by division of the
index of a pair), `ThenWritten` that one more part keeps it. What the caller adds is of no
concern to the sort (`SortsAll`).

`ServicesProofs` proves what `services` checks of the nineteen parts of `Services`, for all
values of their parameters. Each part has an invariant, which holds whenever that part runs (`Begins` and
`Moves` take a step of `Services` to a step of the part), and hypotheses that say what its
constants are, no more than the code does: a manifest is not `None` (`NoManifest`), the
output of a scanner is a list (`ScansAreLists`), amounts are numbers (`Numbers`), and so on.

* `GuardCorrect`. A trusted number had a trusted name when it was trusted, and has it
  still or was given away since (`Trusted`). For the report, `WatchInv`: what a scan has
  stored so far is what it has counted, and the filters by type that `generate_report`
  applies find the rows of the scans and of the denials, once each (`Counted`).
* `NumbersCorrect`. A sample is of a process that had the number, and whoever is to be
  signalled was over the limit in it (`Sampled`), whatever exits and starts in between;
  the sums of a number are at least those of its process and equal to them for the first
  one, and a cost is that of the tokens unless a sum wrapped (`Sums`). A limit that wraps
  is on record as one before anybody is signalled, and so is whatever ends the task (`Doomed`).
* `SettingsCorrect`. As long as sets come one after the other (`~clash`), each layer is one
  that parses, and has the mode that was set last, or was broken by a set that is on
  record, also when its writer died half way (`Layer`, `Undisturbed`). A manifest is what
  `parse` made of a document (`ManifestInv`), and with every default spelled out it is
  readable; `None` is no text, limit or number (`NoField`).
* `RouterCorrect`. Those that have refused and those that are yet to be asked are the
  eligible ones, all of the former before the latter in an order that is the sorted one
  (`Walk`). The hypothesis is that no provider is configured twice and priorities are
  numbers; that the sort sorts is `SortedFacts` in `SequenceLemmas`.
* `NestCorrect`. An install is on record if and only if its row is (`NestInv`); that a
  search finds each part of a name, and that of all the lines of a manifest the one that reads
  like a version decides, for every text, quotes and comment, are facts about sequences.
* `PluginsCorrect`. A plugin without a record has not been loaded (`PluginInv`). Of the
  patterns, `PatternInv`: what a process upserts is repeated in its log as often as it says
  (`Repeats`, from `Found` being monotone in the log), the row it has looked up is that of
  the sequence (`Looked`), every row has the last decision (`Heard`), and a sequence that nobody
  raced for, and no failing look-up passed over, has one row (`Decided`).
* `SyncCorrect`. What a device had or took is in its copy or in its log (`NothingLost`),
  and what it queued is what it flushed and then its queue (`InQueue`).
* `AuditCorrect`. As long as nothing was removed, each claim a verifier holds is of an
  action in the log (`InLog`). Of claimcheck nothing is assumed: its summary is compared with
  its claims only in what the property says.
* `ClientCorrect`. Of each publisher, what a receiver has in its inbox, what it is about to
  be sent and what it has in hand come after all that it has handled, in order (`Numbered`,
  `Coming`, `InLine`, `InOrder`); the handler of a method is that of the first who had the
  registry for it, and has handled all of its messages (`Settled`); and who runs a handler holds
  the mutex, which one that panics leaves poisoned (`Exclusive`).
* `ScreenCorrect` and `UndoCorrect`, the action property `UndoesHighlighted`. Between a draw
  and a key the lists on the screen are those the application has, cut off at some height,
  unless it was fed (`AsShown`); of a sorted list the first five are the newest (`SummaryNewest`).
* `MemoryCorrect`. Names are sequences of any parts (`NamesOf`): keys and sessions may have
  colons in them, the number of an agent has none. Every entry stands in its table under its
  own scope and key (`Tidy`). For the store, `MemoryInv`: what is in the table or in the
  archive was stored, what was stored is in one of them, and of a session that was archived
  and not stored to since nothing is left in the table. That a query answers from the nearest
  scope is then a fact about ends of sequences (`QueryFinds`, `QueryOrder`). For the store with Aura,
  `AuraInv`: the fallback has the value that was stored last, and Aura has its text unless it
  has missed a write. For base64 (`CodeValues`: bytes are below 256, and characters are those
  of the alphabet, padding or another): three bytes and four characters make each other
  (`EncodedChunk`, `DecodedChunk`, from `EncodeBits` and `DecodeBits`), and a sequence cut and
  joined again is itself, as are sequences of one length joined and cut (`JoinedChunks`,
  `ChunksJoined` in `SequenceLemmas`). How many bytes a text has is an induction over its groups
  (`PadsGrow`).
* `CompressCorrect`. Texts are sequences of sentences of any words (`TextsOf`). `StatsInv`: the
  totals count the tokens of all agents, one pair of agent and number for each (`Tokens`, so
  that a sum is a cardinality and needs no induction; `TokensGrow` is what one call adds).
  `CacheInv`: what the engine made itself and kept fits the threshold it was made for.
* `RecoveryCorrect`. For the healer, what `SavepointProofs` proves, under what `Savepoint`
  assumes of its constants (`EngineConstants`): `HealerSame` takes its steps to those of that
  module. For the setup, each process claims only what is installed by now, and nothing that was
  installed goes away (`SetupInv`). For the commands (`ShellsAreCounted`: finitely many shells
  and at least one), `CommandsInv`: the tables are there before a shell asks for the version,
  and the version is there, once, before a body runs; however many shells open the
  database first, the key of the table refuses whoever inserts it after the first (`Opened`).

The proof of `MemoryCorrect` found that a clause of `ScopeOrder` was not meant as it was
written: it looked for a key at the end of a whole string by lengths alone, and was false for
an agent `t` and a key `t:k`. The clause says it with `ends_with` now, and the run has such names.

Only model-checked: liveness (`OperationsEnd`, `PlanEnds`, `CallsEnd`, `Progress`), which is
out of the prover's reach. Every invariant and action property of a passing run is stated by
a theorem.

## Disagreements between the code and what is said of it

With a run that shows it:

* `savepoint_partial`: an error or a crash between two of the manifest's
  INSERTs leaves a `snapshots` row with a partial manifest; `rollback_latest` picks
  it and removes files that are in the snapshot.
* `orch_timeout`: a subtask whose agent does not answer in 30 seconds is simulated
  and reported as completed; the comment says it is treated as failed.
* `vault_salt`: the salt, "generated once", is replaced when a process writes back
  what it read before another stored it; secrets sealed under the first can no
  longer be opened.
* `cli`: the README (line 507) has `openhawk stop/pause/resume <pid>` for the control of
  agents; every command makes an agent manager with an empty map, so that no stop
  reaches an agent that `run` has started, and `ps` lists none.

Met while modelling, without a run:

* a file written between its hash and its copy is stored under the hash of its
  earlier contents (`openhawk-savepoint/src/lib.rs` 231);
* from the third `then` part on, only the last subtask of the part before is a
  dependency, not all of them; the order comes out as written nevertheless
  (`WrittenOrder`);
* dependents of a subtask that failed are executed all the same;
* `and` is for parallel subtasks in the README (line 173); all subtasks run one after
  the other;
* messages queued under a topic that was never subscribed to are not in "Total
  pending messages" of `inspect`;
* the README (lines 165 and 510) has `openhawk undo` roll back to the last snapshot
  without an id; the command line fails and asks for one (only the dashboard calls
  `rollback_latest`);
* the README (line 189) has a snapshot taken before every agent task; nothing but
  tests calls `create_snapshot`. `max_snapshots_per_agent` (line 229) is stored and
  shown, and limits nothing. Likewise, nothing but tests records sessions or cleans
  them up;
* the README (line 135) derives keys from the keychain by Argon2id; the key of the
  keychain is used as it is, and Argon2id is for passphrases.
* `config set` writes every value as a string and does not validate it: after
  `session_retention_days`, an unknown mode, or the first of the fields of a section, it
  reports success and no later command can load the file; it cannot be set right with
  `config set` either, which loads first (`LoadsUnlessSet` says that nothing else does it);
* the project's layer overrides in `get_effective`, but `merged`, from which a daemon
  starts, takes all but the providers from the global one, while its comment
  (`config_engine.rs` 98) says that the project overrides;
* nothing makes the directory of the database (`main.rs` 364, `db.rs` 8): on a machine
  without `~/.local/share/hawk` every command that needs it fails;
* a row of `agents` stays when its agent has gone: an agent that gets the same pid runs,
  but its INSERT fails and it is reported as not started (`agent_manager.rs` 79);
* the tools installed by `curl | sh` are reported as installed when the download failed
  (`setup.rs` 198);
* `truncate` (`main.rs` 221) cuts a string at a byte and panics inside a character;
* `sync` and `talon` commands set what is forgotten when the command ends;
* a snapshot of a directory that cannot be listed is reported as taken without its files, and
  a rollback leaves them alone (`openhawk-savepoint/src/lib.rs` 223, 326); a snapshot of a file
  whose name is not UTF-8 cannot be rolled back (240);
* `memory_mb` is multiplied out in 64 bits and no manifest is refused for a large one: an
  agent within its limit is suspended, or the monitor panics (`resource_monitor.rs` 72);
* a pattern the user has dismissed comes back when its look-up fails (`pattern_detector.rs`
  114); the status of a claimcheck report follows a summary that nothing compares with the
  claims (`openhawk-verify/src/lib.rs` 257); an agent below the last row the terminal has room
  for can be selected, and rolled back, without being seen (`render.rs` 92);
* trust is said to be for the current session (`main.rs` 194); no session is looked at, and the
  number of a process that was trusted stays so when another process gets it (the `trust` command
  itself only prints that it is not yet implemented, `main.rs` 1048);
* expired messages count against the bus's queue
  limit until something removes them; no dispatch unsubscribes its reply topic; a vault
  that died between truncating and writing can no longer be loaded by anything.

## What is not modelled

Of the modelled components: partly written files other than the vault's and the
configuration's, directories and symbolic links in snapshots, the wording of tasks and
reports, cryptography, printing and layout, the text of the scaffolds, and operations
that only read and of which no property speaks (`inspect`, `get_log`, statistics and
trends). Platform detection, shared types and error texts have no state. What claimcheck,
ghostdep, etch, sqz, aura, installers, plugins and handlers do is external. Claimcheck may
give any results beside any summary, but the number of its claims and their wording are left
out; aura's commands work or fail, and keep and print what they were given, trimmed, where
the code would also put up with a daemon that answers anything; a failure of the other tools,
and each kind of result the code tells apart, is an outcome of its own.

The parts of `services` run alone: their interaction with others is in the composed
modules (`Orchestrator` with `MessageBus`, `Healer` with `Savepoint`, `Client` with
`MemoryStore`, `Guard` with the table of alerts), and not beyond.

## Plan

1. Done: every component with state has its module; proofs for the snapshot engine, the
   bus, the orchestrator, the agent manager, the vault, the session log, and the
   nineteen services; the plan of the orchestrator, base64 and manifests included.
2. Compositions: the resource monitor with the agent manager, whose processes it
   suspends; the verifier with `SessionLog`, which it reads.
