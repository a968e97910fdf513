-------------------------------- MODULE Guard --------------------------------
(***************************************************************************)
(* The permission guard of openhawk-core and the watch engine of           *)
(* openhawk-watch.  They share the table watch_alerts: the guard writes    *)
(* the requests it refuses, the watch engine what the external scanners    *)
(* (ghostdep, etch) find, and the report reads it back.                    *)
(*                                                                         *)
(* A list of patterns in a manifest is the set of the requests it matches. *)
(* The output of a scanner is a sequence of findings, parsed, or the empty *)
(* one when the tool is missing, fails or prints something else.           *)
(***************************************************************************)
EXTENDS Integers, Sequences, FiniteSets, Functions, Filters

CONSTANTS
    Pids, Names, Requests,
    Manifests,    \* manifests: a name, and for each kind of request those allowed
    Outputs,      \* outputs of ghostdep and of etch
    Scanners,     \* processes that scan
    MaxRows,      \* bound: rows of watch_alerts
    None

Kinds == {"fs_access", "network", "command", "secret"}

VARIABLES
    manifests,    \* pid -> the manifest registered last
    trusted,      \* pids
    table,        \* watch_alerts, by id
    monitored,    \* the agents the watch engine was started for
    scan,         \* scanner -> the scan it is in
    decision,     \* the last answer of the guard
    called,       \* history: names trust was called with
    reused,       \* history: trusted pids that were registered again under another name
    book          \* history: counts returned by scans, rows of failed scans, denials logged

vars == <<manifests, trusted, table, monitored, scan, decision, called, reused, book>>
guard == <<manifests, trusted, decision, called, reused>>

NoScan == [pc |-> "idle", agent |-> None, type |-> None, todo |-> <<>>, count |-> 0]

Init ==
    /\ manifests = [p \in Pids |-> None] /\ trusted = {} /\ table = <<>> /\ monitored = {}
    /\ scan = [s \in Scanners |-> NoScan]
    /\ decision = [pid |-> None, allowed |-> FALSE, listed |-> FALSE, name |-> None]
    /\ called = {} /\ reused = {} /\ book = [returned |-> 0, partial |-> 0, denied |-> 0]

--------------------------------------------------------------------------------
(* PermissionGuard *)

register(p, m) ==
    /\ manifests' = [manifests EXCEPT ![p] = m]
    /\ reused' = IF p \in trusted /\ manifests[p].name # m.name THEN reused \cup {p} ELSE reused
    /\ UNCHANGED <<trusted, table, monitored, scan, decision, called, book>>

Room == Len(table) < MaxRows

(* log_denial: a failed INSERT is ignored. *)
log_denial(p, r) ==
    \/ /\ Room
       /\ table' = Append(table, [type |-> "permission_denied", agent |-> p, detail |-> r])
       /\ book' = [book EXCEPT !.denied = @ + 1]
    \/ UNCHANGED <<table, book>>

Answer(p, allowed, listed) ==
    decision' = [pid |-> p, allowed |-> allowed, listed |-> listed,
                 name |-> IF manifests[p] = None THEN None ELSE manifests[p].name]
Listed(kind, p, r) == manifests[p] # None /\ r \in manifests[p].permissions[kind]

Check(kind, p, r) ==
    /\ IF p \in trusted \/ Listed(kind, p, r)
       THEN Answer(p, TRUE, Listed(kind, p, r)) /\ UNCHANGED <<table, book>>
       ELSE /\ Answer(p, FALSE, FALSE)
            /\ IF manifests[p] = None THEN UNCHANGED <<table, book>> ELSE log_denial(p, r)
    /\ UNCHANGED <<manifests, trusted, monitored, scan, called, reused>>

check_fs_access(p, r) == Check("fs_access", p, r)
check_network(p, r) == Check("network", p, r)
check_command(p, r) == Check("command", p, r)
check_secret(p, r) == Check("secret", p, r)

Named(n) == {p \in Pids : manifests[p] # None /\ manifests[p].name = n}

(* Mutant: every registered agent is trusted. *)
trust_All(n) ==
    /\ trusted' = {p \in Pids : manifests[p] # None}
    /\ called' = called \cup {n}
    /\ UNCHANGED <<manifests, reused, table, monitored, scan, decision, book>>

(* The agents of that name that are registered now, for as long as the guard
   lives: the session is not used. *)
trust(n) ==
    /\ trusted' = trusted \cup Named(n)
    /\ called' = called \cup {n}
    /\ UNCHANGED <<manifests, reused, table, monitored, scan, decision, book>>

--------------------------------------------------------------------------------
(* WatchEngine *)

start_monitoring(agents) ==
    monitored' = agents /\ UNCHANGED <<guard, table, scan, book>>
stop_monitoring ==
    monitored' = {} /\ UNCHANGED <<guard, table, scan, book>>

(* Phantom and unused dependencies the tool is sure of. *)
ghostdep_scan(out) ==
    Only(out, {f \in Range(out) : f.type \in {"phantom", "unused"} /\ f.confidence = "high"})

(* Endpoints with at least one difference. *)
etch_test(out) == Only(out, {r \in Range(out) : r.type = "endpoint" /\ r.confidence # "same"})

StartScan(s, agent, type, found) ==
    /\ scan[s].pc = "idle"
    /\ scan' = [scan EXCEPT ![s] = [pc |-> "emit", agent |-> agent, type |-> type,
                                    todo |-> found, count |-> Len(found)]]
    /\ UNCHANGED <<guard, table, monitored, book>>

run_ghostdep_scan(s, n) == \E out \in Outputs : StartScan(s, n, "phantom_dep", ghostdep_scan(out))
run_etch_scan(s) == \E out \in Outputs : StartScan(s, None, "api_drift", etch_test(out))

StoredRow(s) == [type |-> scan[s].type, agent |-> scan[s].agent, detail |-> Head(scan[s].todo).name]

(* emit_phantom_dep, emit_api_drift *)
store_alert(s) ==
    /\ scan[s].pc = "emit" /\ scan[s].todo # <<>> /\ Room
    /\ table' = Append(table, StoredRow(s))
    /\ scan' = [scan EXCEPT ![s].todo = Tail(@)]
    /\ UNCHANGED <<guard, monitored, book>>

(* Mutant: the error of one finding is ignored. *)
StoreFails_Ignored(s) ==
    /\ scan[s].pc = "emit" /\ scan[s].todo # <<>>
    /\ scan' = [scan EXCEPT ![s].todo = Tail(@)]
    /\ UNCHANGED <<guard, table, monitored, book>>

(* A failed INSERT ends the scan; what it has stored stays. *)
StoreFails(s) ==
    /\ scan[s].pc = "emit" /\ scan[s].todo # <<>>
    /\ scan' = [scan EXCEPT ![s] = NoScan]
    /\ book' = [book EXCEPT !.partial = @ + scan[s].count - Len(scan[s].todo)]
    /\ UNCHANGED <<guard, table, monitored>>

ScanReturns(s) ==
    /\ scan[s].pc = "emit" /\ scan[s].todo = <<>>
    /\ scan' = [scan EXCEPT ![s] = NoScan]
    /\ book' = [book EXCEPT !.returned = @ + scan[s].count]
    /\ UNCHANGED <<guard, table, monitored>>

Alerts(types) == {a \in Range(table) : a.type \in types}

(* The rows of other types are skipped. *)
get_alerts == Only(table, Alerts({"api_drift", "phantom_dep"}))

generate_report ==
    [api_drifts |-> Only(get_alerts, Alerts({"api_drift"})),
     phantom_deps |-> Only(get_alerts, Alerts({"phantom_dep"}))]

--------------------------------------------------------------------------------
Next ==
    \/ \E p \in Pids, m \in Manifests : register(p, m)
    \/ \E p \in Pids, r \in Requests :
          check_fs_access(p, r) \/ check_network(p, r) \/ check_command(p, r) \/ check_secret(p, r)
    \/ \E n \in Names : trust(n)
    \/ \E agents \in SUBSET Pids : start_monitoring(agents)
    \/ stop_monitoring
    \/ \E s \in Scanners :
          \/ \E n \in Names : run_ghostdep_scan(s, n)
          \/ run_etch_scan(s) \/ store_alert(s) \/ StoreFails(s) \/ ScanReturns(s)

Spec == Init /\ [][Next]_vars

--------------------------------------------------------------------------------
(* Properties *)

(* A process that is allowed more than its manifest carries a name that was
   trusted, or the number of a process that did: trust never reaches the agents
   of other names that are there, only those that take over a trusted number. *)
BeyondManifest ==
    decision.allowed /\ ~decision.listed => decision.name \in called \/ decision.pid \in reused

InProgress(s) == scan[s].count - Len(scan[s].todo)

(* What the scans that are under way have stored. *)
Stored == UNION {{s} \X (1 .. InProgress(s)) : s \in Scanners}

(* The numbers the scans return are the lines they add to the report, whoever
   else scans, is refused a request or fails in between. *)
ReportExact ==
    LET report == generate_report
    IN  /\ Len(report.api_drifts) + Len(report.phantom_deps) =
              book.returned + book.partial + Cardinality(Stored)
        /\ Len(table) = Len(get_alerts) + book.denied

(* What is out of the manifest is reported, and every report is accounted for. *)
GuardSound == BeyondManifest /\ ReportExact
================================================================================
