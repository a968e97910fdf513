--------------------------------- MODULE Sync ---------------------------------
(***************************************************************************)
(* The sync engines of two devices (openhawk-sync).  An engine encrypts    *)
(* with the key of its secret, queues the changes made while it is offline *)
(* and resolves conflicts by its own strategy.  Peers are not discovered   *)
(* by this code: what a device hands over, another may take at any time.   *)
(***************************************************************************)
EXTENDS Naturals, Sequences, FiniteSets

CONSTANTS
    Devices, Secrets, Items,
    MaxCalls,        \* bound: steps in all
    None

Strategies == {"LastWriterWins", "Manual", "Merge"}

VARIABLES
    engine,          \* device -> [key, selected, strategy, queue, log]
    value,           \* device -> [parts, ts]: its copy of the one item, and when it was written
    wire,            \* what devices have encrypted: [key, parts, ts]
    clock, calls,
    queued,          \* history: the changes queued on each device, and those flushed
    met              \* history: device -> what it had or took since its own last write, where no
                     \* conflict was left to the user

vars == <<engine, value, wire, clock, calls, queued, met>>

Init ==
    /\ engine = [d \in Devices |-> [key |-> None, selected |-> <<>>, strategy |-> "LastWriterWins", queue |-> <<>>, log |-> <<>>]]
    /\ value = [d \in Devices |-> [parts |-> <<>>, ts |-> 0]]
    /\ wire = {} /\ clock = 0 /\ calls = 0 /\ met = [d \in Devices |-> {}]
    /\ queued = [d \in Devices |-> [all |-> <<>>, flushed |-> <<>>]]

--------------------------------------------------------------------------------
(* The key is derived from the secret alone, the salt is fixed. *)
enable(d, secret) ==
    /\ engine' = [engine EXCEPT ![d].key = secret]
    /\ UNCHANGED <<value, wire, clock, queued, met>>

set_conflict_strategy(d, s) ==
    /\ engine' = [engine EXCEPT ![d].strategy = s]
    /\ UNCHANGED <<value, wire, clock, queued, met>>

select_for_sync(d, item) ==
    /\ engine' = [engine EXCEPT ![d].selected = IF \E i \in DOMAIN @ : @[i] = item THEN @ ELSE Append(@, item)]
    /\ UNCHANGED <<value, wire, clock, queued, met>>

(* sync: what it reports, and nothing else. *)
sync(d) == IF engine[d].key = None THEN None ELSE Len(engine[d].selected)

(* The device writes its copy; devices may write at the same time. *)
WriteValue(d, tick) ==
    /\ clock + tick >= 1
    /\ clock' = clock + tick
    /\ value' = [value EXCEPT ![d] = [parts |-> <<<<d, clock'>>>>, ts |-> clock']]
    /\ met' = [met EXCEPT ![d] = {<<d, clock'>>}]
    /\ UNCHANGED <<engine, wire, queued>>

queue_change(d) ==
    /\ engine' = [engine EXCEPT ![d].queue = Append(@, value[d])]
    /\ queued' = [queued EXCEPT ![d].all = Append(@, value[d])]
    /\ UNCHANGED <<value, wire, clock, met>>

flush_queue(d) ==
    /\ engine[d].queue # <<>>
    /\ engine' = [engine EXCEPT ![d].queue = <<>>]
    /\ queued' = [queued EXCEPT ![d].flushed = @ \o engine[d].queue]
    /\ UNCHANGED <<value, wire, clock, met>>

(* encrypt, for whoever may take it. *)
encrypt(d) ==
    /\ engine[d].key # None
    /\ wire' = wire \cup {[key |-> engine[d].key, parts |-> value[d].parts, ts |-> value[d].ts]}
    /\ UNCHANGED <<engine, value, clock, queued, met>>

decrypt(d, m) == IF engine[d].key = m.key THEN {[parts |-> m.parts, ts |-> m.ts]} ELSE {}

(* resolve_conflict: of two values written at the same time the local one stays. *)
resolve_conflict(strategy, local, remote) ==
    CASE strategy = "LastWriterWins" -> IF remote.ts > local.ts THEN remote.parts ELSE local.parts
      [] strategy = "Manual" -> local.parts
      [] strategy = "Merge" -> local.parts \o remote.parts

Parts(v) == {v.parts[i] : i \in DOMAIN v.parts}

(* Mutant: the log names the value that won. *)
Discarded_Winner(local, remote) ==
    [discarded |-> IF remote.ts > local.ts THEN remote.parts ELSE local.parts,
     winner_ts |-> IF remote.ts > local.ts THEN remote.ts ELSE local.ts]

Discarded(local, remote) ==
    [discarded |-> IF remote.ts > local.ts THEN local.parts ELSE remote.parts,
     winner_ts |-> IF remote.ts > local.ts THEN remote.ts ELSE local.ts]

(* A device takes what it can decrypt, once, and resolves the conflict. *)
Take(d, m) ==
    /\ \E remote \in decrypt(d, m) :
          /\ value' = [value EXCEPT ![d] = [parts |-> resolve_conflict(engine[d].strategy, @, remote),
                                            ts |-> IF remote.ts > @.ts THEN remote.ts ELSE @.ts]]
          /\ engine' = IF engine[d].strategy = "LastWriterWins"
                       THEN [engine EXCEPT ![d].log = Append(@, Discarded(value[d], remote))] ELSE engine
          /\ met' = [met EXCEPT ![d] = IF engine[d].strategy = "Manual" THEN @ ELSE @ \cup Parts(remote)]
    /\ wire' = wire \ {m}
    /\ UNCHANGED <<clock, queued>>

Next ==
    /\ calls < MaxCalls /\ calls' = calls + 1
    /\ \E d \in Devices :
          \/ \E s \in Secrets : enable(d, s)
          \/ \E s \in Strategies : set_conflict_strategy(d, s)
          \/ \E i \in Items : select_for_sync(d, i)
          \/ \E tick \in {0, 1} : WriteValue(d, tick)
          \/ queue_change(d) \/ flush_queue(d) \/ encrypt(d)
          \/ \E m \in wire : Take(d, m)
Spec == Init /\ [][Next]_vars

--------------------------------------------------------------------------------
(* Two devices that let the last writer win agree on the value of two that were
   written at different times, whichever of them resolves the conflict. *)
Agree ==
    \A d, e \in Devices :
        value[d].ts # value[e].ts =>
            resolve_conflict("LastWriterWins", value[d], value[e]) = resolve_conflict("LastWriterWins", value[e], value[d])

(* Changes leave the queue in the order they came, each once; none is lost. *)
QueueKept == \A d \in Devices : queued[d].all = queued[d].flushed \o engine[d].queue

(* Every value that a device has met since it last wrote its own is still there:
   in its copy, or discarded in its conflict log. *)
Lossless ==
    \A d \in Devices :
        met[d] \subseteq Parts(value[d]) \cup UNION {{w.discarded[i] : i \in DOMAIN w.discarded} :
                                                    w \in {engine[d].log[j] : j \in DOMAIN engine[d].log}}
================================================================================
