-------------------------------- MODULE Talons --------------------------------
(***************************************************************************)
(* The plugin registry of openhawk-core (talon.rs).  Threads share it; a   *)
(* call into a plugin is made with both locks held, and may fail or panic. *)
(***************************************************************************)
EXTENDS Naturals, FiniteSets

CONSTANTS Threads, Names, Versions, None

VARIABLES
    records,      \* name -> the record, or None
    instances,    \* name -> None, or whether its plugin has loaded itself
    inside,       \* the thread that holds both locks, in a plugin: [thread, op, name], or None
    fresh         \* history: names whose instance was registered after the last load

vars == <<records, instances, inside, fresh>>

Init ==
    /\ records = [n \in Names |-> None] /\ instances = [n \in Names |-> None]
    /\ inside = None /\ fresh = {}

Free == inside = None

(* A signature is the pair it was made from. *)
make_signature(name, version) == <<name, version>>
verify_signature(name, version, signature) == signature = make_signature(name, version)

install(name, version, signature) ==
    /\ Free
    /\ records' = IF verify_signature(name, version, signature) /\ records[name] = None
                  THEN [records EXCEPT ![name] = [version |-> version, status |-> "Unloaded", signature |-> signature]]
                  ELSE records
    /\ UNCHANGED <<instances, inside, fresh>>

(* A plugin under a name that is there is replaced, whether it is loaded or not. *)
register_instance(name) ==
    /\ Free
    /\ instances' = [instances EXCEPT ![name] = "idle"]
    /\ fresh' = fresh \cup {name}
    /\ UNCHANGED <<records, inside>>

SetStatus(name, s) == records' = [records EXCEPT ![name].status = s]
Status == [load |-> "Loaded", unload |-> "Unloaded"]
State == [load |-> "loaded", unload |-> "idle"]

(* load and unload: the record first; without an instance that is all. *)
Enter(t, op, name) ==
    /\ Free /\ records[name] # None
    /\ IF instances[name] = None
       THEN SetStatus(name, Status[op]) /\ UNCHANGED inside
       ELSE inside' = [thread |-> t, op |-> op, name |-> name] /\ UNCHANGED records
    /\ UNCHANGED <<instances, fresh>>

(* Mutant: the record says what was asked for, whatever the plugin did. *)
Leave_Ignores(t) ==
    /\ ~Free /\ inside.thread = t
    /\ \E result \in {"ok", "error", "panic"}, state \in {State[inside.op], instances[inside.name]} :
          /\ result = "ok" => state = State[inside.op]
          /\ instances' = [instances EXCEPT ![inside.name] = state]
          /\ SetStatus(inside.name, Status[inside.op])
          /\ fresh' = IF result = "ok" /\ inside.op = "load" THEN fresh \ {inside.name} ELSE fresh
    /\ inside' = None

(* The plugin returns, or catch_unwind catches it; one that did not return Ok
   may have done what it was asked to, or not. *)
Leave(t) ==
    /\ ~Free /\ inside.thread = t
    /\ \E result \in {"ok", "error", "panic"}, state \in {State[inside.op], instances[inside.name]} :
          /\ result = "ok" => state = State[inside.op]
          /\ instances' = [instances EXCEPT ![inside.name] = state]
          /\ SetStatus(inside.name, IF result = "ok" THEN Status[inside.op] ELSE "Failed")
          /\ fresh' = IF result = "ok" /\ inside.op = "load" THEN fresh \ {inside.name} ELSE fresh
    /\ inside' = None

Next ==
    \/ \E n \in Names, v \in Versions : \E s \in {n, None} : install(n, v, <<s, v>>)
    \/ \E n \in Names : register_instance(n)
    \/ \E t \in Threads, n \in Names : \E op \in {"load", "unload"} : Enter(t, op, n)
    \/ \E t \in Threads : Leave(t)
Spec == Init /\ [][Next]_vars

--------------------------------------------------------------------------------
(* What list shows can be relied on: a plugin shown as unloaded is not running,
   and one shown as loaded is, unless another instance took its place since. *)
StatusTrue ==
    \A n \in Names :
        records[n] # None /\ instances[n] # None =>
            /\ records[n].status = "Unloaded" => instances[n] = "idle"
            /\ records[n].status = "Loaded" => instances[n] = "loaded" \/ n \in fresh
================================================================================
