------------------------------- MODULE Manifest -------------------------------
(***************************************************************************)
(* The agent manifest of openhawk-core: reading, defaults, validation and  *)
(* writing.  A document has, for each field, None where it is missing.     *)
(***************************************************************************)
EXTENDS Naturals

CONSTANTS None

VARIABLES doc, manifest      \* a document, and the manifest it holds, as a set of at most one

vars == <<doc, manifest>>

(* AgentInfo (a blank name is an empty one), Resources (no field of a section that is there may be missing),
   one endpoint of Permissions, and the privacy of LlmConfig.  cpu_percent has
   eight bits. *)
Texts == {"", "name"}
Cpu == {0, 1, 100, 101, 255, 256}
Limits == {"zero", "one"}
Endpoints == {"none", "http://host/*", "https://", "ftp://host"}
Privacy == {"", "cloud", "local-only", "other"}

Documents ==
    [name : Texts \cup {None}, version : Texts \cup {None}, cpu : Cpu \cup {None},
     memory : Limits \cup {None}, fds : Limits \cup {None},
     endpoint : Endpoints, privacy : Privacy \cup {None}]

Resources == <<25, "one", "one">>
Stated(d) == <<d.cpu, d.memory, d.fds>>
Given(d) == \E i \in 1..3 : Stated(d)[i] # None

(* from_str, with the default of what is missing. *)
Readable(d) ==
    /\ d.name # None /\ d.version # None
    /\ Given(d) => (\A i \in 1..3 : Stated(d)[i] # None) /\ d.cpu <= 255

Defaulted(d) ==
    [name |-> d.name, version |-> d.version, endpoint |-> d.endpoint,
     resources |-> IF Given(d) THEN Stated(d) ELSE Resources,
     privacy |-> IF d.privacy = None THEN "" ELSE d.privacy]

(* The wildcards and slashes at the end are cut off first: what is left of
   "https://" is no endpoint. *)
validate_network_endpoint(e) == e \in {"none", "http://host/*"}

validate(m) ==
    /\ m.name # "" /\ m.version # ""
    /\ m.resources[1] \in 1..100 /\ m.resources[2] # "zero" /\ m.resources[3] # "zero"
    /\ validate_network_endpoint(m.endpoint)
    /\ m.privacy \in {"", "cloud", "local-only"}

parse(d) == IF Readable(d) /\ validate(Defaulted(d)) THEN {Defaulted(d)} ELSE {}

FieldsOf(m) ==
    [name |-> m.name, version |-> m.version, endpoint |-> m.endpoint, privacy |-> m.privacy,
     cpu |-> m.resources[1], memory |-> m.resources[2], fds |-> m.resources[3]]

(* Mutant: a limit that is the default is not written. *)
to_toml_Partial(m) == {[FieldsOf(m) EXCEPT !.fds = IF @ = Resources[3] THEN None ELSE @]}

to_toml(m) == {FieldsOf(m)}

Init == doc = None /\ manifest = {}
Next == doc = None /\ \E d \in Documents : doc' = d /\ manifest' = parse(d)
Spec == Init /\ [][Next]_vars

(* A manifest that is accepted is written to a document that is accepted too and
   says the same, with every default it took spelled out. *)
WrittenBack == \A m \in manifest : \A d \in to_toml(m) : parse(d) = {m}
================================================================================
