------------------------------- MODULE Settings -------------------------------
(***************************************************************************)
(* The layered configuration of openhawk-core (config.rs, config_engine.rs)*)
(* and the daemon context that is built from it.                           *)
(*                                                                         *)
(* A file is missing, or a document: for each key, nothing, a string or a  *)
(* number.  Of the sections, those whose fields are all required are the   *)
(* ones that matter: core (two of its fields) and privacy.  Setting a key  *)
(* takes a process that loads the layers, reads the file again, truncates  *)
(* it and writes it.                                                       *)
(***************************************************************************)
EXTENDS Naturals, FiniteSets

CONSTANTS
    Setters,      \* processes that run "config set"
    MaxSets,      \* bound: calls of set
    None

Keys == {"log_level", "retention_days", "mode"}
Section == [log_level |-> "core", retention_days |-> "core", mode |-> "privacy"]
Scopes == {"global", "project"}

(* A scalar of a document: "bad" stands for the strings that are not valid. *)
Text(v) == [type |-> "string", val |-> v]
Number(v) == [type |-> "number", val |-> v]
Inputs == [log_level |-> {"warn"}, retention_days |-> {"7"}, mode |-> {"standard", "air-gapped", "bad"}]

Empty == [k \in Keys |-> None]
Written == [log_level |-> Text("info"), retention_days |-> Number("30"), mode |-> Text("standard")]

VARIABLES
    file,        \* scope -> the document, or None where there is no file
    call,        \* setter -> the set it is in
    context,     \* the daemon: None before it starts, or the configuration it took
    sets,        \* bound: number of calls
    asked,       \* history: the mode last written by a set that has returned, or None
    clash,       \* history: two sets overlapped, or one died in its write
    broken       \* history: a set of a number, of an invalid mode, or of core alone, returned

vars == <<file, call, context, sets, asked, clash, broken>>

NoCall == [pc |-> "idle", scope |-> None, key |-> None, val |-> None, doc |-> Empty]

--------------------------------------------------------------------------------
(* parse, validate *)

Default == [log_level |-> "info", retention_days |-> "30", mode |-> "standard"]
Types == [log_level |-> "string", retention_days |-> "number", mode |-> "string"]

(* serde: a section that is there has all its fields, each of its type. *)
WellFormed(doc) ==
    \A k \in Keys :
        /\ doc[k] # None => doc[k].type = Types[k]
        /\ (\E j \in Keys : Section[j] = Section[k] /\ doc[j] # None) => doc[k] # None

validate(doc) == \A k \in Keys : doc[k] # None => doc[k].val # "bad"

Parses(doc) == WellFormed(doc) /\ validate(doc)
parse(doc) == [k \in Keys |-> IF doc[k] = None THEN Default[k] ELSE doc[k].val]

(* LayeredConfig::load: the layers that have a file; an error when one does not parse. *)
load_optional(scope) == file[scope] # None => Parses(file[scope])
load(scopes) == \A scope \in scopes : load_optional(scope)

(* A layer that is there has a value for every key, its own or the default. *)
get_effective(k) ==
    IF file["project"] # None THEN parse(file["project"])[k]
    ELSE IF file["global"] # None THEN parse(file["global"])[k] ELSE None

(* The providers of the project are merged, nothing else: the rest is global. *)
merged == IF file["global"] = None THEN Default ELSE parse(file["global"])

--------------------------------------------------------------------------------
Init ==
    /\ file = [s \in Scopes |-> None]
    /\ call = [w \in Setters |-> NoCall]
    /\ context = None /\ sets = 0 /\ asked = None /\ clash = FALSE /\ broken = FALSE

At(w, pc) == call[w].pc = pc
Busy == {w \in Setters : ~At(w, "idle")}
UnchangedHistory == UNCHANGED <<asked, broken>>

(* The user writes a whole file by hand. *)
Edit(scope) ==
    /\ Busy = {}
    /\ file' = [file EXCEPT ![scope] = Written]
    /\ asked' = IF scope = "global" THEN "standard" ELSE asked
    /\ broken' = (broken /\ \E s \in Scopes \ {scope} : ~load_optional(s))
    /\ UNCHANGED <<call, context, sets, clash>>

(* openhawk config set: the layers are loaded first, and the command ends if
   one does not parse. *)
SetLoad(w, scope, k, v) ==
    /\ At(w, "idle") /\ sets < MaxSets
    /\ load({"global"} \cup {scope})
    /\ call' = [call EXCEPT ![w] = [NoCall EXCEPT !.pc = "read", !.scope = scope, !.key = k, !.val = v]]
    /\ sets' = sets + 1 /\ clash' = (clash \/ Busy # {})
    /\ UNCHANGED <<file, context>> /\ UnchangedHistory

(* load_toml_document *)
SetRead(w) ==
    /\ At(w, "read")
    /\ call' = [call EXCEPT ![w].pc = "truncate",
                            ![w].doc = IF file[call[w].scope] = None THEN Empty ELSE file[call[w].scope]]
    /\ UNCHANGED <<file, context, sets, clash>> /\ UnchangedHistory

(* Mutant: the rest of the file is not kept. *)
apply_key_Fresh(doc, k, v) == [Empty EXCEPT ![k] = Text(v)]

(* Every value is written as a string. *)
apply_key(doc, k, v) == [doc EXCEPT ![k] = Text(v)]

(* fs::write *)
SetTruncate(w) ==
    /\ At(w, "truncate")
    /\ file' = [file EXCEPT ![call[w].scope] = Empty]
    /\ call' = [call EXCEPT ![w].pc = "write"]
    /\ UNCHANGED <<context, sets, clash>> /\ UnchangedHistory

SetWrite(w) ==
    LET c == call[w]
    IN  /\ At(w, "write")
        /\ file' = [file EXCEPT ![c.scope] = apply_key(c.doc, c.key, c.val)]
        /\ call' = [call EXCEPT ![w] = NoCall]
        /\ asked' = IF c.scope = "global" /\ c.key = "mode" THEN c.val ELSE asked
        /\ broken' = (\/ broken \/ c.key = "retention_days" \/ c.val = "bad"
                      \/ Section[c.key] = "core" /\ \A k \in Keys : Section[k] = "core" => c.doc[k] = None)
        /\ UNCHANGED <<context, sets, clash>>

(* The process dies, or the write fails, wherever it is. *)
SetDies(w) ==
    /\ ~At(w, "idle")
    /\ call' = [call EXCEPT ![w] = NoCall]
    /\ clash' = (clash \/ At(w, "write"))
    /\ UNCHANGED <<file, context, sets>> /\ UnchangedHistory

(* DaemonContext::initialize: the global layer as it is now. *)
initialize ==
    /\ context = None /\ load({"global"})
    /\ context' = merged
    /\ UNCHANGED <<file, call, sets, clash>> /\ UnchangedHistory
is_air_gapped == context # None /\ context.mode = "air-gapped"

DaemonEnds == context # None /\ context' = None /\ UNCHANGED <<file, call, sets, clash>> /\ UnchangedHistory

Next ==
    \/ \E w \in Setters :
          \/ \E scope \in Scopes, k \in Keys : \E v \in Inputs[k] : SetLoad(w, scope, k, v)
          \/ SetRead(w) \/ SetTruncate(w) \/ SetWrite(w) \/ SetDies(w)
    \/ \E scope \in Scopes : Edit(scope)
    \/ initialize \/ DaemonEnds

Spec == Init /\ [][Next]_vars

--------------------------------------------------------------------------------
(* Properties *)

(* A file stops loading, and with it every later "config" command and the
   daemon, only because a set that reported success wrote something the parser
   refuses: a number, which is written as a string, an invalid value, which is
   not checked, or the first field of a section that needs the others. *)
LoadsUnlessSet ==
    ~broken /\ ~clash /\ Busy = {} => load(Scopes)

(* The mode that was set is the mode a daemon starts in, and nothing else changes
   it: no set of another key, and no layer of a project, loses it, unless sets
   overlapped or one died in its write. *)
ModeKept ==
    ~clash /\ (\A w \in Setters : ~At(w, "write")) /\ load({"global"}) =>
        /\ asked # None => merged.mode = asked
        /\ asked = None => merged.mode = "standard"
================================================================================
