------------------------------ MODULE AuraMemory ------------------------------
(***************************************************************************)
(* AuraMemoryStore of openhawk-memory: scoped entries go to the Aura       *)
(* daemon, when it is there, and to the store of this process; plain keys  *)
(* go to one of the two.  Aura comes and goes, and each of its commands    *)
(* may fail; it takes texts, and what it prints of one is trimmed.         *)
(***************************************************************************)
EXTENDS MemoryStore

CONSTANTS
    KeyNames, Scopes,
    Values,              \* the bytes of a value
    from_utf8_lossy,     \* to the text that comes nearest to them
    trim,                \* of a text
    MaxWrites            \* bound: calls that write

VARIABLES
    aura,            \* what the daemon keeps: strings to values
    local,           \* the fallback of this process
    up,              \* whether the aura command works
    last,            \* history: the value last written to (global, key)
    behind,          \* history: keys of which Aura has missed a write or got a foreign one
    writes

vars == <<aura, local, up, last, behind, writes>>

Init ==
    /\ aura = NoEntries /\ local = NewStore /\ up = TRUE
    /\ last = [k \in KeyNames |-> None] /\ behind = {} /\ writes = 0

(* Each call tries the command anew. *)
aura_available == up

Write == writes < MaxWrites /\ writes' = writes + 1 /\ UNCHANGED up

--------------------------------------------------------------------------------
(* The commands: what add leaves, what get and ls answer with, and rm.  None is the
   answer of a get that fails or prints a blank, and no entry that of such an ls. *)
aura_memory_add(key, value, works) == aura' = IF works THEN Put(aura, key, value) ELSE aura

(* Mutant: a blank is an answer. *)
aura_memory_get_Blank(key, works) ==
    IF works THEN {trim[aura[k]] : k \in {key} \cap DOMAIN aura} ELSE {}

aura_memory_get(key, works) ==
    IF works THEN {trim[aura[k]] : k \in {key} \cap DOMAIN aura} \ {""} ELSE {}
aura_memory_ls(works) == IF works THEN {<<k, aura[k]>> : k \in DOMAIN aura} ELSE {}
aura_memory_rm(key, works) ==
    aura' = IF works THEN Restrict(aura, DOMAIN aura \ {key}) ELSE aura

Foreign(key) == {k \in KeyNames : composite_key(Global, k) = key}
Missed(key) == {key} \cap {k \in KeyNames : composite_key(Global, k) \in DOMAIN aura}

(* The value of (global, key) in this process alone. *)
Locally(key, value) ==
    /\ local' = store(local, Global, key, value)
    /\ last' = [last EXCEPT ![key] = value]
    /\ behind' = behind \cup Missed(key)
    /\ UNCHANGED aura

store_kv(key, value) ==
    /\ Write
    /\ \/ ~aura_available /\ Locally(key, value)
       \/ /\ aura_available
          /\ \E works \in BOOLEAN : aura_memory_add(key, value, works)
          /\ behind' = behind \cup Foreign(key)
          /\ UNCHANGED <<local, last>>

(* Without Aura a removed key stays, with an empty value. *)
remove(key) ==
    /\ Write
    /\ \/ ~aura_available /\ Locally(key, "")
       \/ /\ aura_available
          /\ \E works \in BOOLEAN : aura_memory_rm(key, works)
          /\ UNCHANGED <<local, last, behind>>

(* Mutant: what Aura has taken is not kept here as well. *)
aura_store_Delegates(scope, key, value) ==
    /\ Write
    /\ \E works \in BOOLEAN :
          /\ aura_memory_add(composite_key(scope, key), from_utf8_lossy[value], aura_available /\ works)
          /\ local' = IF aura_available /\ works THEN local ELSE store(local, scope, key, value)
          /\ behind' = IF scope # Global THEN behind ELSE IF aura_available /\ works THEN behind \ {key} ELSE behind \cup Missed(key)
    /\ last' = IF scope = Global THEN [last EXCEPT ![key] = value] ELSE last

(* store: whether Aura took it makes no difference to the caller. *)
aura_store(scope, key, value) ==
    /\ Write
    /\ \E works \in BOOLEAN :
          /\ aura_memory_add(composite_key(scope, key), from_utf8_lossy[value], aura_available /\ works)
          /\ behind' = IF scope # Global THEN behind ELSE IF aura_available /\ works THEN behind \ {key} ELSE behind \cup Missed(key)
    /\ local' = store(local, scope, key, value)
    /\ last' = IF scope = Global THEN [last EXCEPT ![key] = value] ELSE last

aura_archive_session(id) ==
    /\ local' = archive_session(local, id)
    /\ UNCHANGED <<aura, up, last, behind, writes>>

(* aura_cli_available: the daemon is started or goes away. *)
Flip == up' = ~aura_available /\ UNCHANGED <<aura, local, last, behind, writes>>

Next ==
    \/ \E k \in KeyNames, v \in Values :
          store_kv(k, from_utf8_lossy[v]) \/ \E s \in Scopes : aura_store(s, k, v)
    \/ \E k \in KeyNames : remove(k)
    \/ \E s \in Scopes : s.kind = "session" /\ aura_archive_session(s.id)
    \/ Flip
Spec == Init /\ [][Next]_vars

--------------------------------------------------------------------------------
(* What the calls that only read answer, when Aura's command works and when not. *)
Fallback(key) == {e.value : e \in query(local, key)}
get_kv(key, works) ==
    IF aura_available THEN aura_memory_get(key, works)
    ELSE {from_utf8_lossy[value] : value \in Fallback(key)}
list(works) ==
    IF aura_available THEN aura_memory_ls(works)
    ELSE {<<local.entries[k].key, from_utf8_lossy[local.entries[k].value]>> : k \in DOMAIN local.entries}
aura_query(key, works) ==
    LET shared == aura_memory_get(composite_key(Global, key), works)
    IN  IF aura_available /\ shared # {} THEN shared ELSE Fallback(key)

(* A key stored in the global scope alone is answered with the bytes stored last,
   whatever Aura and its commands do, or by Aura with their text, trimmed, if that
   leaves anything, as long as Aura did not miss a write of a key that it has:
   that one value it keeps, and query prefers it. *)
Fresh ==
    \A k \in KeyNames :
        LET text == trim[from_utf8_lossy[last[k]]]
        IN  last[k] # None /\ k \notin behind /\ Candidates(local, "agent", k) = {} /\ Candidates(local, "session", k) = {}
              => \A works \in BOOLEAN :
                    \/ aura_query(k, works) = {last[k]}
                    \/ aura_available /\ works /\ text # "" /\ aura_query(k, works) = {text}

(* Every key that list shows, of Aura or of this process, has a value to be got
   from the same, unless it is a blank or Aura's get fails. *)
ListedFound ==
    \A works \in BOOLEAN : \A entry \in list(works) :
        trim[entry[2]] # "" => get_kv(entry[1], TRUE) # {}
================================================================================
