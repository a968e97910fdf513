-------------------------------- MODULE Memory --------------------------------
(***************************************************************************)
(* The shared memory of openhawk-memory behind its two tool interfaces,    *)
(* MCP and A2A: agents store and query entries of the global scope, of     *)
(* sessions and of agents, and sessions are archived when they end.        *)
(***************************************************************************)
EXTENDS MemoryStore, FiniteSets

CONSTANTS
    SessionIds, AgentIds,
    KeyNames         \* keys, as sequences of parts

VARIABLES
    st,              \* the store both interfaces share
    stored,          \* history: (scope, key) pairs that were stored
    closed           \* history: sessions archived and not stored in since

vars == <<st, stored, closed>>

Scopes == {Global} \cup {Session(id) : id \in SessionIds} \cup {Agent(a) : a \in AgentIds}

Init == st = NewStore /\ stored = {} /\ closed = {}

--------------------------------------------------------------------------------
(* Requests: fields may be missing, the key <<>> among them, or not readable. *)
Missing == [kind |-> "missing", id |-> <<>>]
Unknown == [kind |-> "unknown", id |-> <<>>]
StoreRequests == [scope : Scopes \cup {Missing, Unknown}, key : KeyNames \cup {<<>>}, value : {"text", "missing"}]

parse_scope(req) == IF req.scope = Missing THEN Global ELSE req.scope
Valid(req) == req.scope # Unknown /\ req.key # <<>> /\ req.value = "text"

Store(req) ==
    LET scope == parse_scope(req)
    IN  IF Valid(req)
        THEN /\ st' = store(st, scope, req.key, req.value)
             /\ stored' = stored \cup {<<scope, req.key>>}
             /\ closed' = closed \ {id \in SessionIds : starts_with(composite_key(scope, req.key), prefix(Session(id)))}
        ELSE UNCHANGED vars

mcp_store(req) == Store(req)
a2a_store(req) == Store(req)

(* What memory_query and query may answer: one of the entries, or not found. *)
mcp_query(key) == query(st, key)
a2a_query(key) == query(st, key)

ArchiveSession(id) ==
    /\ st' = archive_session(st, id)
    /\ closed' = closed \cup {id}
    /\ UNCHANGED stored

Next ==
    \/ \E req \in StoreRequests : mcp_store(req) \/ a2a_store(req)
    \/ \E id \in SessionIds : ArchiveSession(id)
Spec == Init /\ [][Next]_vars

--------------------------------------------------------------------------------
(* Properties *)

Live == {st.entries[k] : k \in DOMAIN st.entries}
Kept == Live \cup {st.archive[k] : k \in DOMAIN st.archive}
Rank == [agent |-> 1, session |-> 2, global |-> 3]

(* "agent scope (any agent), session scope (any session), global": an answer is
   of the first of these scopes that has the key, or of an earlier one, and the
   string of its scope and key, colons and all, ends with the key asked for. *)
ScopeOrder ==
    \A key \in KeyNames : \A e \in mcp_query(key) :
        /\ \A f \in Live : f.key = key => Rank[e.scope.kind] <= Rank[f.scope.kind]
        /\ ends_with(composite_key(e.scope, e.key), key)

(* A key that an agent can store is found again as long as its scope lives, and
   its entry is lost only to one of another scope whose name and key read the
   same, colons and all. *)
NothingLost ==
    /\ \A p \in stored : \/ \E e \in Kept : e.scope = p[1] /\ e.key = p[2]
                         \/ \E q \in stored \ {p} : composite_key(q[1], q[2]) = composite_key(p[1], p[2])
    /\ \A e \in Live : mcp_query(e.key) # {}

(* Nothing of an archived session is found again, and it is all in the archive. *)
ArchiveComplete ==
    \A id \in closed :
        /\ \A e \in Live : e.scope # Session(id)
        /\ \A p \in stored : p[1] = Session(id) =>
              \E e \in archived_entries(st, id) : composite_key(e.scope, e.key) = composite_key(p[1], p[2])
================================================================================
