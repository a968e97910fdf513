----------------------------- MODULE MemoryStore -----------------------------
(***************************************************************************)
(* InMemoryStore of openhawk-memory, as operators on its state.            *)
(*                                                                         *)
(* The store is one table of strings "scope:key".  A name is the sequence  *)
(* of its parts between colons, so that a key or the name of a session may *)
(* have a colon in it, and a string is the sequence of all of its parts.   *)
(***************************************************************************)
EXTENDS Naturals, Sequences, Functions

CONSTANTS None

NoEntries == [k \in {} |-> None]
NewStore == [entries |-> NoEntries, archive |-> NoEntries]

Global == [kind |-> "global", id |-> <<>>]
Session(id) == [kind |-> "session", id |-> id]
Agent(pid) == [kind |-> "agent", id |-> <<pid>>]

prefix(scope) == <<scope.kind>> \o scope.id
composite_key(scope, key) == prefix(scope) \o key

Put(table, k, e) == [j \in DOMAIN table \cup {k} |-> IF j = k THEN e ELSE table[j]]

store(st, scope, key, value) ==
    [st EXCEPT !.entries = Put(@, composite_key(scope, key),
                               [key |-> key, scope |-> scope, value |-> value])]

(* Of strings, with the colon between: there is more of k than p or s. *)
starts_with(k, p) == Len(k) > Len(p) /\ SubSeq(k, 1, Len(p)) = p
ends_with(k, s) == Len(k) > Len(s) /\ SubSeq(k, Len(k) - Len(s) + 1, Len(k)) = s

Candidates(st, kind, key) == {k \in DOMAIN st.entries : k[1] = kind /\ ends_with(k, key)}

(* Mutant: the sessions come first. *)
query_SessionFirst(st, key) ==
    LET of(kind) == {st.entries[k] : k \in Candidates(st, kind, key)}
        global == {st.entries[k] : k \in {composite_key(Global, key)} \cap DOMAIN st.entries}
    IN  IF of("session") # {} THEN of("session")
        ELSE IF of("agent") # {} THEN of("agent")
        ELSE global

(* The entries query may return: the table is walked in no order. *)
query(st, key) ==
    LET of(kind) == {st.entries[k] : k \in Candidates(st, kind, key)}
        global == {st.entries[k] : k \in {composite_key(Global, key)} \cap DOMAIN st.entries}
    IN  IF of("agent") # {} THEN of("agent")
        ELSE IF of("session") # {} THEN of("session")
        ELSE global

InSession(table, id) == {k \in DOMAIN table : starts_with(k, prefix(Session(id)))}

archive_session(st, id) ==
    LET gone == InSession(st.entries, id)
    IN  [entries |-> Restrict(st.entries, DOMAIN st.entries \ gone),
         archive |-> [k \in DOMAIN st.archive \cup gone |->
                         IF k \in gone THEN st.entries[k] ELSE st.archive[k]]]

archived_entries(st, id) == {st.archive[k] : k \in InSession(st.archive, id)}
================================================================================
