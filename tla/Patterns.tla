------------------------------- MODULE Patterns -------------------------------
(***************************************************************************)
(* The pattern detector of openhawk-core: sequences that repeat in the log *)
(* of a process become rows of a table that all processes share, which the *)
(* user accepts or declines.  A row is looked up and written in two steps; *)
(* a look-up that fails is taken for one that found nothing.               *)
(***************************************************************************)
EXTENDS Naturals, Sequences, FiniteSets, Functions

CONSTANTS
    Detectors,
    Trace,           \* detector -> the actions its process records, in order
    MaxId,           \* bound: rows that are ever inserted
    None

VARIABLES
    patterns,        \* id -> [action_sequence, occurrence_count, status, expired]
    action_log,      \* detector -> how much of its trace it has recorded
    todo,            \* detector -> pairs (sequence, count) still to be upserted
    existing,        \* detector -> the id found for its current pair: {} before, {None} or {id} after
    ids,             \* ids given out
    decision,        \* history: id -> the user's last word on the row, None once it was taken back
    raced            \* history: sequences that two processes upserted at once, or that have a
                     \* row which a failing look-up passed over

vars == <<patterns, action_log, todo, existing, ids, decision, raced>>

Log(d) == SubSeq(Trace[d], 1, action_log[d])
Windows(log, size) == {SubSeq(log, i + 1, i + size) : i \in 0..(Len(log) - size)}
Count(log, seq) == Cardinality({i \in 0..(Len(log) - Len(seq)) : SubSeq(log, i + 1, i + Len(seq)) = seq})
Sequences == UNION {UNION {Windows(Trace[d], size) : size \in 3..Len(Trace[d])} : d \in Detectors}

Init ==
    /\ patterns = [i \in {} |-> None] /\ ids = 0
    /\ action_log = [d \in Detectors |-> 0] /\ todo = [d \in Detectors |-> <<>>] /\ existing = [d \in Detectors |-> {}]
    /\ decision = [i \in 1 .. MaxId |-> None] /\ raced = {}

--------------------------------------------------------------------------------
RecordAction(d) ==
    /\ todo[d] = <<>> /\ action_log[d] < Len(Trace[d])
    /\ action_log' = [action_log EXCEPT ![d] = @ + 1]
    /\ UNCHANGED <<patterns, todo, existing, ids, decision, raced>>

(* is_subsequence: a shorter sequence has no window as long as a longer one, so
   that nothing that was found before covers what is found in a longer window. *)
is_subsequence(needle, haystack) == Len(needle) <= Len(haystack) /\ needle \in Windows(haystack, Len(needle))

(* One window size after another; the sequences of one size come in any order. *)
Found(log, size) == {<<seq, Count(log, seq)>> : seq \in {s \in Windows(log, size) : Count(log, s) >= 5}}
DetectPatterns(d) ==
    /\ todo[d] = <<>>
    /\ LET sized(k) == Found(Log(d), k)
           pairs == UNION {sized(k) : k \in 3..Len(Log(d))}
           kept == {p \in pairs : ~\E q \in pairs : q # p /\ Len(q[1]) <= Len(p[1]) /\ q[2] >= p[2] /\ is_subsequence(p[1], q[1])}
       IN  \E order \in Bijection(1 .. Cardinality(kept), kept) :
              /\ \A i, j \in DOMAIN order : i < j => Len(order[i][1]) <= Len(order[j][1])
              /\ todo' = [todo EXCEPT ![d] = order]
    /\ UNCHANGED <<patterns, action_log, existing, ids, decision, raced>>

Rows(seq) == {i \in DOMAIN patterns : patterns[i].action_sequence = seq}

Racing(d, seq) == \E e \in Detectors \ {d} : existing[e] # {} /\ Head(todo[e])[1] = seq

(* Mutant: WHERE status = 'Detected'. *)
Select_Open(d) ==
    /\ todo[d] # <<>> /\ existing[d] = {}
    /\ LET seq == Head(todo[d])[1]
           open == {i \in Rows(seq) : patterns[i].status = "Detected"}
       IN  \E found \in {None} \cup open :
              /\ found = None => open = {}
              /\ existing' = [existing EXCEPT ![d] = {found}]
              /\ raced' = IF Racing(d, seq) THEN raced \cup {seq} ELSE raced
    /\ UNCHANGED <<patterns, action_log, todo, ids, decision>>

(* upsert_pattern: SELECT id, of whichever row; .ok() makes an error a None. *)
Select(d) ==
    /\ todo[d] # <<>> /\ existing[d] = {}
    /\ LET seq == Head(todo[d])[1]
       IN  \E found \in {None} \cup Rows(seq) :
              /\ existing' = [existing EXCEPT ![d] = {found}]
              /\ raced' = IF Racing(d, seq) \/ (found = None /\ Rows(seq) # {}) THEN raced \cup {seq} ELSE raced
    /\ UNCHANGED <<patterns, action_log, todo, ids, decision>>

(* Mutant: an update makes the pattern a detected one again. *)
Write_Detected(d) ==
    /\ existing[d] # {}
    /\ LET seq == Head(todo[d])[1]
           count == Head(todo[d])[2]
       IN  \/ /\ existing[d] = {None} /\ ids < MaxId
              /\ ids' = ids + 1
              /\ patterns' = [i \in DOMAIN patterns \cup {ids'} |->
                    IF i = ids' THEN [action_sequence |-> seq, occurrence_count |-> count, status |-> "Detected", expired |-> FALSE]
                    ELSE patterns[i]]
           \/ /\ existing[d] # {None}
              /\ patterns' = [i \in DOMAIN patterns |->
                    IF i \in existing[d] THEN [patterns[i] EXCEPT !.occurrence_count = count, !.status = "Detected"] ELSE patterns[i]]
              /\ UNCHANGED ids
    /\ todo' = [todo EXCEPT ![d] = Tail(@)] /\ existing' = [existing EXCEPT ![d] = {}]
    /\ UNCHANGED <<action_log, decision, raced>>

(* INSERT, or UPDATE of the count: of the date it expires nothing is said. *)
Write(d) ==
    /\ existing[d] # {}
    /\ LET seq == Head(todo[d])[1]
           count == Head(todo[d])[2]
       IN  \/ /\ existing[d] = {None} /\ ids < MaxId
              /\ ids' = ids + 1
              /\ patterns' = [i \in DOMAIN patterns \cup {ids'} |->
                    IF i = ids' THEN [action_sequence |-> seq, occurrence_count |-> count, status |-> "Detected", expired |-> FALSE]
                    ELSE patterns[i]]
           \/ /\ existing[d] # {None}
              /\ patterns' = [i \in DOMAIN patterns |->
                    IF i \in existing[d] THEN [patterns[i] EXCEPT !.occurrence_count = count] ELSE patterns[i]]
              /\ UNCHANGED ids
    /\ todo' = [todo EXCEPT ![d] = Tail(@)] /\ existing' = [existing EXCEPT ![d] = {}]
    /\ UNCHANGED <<action_log, decision, raced>>

(* Either statement fails: the pattern is reported under an id that no row has. *)
WriteFails(d) ==
    /\ existing[d] # {}
    /\ todo' = [todo EXCEPT ![d] = Tail(@)] /\ existing' = [existing EXCEPT ![d] = {}]
    /\ UNCHANGED <<patterns, action_log, ids, decision, raced>>

(* accept_pattern, decline_pattern *)
Decide(id, status) ==
    /\ patterns' = [patterns EXCEPT ![id].status = status]
    /\ decision' = [decision EXCEPT ![id] = status]
    /\ UNCHANGED <<action_log, todo, existing, ids, raced>>

reset_declined ==
    /\ patterns' = [i \in DOMAIN patterns |-> [patterns[i] EXCEPT !.status = IF @ = "Declined" THEN "Detected" ELSE @]]
    /\ decision' = [i \in DOMAIN decision |-> IF decision[i] = "Declined" THEN None ELSE decision[i]]
    /\ UNCHANGED <<action_log, todo, existing, ids, raced>>

(* retention_days go by for a row. *)
Expire(id) ==
    /\ ~patterns[id].expired
    /\ patterns' = [patterns EXCEPT ![id].expired = TRUE]
    /\ UNCHANGED <<action_log, todo, existing, ids, decision, raced>>

cleanup_expired ==
    /\ patterns' = Restrict(patterns, {i \in DOMAIN patterns : ~patterns[i].expired})
    /\ UNCHANGED <<action_log, todo, existing, ids, decision, raced>>

Next ==
    \/ \E d \in Detectors : RecordAction(d) \/ DetectPatterns(d) \/ Select(d) \/ Write(d) \/ WriteFails(d)
    \/ \E id \in DOMAIN patterns : Expire(id) \/ \E s \in {"Accepted", "Declined"} : Decide(id, s)
    \/ reset_declined \/ cleanup_expired
Spec == Init /\ [][Next]_vars

--------------------------------------------------------------------------------
(* The user is asked once: what was accepted or declined stays so in its row,
   however often the sequence is detected again, until it is reset or the row goes;
   and a sequence has one row, unless two processes upserted it at once or a
   look-up failed that there was a row for. *)
DecisionStays ==
    /\ \A i \in DOMAIN patterns :
          patterns[i].status = IF decision[i] = None THEN "Detected" ELSE decision[i]
    /\ \A s \in Sequences \ raced : Cardinality(Rows(s)) <= 1

(* A row tells of a sequence that some process has recorded as often as it says. *)
CountsTrue ==
    \A i \in DOMAIN patterns :
        \E d \in Detectors : Count(Log(d), patterns[i].action_sequence) >= patterns[i].occurrence_count /\ patterns[i].occurrence_count >= 5
================================================================================
