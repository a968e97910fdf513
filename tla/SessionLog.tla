------------------------------- MODULE SessionLog -------------------------------
(***************************************************************************)
(* The session log of openhawk-core: the table session_actions, which      *)
(* every recorder (a SessionRecorder with a connection of its own) extends *)
(* and which replay reads.                                                 *)
(*                                                                         *)
(* record_action is three steps without a transaction: it reads the last   *)
(* step number of the session, takes the time, and inserts the row.        *)
(* Cleaning up deletes the rows that are too old, whatever the recorders   *)
(* are doing.  The clock is taken never to go back.                        *)
(***************************************************************************)
EXTENDS Naturals, FiniteSets

CONSTANTS
    Recorders, Sessions,
    Retentions,    \* retention periods cleanup_old_sessions is called with
    MaxSteps,      \* bound: step numbers
    MaxTime,       \* bound: the clock
    None

ASSUME RetentionAssumption == Retentions \subseteq Nat
ASSUME StepAssumption == MaxSteps \in Nat
ASSUME TimeAssumption == MaxTime \in Nat

VARIABLES
    now,
    rows,     \* the table: session, step_number and timestamp of each action
    op,       \* recorder -> the record_action it is in
    raced     \* history: a clean-up has run while an action was being recorded

vars == <<now, rows, op, raced>>

Row == [session : Sessions, step : Nat, time : Nat]
NoCall == [pc |-> "idle", session |-> None, step |-> 0, time |-> 0]

Init == now = 0 /\ rows = {} /\ op = [r \in Recorders |-> NoCall] /\ raced = FALSE

Log(s) == {a \in rows : a.session = s}
At(r, pc) == op[r].pc = pc

--------------------------------------------------------------------------------
(* record_action *)

(* Mutant: the number of rows + 1. *)
IsNext_Count(s, n) == n = Cardinality(Log(s)) + 1

(* Mutant: the greatest number of all sessions. *)
IsNext_Global(s, n) ==
    \/ n = 1 /\ rows = {}
    \/ \E a \in rows : n = a.step + 1 /\ \A b \in rows : b.step <= a.step

(* COALESCE(MAX(step_number), 0) + 1 *)
IsNext(s, n) ==
    \/ n = 1 /\ Log(s) = {}
    \/ \E a \in Log(s) : n = a.step + 1 /\ \A b \in Log(s) : b.step <= a.step

Select(r, s, n) ==
    /\ At(r, "idle")
    /\ n <= MaxSteps /\ IsNext(s, n)
    /\ op' = [op EXCEPT ![r] = [pc |-> "stamp", session |-> s, step |-> n, time |-> 0]]
    /\ UNCHANGED <<now, rows, raced>>

(* Utc::now() *)
Stamp(r) ==
    /\ At(r, "stamp")
    /\ op' = [op EXCEPT ![r].pc = "insert", ![r].time = now]
    /\ UNCHANGED <<now, rows, raced>>

Entry(r) == [session |-> op[r].session, step |-> op[r].step, time |-> op[r].time]
Taken(r) == \E a \in Log(op[r].session) : a.step = op[r].step

(* Mutant: INSERT OR REPLACE. *)
Insert_Replaces(r) ==
    /\ At(r, "insert")
    /\ rows' = {a \in rows : ~(a.session = op[r].session /\ a.step = op[r].step)} \cup {Entry(r)}
    /\ op' = [op EXCEPT ![r] = NoCall]
    /\ UNCHANGED <<now, raced>>

(* Mutant: the table has no UNIQUE(session_id, step_number). *)
Insert_Twice(r) ==
    /\ At(r, "insert")
    /\ rows' = rows \cup {Entry(r)}
    /\ op' = [op EXCEPT ![r] = NoCall]
    /\ UNCHANGED <<now, raced>>

(* UNIQUE(session_id, step_number): the second of two recorders with the same
   number gets an error, and its action is not recorded. *)
Insert(r) ==
    /\ At(r, "insert")
    /\ rows' = IF Taken(r) THEN rows ELSE rows \cup {Entry(r)}
    /\ op' = [op EXCEPT ![r] = NoCall]
    /\ UNCHANGED <<now, raced>>

(* A statement fails, or the process dies: nothing is recorded. *)
Fail(r) ==
    /\ At(r, "stamp") \/ At(r, "insert")
    /\ op' = [op EXCEPT ![r] = NoCall]
    /\ UNCHANGED <<now, rows, raced>>

--------------------------------------------------------------------------------
(* cleanup_old_sessions *)

Recording == \E r \in Recorders : ~At(r, "idle")

Cleanup(days) ==
    /\ rows' = {a \in rows : a.time + days >= now}
    /\ raced' = (raced \/ Recording)
    /\ UNCHANGED <<now, op>>

Tick ==
    /\ now < MaxTime
    /\ now' = now + 1
    /\ UNCHANGED <<rows, op, raced>>

--------------------------------------------------------------------------------
Next ==
    \/ \E r \in Recorders :
          \/ \E s \in Sessions, n \in 1 .. MaxSteps : Select(r, s, n)
          \/ Stamp(r) \/ Insert(r) \/ Fail(r)
    \/ \E days \in Retentions : Cleanup(days)
    \/ Tick

Spec == Init /\ [][Next]_vars

--------------------------------------------------------------------------------
(* Properties *)

(* Every variable keeps its type, a recorder holds a session exactly while it
   records, and no two actions of a session have the same step number. *)
TypeOK ==
    /\ now \in Nat
    /\ rows \subseteq Row
    /\ op \in [Recorders -> [pc : {"idle", "stamp", "insert"}, session : Sessions \cup {None},
                             step : Nat, time : Nat]]
    /\ raced \in BOOLEAN
    /\ \A r \in Recorders : ~At(r, "idle") => op[r].session \in Sessions /\ op[r].step > 0
    /\ \A a, b \in rows : a.session = b.session /\ a.step = b.step => a = b

(* "get_log returns chronological order": the log is read by step number, and
   the times go the same way, with any number of recorders at work. *)
Chronological ==
    ~raced => \A a, b \in rows :
        a.session = b.session /\ a.step < b.step => a.time <= b.time

(* No step is missing between two that are there: neither a recorder that lost
   its number to another, nor one that failed, nor a clean-up leaves a hole. *)
GapFree ==
    ~raced => \A a, b \in rows :
        a.session = b.session =>
            \A n \in a.step .. b.step : \E c \in rows : c.session = a.session /\ c.step = n

(* The log of a session numbers its actions without a hole, as time goes. *)
Numbered == Chronological /\ GapFree

(* What replay shows stays as it is: an action that was recorded is neither
   changed nor removed before it is older than a period it was cleaned up by. *)
RowsKept ==
    [][\A a \in rows : a \in rows' \/ \E days \in Retentions : a.time + days < now]_vars

(* ... and a new action comes after all those of its session. *)
Appended ==
    [][~raced' => \A a \in rows' \ rows, b \in rows :
                      a.session = b.session => b.step < a.step]_vars

(* The log only grows at its end, and loses only what a clean-up may remove. *)
LogGrows == RowsKept /\ Appended
================================================================================
