---------------------------- MODULE SessionLogProofs ----------------------------
(***************************************************************************)
(* The properties of SessionLog, for any number of recorders, sessions and *)
(* retention periods.                                                      *)
(*                                                                         *)
(* Two recorders may hold the same number, and one may hold a number for   *)
(* long: what makes the log dense and ordered in time is that a recorder   *)
(* holds the successor of a number that is in the log, and a time no       *)
(* earlier than the action of that number.  A clean-up can take that       *)
(* action away, which is why the invariant stops at the first clean-up     *)
(* that meets a recording.                                                 *)
(***************************************************************************)
EXTENDS SessionLog, TLAPS

(* The number r holds follows one of the log, or is in it by now. *)
Follows(r) ==
    \/ op[r].step = 1 /\ Log(op[r].session) = {}
    \/ \E a \in Log(op[r].session) : op[r].step = a.step \/ op[r].step = a.step + 1

(* No action before that of r is later. *)
Later(r) ==
    \A a \in Log(op[r].session) : a.step < op[r].step => a.time <= op[r].time

(* Times are past, and numbers begin at one. *)
Past ==
    /\ \A a \in rows : a.step > 0 /\ a.time <= now
    /\ \A r \in Recorders : op[r].time <= now

InProgress ==
    ~raced => \A r \in Recorders : /\ ~At(r, "idle") => Follows(r)
                                   /\ At(r, "insert") => Later(r)

IInv == TypeOK /\ Past /\ InProgress /\ Chronological /\ GapFree

--------------------------------------------------------------------------------
(* Types *)

LEMMA InitInv ==
    ASSUME Init
    PROVE  IInv
<1>1. now = 0 /\ rows = {} /\ raced = FALSE /\ op = [r \in Recorders |-> NoCall]
  BY DEF Init
<1>2. \A r \in Recorders : op[r].pc = "idle" /\ op[r].time = 0
  BY <1>1 DEF NoCall
<1>3. op \in [Recorders -> [pc : {"idle", "stamp", "insert"}, session : Sessions \cup {None},
                            step : Nat, time : Nat]]
  BY <1>1 DEF NoCall
<1>4. TypeOK
  BY <1>1, <1>2, <1>3 DEF TypeOK, At
<1>5. Past
  BY <1>1, <1>2 DEF Past
<1>6. InProgress
  BY <1>2 DEF InProgress, At
<1>7. Chronological /\ GapFree
  BY <1>1 DEF Chronological, GapFree
<1> QED BY <1>4, <1>5, <1>6, <1>7 DEF IInv

LEMMA SelectType ==
    ASSUME TypeOK, NEW r \in Recorders, NEW s \in Sessions, NEW n \in 1 .. MaxSteps,
           Select(r, s, n)
    PROVE  TypeOK'
BY StepAssumption DEF TypeOK, Select, At, Row

LEMMA StampType ==
    ASSUME TypeOK, NEW r \in Recorders, Stamp(r)
    PROVE  TypeOK'
BY DEF TypeOK, Stamp, At, Row

LEMMA EntryType ==
    ASSUME TypeOK, NEW r \in Recorders, At(r, "insert")
    PROVE  Entry(r) \in Row /\ Entry(r).step > 0
BY DEF TypeOK, At, Entry, Row

LEMMA InsertType ==
    ASSUME TypeOK, NEW r \in Recorders, Insert(r)
    PROVE  TypeOK'
<1>1. op' \in [Recorders -> [pc : {"idle", "stamp", "insert"},
                             session : Sessions \cup {None}, step : Nat, time : Nat]]
  BY DEF TypeOK, Insert, NoCall
<1>2. \A q \in Recorders : ~At(q, "idle")' => op'[q].session \in Sessions /\ op'[q].step > 0
  BY DEF TypeOK, Insert, NoCall, At
<1>3. rows' \subseteq Row
  BY EntryType DEF TypeOK, Insert
<1>4. \A a, b \in rows' : a.session = b.session /\ a.step = b.step => a = b
  <2>1. CASE Taken(r)
    BY <2>1 DEF TypeOK, Insert
  <2>2. CASE ~Taken(r)
    <3>1. rows' = rows \cup {Entry(r)}
      BY <2>2 DEF Insert
    <3>2. \A a \in rows : ~(a.session = Entry(r).session /\ a.step = Entry(r).step)
      BY <2>2 DEF Taken, Log, Entry
    <3> QED BY <3>1, <3>2 DEF TypeOK
  <2> QED BY <2>1, <2>2
<1>5. now' \in Nat /\ raced' \in BOOLEAN
  BY DEF TypeOK, Insert
<1> QED BY <1>1, <1>2, <1>3, <1>4, <1>5 DEF TypeOK

LEMMA FailType ==
    ASSUME TypeOK, NEW r \in Recorders, Fail(r)
    PROVE  TypeOK'
BY DEF TypeOK, Fail, At, NoCall

LEMMA CleanupType ==
    ASSUME TypeOK, NEW days \in Retentions, Cleanup(days)
    PROVE  TypeOK'
<1>1. rows' \subseteq rows /\ UNCHANGED <<now, op>>
  BY DEF Cleanup
<1>2. raced' \in BOOLEAN
  BY DEF Cleanup, TypeOK
<1> QED BY <1>1, <1>2 DEF TypeOK, At

LEMMA TickType ==
    ASSUME TypeOK, Tick
    PROVE  TypeOK'
BY DEF TypeOK, Tick, At, Row

LEMMA StepType ==
    ASSUME TypeOK, [Next]_vars
    PROVE  TypeOK'
<1>1. CASE UNCHANGED vars
  BY <1>1 DEF TypeOK, vars, At
<1>2. CASE Next
  BY <1>2, SelectType, StampType, InsertType, FailType, CleanupType, TickType DEF Next
<1> QED BY <1>1, <1>2

(* The type invariant: recorders hold a session while they record, and no two
   actions of a session share a number. *)
THEOREM TypeCorrect == Spec => []TypeOK
<1>1. Init => TypeOK
  BY InitInv DEF IInv
<1>2. TypeOK /\ [Next]_vars => TypeOK'
  BY StepType
<1> QED BY <1>1, <1>2, PTL DEF Spec

--------------------------------------------------------------------------------
(* Recording: the log grows at its end *)

(* A number that is held and not taken is the next one. *)
LEMMA NextNumber ==
    ASSUME TypeOK, InProgress, GapFree, ~raced,
           NEW r \in Recorders, At(r, "insert"), ~Taken(r)
    PROVE  \A b \in Log(op[r].session) : b.step < op[r].step
<1> DEFINE s == op[r].session
           n == op[r].step
<1>1. n \in Nat /\ n > 0
  BY DEF TypeOK, At
<1>2. \A b \in Log(s) : b.step \in Nat /\ b.step # n
  BY DEF TypeOK, Taken, Log, Row
<1>3. Follows(r)
  BY DEF InProgress, At
<1>4. CASE Log(s) = {}
  BY <1>4
<1>5. CASE \E a \in Log(s) : n = a.step + 1
  <2>1. PICK a \in Log(s) : n = a.step + 1
    BY <1>5
  <2>2. SUFFICES ASSUME NEW b \in Log(s), ~(b.step < n)
                 PROVE  FALSE
    OBVIOUS
  <2>3. n \in a.step .. b.step
    BY <1>1, <1>2, <2>1, <2>2
  <2>4. a \in rows /\ b \in rows /\ a.session = b.session /\ a.session = s
    BY DEF Log
  <2>5. \A m \in a.step .. b.step : \E c \in rows : c.session = a.session /\ c.step = m
    BY <2>4 DEF GapFree
  <2>6. PICK c \in rows : c.session = a.session /\ c.step = n
    BY <2>3, <2>5
  <2> QED BY <1>2, <2>4, <2>6 DEF Log
<1> QED BY <1>2, <1>3, <1>4, <1>5 DEF Follows

(* What an Insert does to the log: nothing, or one more row at its end. *)
LEMMA InsertEffect ==
    ASSUME IInv, ~raced, NEW r \in Recorders, Insert(r), rows' # rows
    PROVE  /\ rows' = rows \cup {Entry(r)}
           /\ Entry(r) \in Row /\ Entry(r).step > 0 /\ Entry(r).time <= now
           /\ \A b \in rows : b.session = Entry(r).session =>
                 b.step < Entry(r).step /\ b.time <= Entry(r).time
           /\ \/ Entry(r).step = 1 /\ Log(Entry(r).session) = {}
              \/ \E a \in Log(Entry(r).session) : Entry(r).step = a.step + 1
<1>1. ~Taken(r) /\ rows' = rows \cup {Entry(r)} /\ At(r, "insert")
  BY DEF Insert
<1>2. Entry(r) \in Row /\ Entry(r).step > 0
  BY <1>1, EntryType DEF IInv
<1>3. Entry(r).session = op[r].session /\ Entry(r).step = op[r].step
        /\ Entry(r).time = op[r].time
  BY DEF Entry
<1>4. Entry(r).time <= now
  BY <1>3 DEF IInv, Past
<1>5. \A b \in Log(op[r].session) : b.step < op[r].step
  BY <1>1, NextNumber DEF IInv
<1>6. \A b \in Log(op[r].session) : b.time <= op[r].time
  BY <1>1, <1>5 DEF IInv, InProgress, Later
<1>7. Follows(r)
  BY <1>1 DEF IInv, InProgress, At
<1>8. \A a \in Log(op[r].session) : a.step # op[r].step
  BY <1>1 DEF Taken
<1>9. \/ op[r].step = 1 /\ Log(op[r].session) = {}
      \/ \E a \in Log(op[r].session) : op[r].step = a.step + 1
  BY <1>7, <1>8 DEF Follows
<1>10. \A b \in rows : b.session = Entry(r).session =>
           b.step < Entry(r).step /\ b.time <= Entry(r).time
  BY <1>3, <1>5, <1>6 DEF Log
<1> QED BY <1>1, <1>2, <1>3, <1>4, <1>9, <1>10

LEMMA InsertChronological ==
    ASSUME IInv, NEW r \in Recorders, Insert(r)
    PROVE  Chronological'
<1>1. CASE rows' = rows \/ raced
  BY <1>1 DEF IInv, Chronological, Insert
<1>2. CASE rows' # rows /\ ~raced
  <2>1. SUFFICES ASSUME NEW a \in rows', NEW b \in rows',
                        a.session = b.session, a.step < b.step
                 PROVE  a.time <= b.time
    BY DEF Chronological
  <2>2. rows \subseteq Row
    BY DEF IInv, TypeOK
  <2>3. rows' = rows \cup {Entry(r)} /\ Entry(r) \in Row
    BY <1>2, InsertEffect
  <2>4. \A c \in rows : c.session = Entry(r).session =>
            c.step < Entry(r).step /\ c.time <= Entry(r).time
    BY <1>2, InsertEffect
  <2>5. CASE a \in rows /\ b \in rows
    BY <1>2, <2>1, <2>5 DEF IInv, Chronological
  <2>6. CASE a \in rows /\ b = Entry(r)
    BY <2>1, <2>4, <2>6
  <2>7. CASE a = Entry(r)
    BY <2>1, <2>2, <2>3, <2>4, <2>7 DEF Row
  <2> QED BY <2>3, <2>5, <2>6, <2>7
<1> QED BY <1>1, <1>2

LEMMA InsertGapFree ==
    ASSUME IInv, NEW r \in Recorders, Insert(r)
    PROVE  GapFree'
<1>1. CASE rows' = rows \/ raced
  BY <1>1 DEF IInv, GapFree, Insert
<1>2. CASE rows' # rows /\ ~raced
  <2> DEFINE e == Entry(r)
  <2>1. rows \subseteq Row /\ e \in Row /\ rows' = rows \cup {e}
    BY <1>2, InsertEffect DEF IInv, TypeOK
  <2>2. \A c \in rows : c.session = e.session => c.step < e.step
    BY <1>2, InsertEffect
  <2>3. \/ Log(e.session) = {}
        \/ \E c \in Log(e.session) : e.step = c.step + 1
    BY <1>2, InsertEffect
  <2>4. SUFFICES ASSUME NEW a \in rows', NEW b \in rows', a.session = b.session,
                        NEW n \in a.step .. b.step
                 PROVE  \E c \in rows' : c.session = a.session /\ c.step = n
    BY DEF GapFree
  <2>5. CASE a \in rows /\ b \in rows
    BY <1>2, <2>1, <2>4, <2>5 DEF IInv, GapFree
  <2>6. CASE a \in rows /\ b = e
    <3>1. CASE n = e.step
      BY <2>1, <2>4, <2>6, <3>1
    <3>2. CASE n # e.step
      <4>1. PICK c \in rows : c.session = a.session /\ e.step = c.step + 1
        BY <2>3, <2>4, <2>6 DEF Log
      <4>2. n \in a.step .. c.step
        BY <2>1, <2>4, <2>6, <3>2, <4>1 DEF Row
      <4> QED BY <1>2, <2>1, <2>6, <4>1, <4>2 DEF IInv, GapFree
    <3> QED BY <3>1, <3>2
  <2>7. CASE a = e
    <3>1. b = e
      BY <2>1, <2>2, <2>4, <2>7 DEF Row
    <3>2. n = e.step
      BY <2>1, <2>4, <2>7, <3>1 DEF Row
    <3> QED BY <2>1, <2>7, <3>2
  <2> QED BY <2>1, <2>5, <2>6, <2>7
<1> QED BY <1>1, <1>2

--------------------------------------------------------------------------------
(* Cleaning up: what goes is older than all that stays *)

LEMMA CleanupGapFree ==
    ASSUME IInv, NEW days \in Retentions, Cleanup(days)
    PROVE  GapFree'
<1>1. rows' = {a \in rows : a.time + days >= now}
  BY DEF Cleanup
<1>2. SUFFICES ASSUME ~raced', NEW a \in rows', NEW b \in rows', a.session = b.session,
                      NEW n \in a.step .. b.step
               PROVE  \E c \in rows' : c.session = a.session /\ c.step = n
  BY DEF GapFree
<1>3. ~raced
  BY <1>2 DEF Cleanup
<1>4. a \in Row /\ b \in Row /\ a \in rows /\ b \in rows /\ a.time + days >= now
  BY <1>1 DEF IInv, TypeOK
<1>5. PICK c \in rows : c.session = a.session /\ c.step = n
  BY <1>2, <1>3, <1>4 DEF IInv, GapFree
<1>6. c \in Row /\ now \in Nat /\ days \in Nat
  BY RetentionAssumption DEF IInv, TypeOK
<1>7. CASE n = a.step
  BY <1>7
<1>8. CASE n # a.step
  <2>1. a.step < c.step
    BY <1>2, <1>4, <1>5, <1>8 DEF Row
  <2>2. a.time <= c.time
    BY <1>3, <1>4, <1>5, <2>1 DEF IInv, Chronological
  <2>3. c.time + days >= now
    BY <1>4, <1>6, <2>2 DEF Row
  <2> QED BY <1>1, <1>5, <2>3
<1> QED BY <1>7, <1>8

LEMMA CleanupInv ==
    ASSUME IInv, NEW days \in Retentions, Cleanup(days)
    PROVE  IInv'
<1>1. rows' \subseteq rows /\ UNCHANGED <<now, op>> /\ (~raced' => ~raced /\ ~Recording)
  BY DEF Cleanup
<1>2. TypeOK'
  BY CleanupType DEF IInv
<1>3. Past'
  BY <1>1 DEF IInv, Past
<1>4. InProgress'
  BY <1>1 DEF InProgress, Recording, At
<1>5. Chronological'
  BY <1>1 DEF IInv, Chronological
<1>6. GapFree'
  BY CleanupGapFree
<1> QED BY <1>2, <1>3, <1>4, <1>5, <1>6 DEF IInv

--------------------------------------------------------------------------------
(* The steps that leave the log alone *)

LEMMA SameRows ==
    ASSUME IInv, UNCHANGED <<rows, raced>>
    PROVE  Chronological' /\ GapFree'
BY DEF IInv, Chronological, GapFree

LEMMA SelectInv ==
    ASSUME IInv, NEW r \in Recorders, NEW s \in Sessions, NEW n \in 1 .. MaxSteps,
           Select(r, s, n)
    PROVE  IInv'
<1>1. UNCHANGED <<now, rows, raced>> /\ IsNext(s, n)
  BY DEF Select
<1>2. op'[r] = [pc |-> "stamp", session |-> s, step |-> n, time |-> 0]
  BY DEF Select, IInv, TypeOK
<1>3. \A q \in Recorders : q # r => op'[q] = op[q]
  BY DEF Select, IInv, TypeOK
<1>4. TypeOK'
  BY SelectType DEF IInv
<1>5. now \in Nat
  BY DEF IInv, TypeOK
<1>6. Past'
  BY <1>1, <1>2, <1>3, <1>5 DEF IInv, Past
<1>7. Follows(r)'
  BY <1>1, <1>2 DEF Follows, IsNext, Log
<1>8. ~At(r, "insert")'
  BY <1>2 DEF At
<1>9. ASSUME ~raced', NEW q \in Recorders
      PROVE  /\ ~At(q, "idle")' => Follows(q)'
             /\ At(q, "insert")' => Later(q)'
  <2>1. CASE q = r
    BY <1>7, <1>8, <2>1
  <2>2. CASE q # r
    BY <1>1, <1>3, <1>9, <2>2 DEF IInv, InProgress, Follows, Later, Log, At
  <2> QED BY <2>1, <2>2
<1>10. InProgress'
  BY <1>9 DEF InProgress
<1> QED BY <1>1, <1>4, <1>6, <1>10, SameRows DEF IInv

LEMMA StampInv ==
    ASSUME IInv, NEW r \in Recorders, Stamp(r)
    PROVE  IInv'
<1>1. UNCHANGED <<now, rows, raced>> /\ At(r, "stamp")
  BY DEF Stamp
<1>2. op'[r] = [op[r] EXCEPT !.pc = "insert", !.time = now]
  BY DEF Stamp, IInv, TypeOK
<1>3. op'[r].session = op[r].session /\ op'[r].step = op[r].step /\ op'[r].time = now
  BY <1>2 DEF IInv, TypeOK
<1>4. \A q \in Recorders : q # r => op'[q] = op[q]
  BY DEF Stamp, IInv, TypeOK
<1>5. TypeOK'
  BY StampType DEF IInv
<1>6. now \in Nat
  BY DEF IInv, TypeOK
<1>7. Past'
  BY <1>1, <1>3, <1>4, <1>6 DEF IInv, Past
<1>8. Later(r)'
  BY <1>1, <1>3 DEF Later, Log, IInv, Past
<1>9. ~raced => Follows(r)'
  BY <1>1, <1>3 DEF IInv, InProgress, Follows, Log, At
<1>10. ASSUME ~raced', NEW q \in Recorders
       PROVE  /\ ~At(q, "idle")' => Follows(q)'
              /\ At(q, "insert")' => Later(q)'
  <2>1. CASE q = r
    BY <1>1, <1>8, <1>9, <1>10, <2>1
  <2>2. CASE q # r
    BY <1>1, <1>4, <1>10, <2>2 DEF IInv, InProgress, Follows, Later, Log, At
  <2> QED BY <2>1, <2>2
<1>11. InProgress'
  BY <1>10 DEF InProgress
<1> QED BY <1>1, <1>5, <1>7, <1>11, SameRows DEF IInv

LEMMA FailInv ==
    ASSUME IInv, NEW r \in Recorders, Fail(r)
    PROVE  IInv'
<1>1. UNCHANGED <<now, rows, raced>>
  BY DEF Fail
<1>2. op'[r].pc = "idle" /\ op'[r].time = 0
  BY DEF Fail, NoCall, IInv, TypeOK
<1>3. \A q \in Recorders : q # r => op'[q] = op[q]
  BY DEF Fail, IInv, TypeOK
<1>4. TypeOK' /\ now \in Nat
  BY FailType DEF IInv, TypeOK
<1>5. Past'
  BY <1>1, <1>2, <1>3, <1>4 DEF IInv, Past
<1>6. InProgress'
  BY <1>1, <1>2, <1>3 DEF IInv, InProgress, Follows, Later, Log, At
<1> QED BY <1>1, <1>4, <1>5, <1>6, SameRows DEF IInv

LEMMA TickInv ==
    ASSUME IInv, Tick
    PROVE  IInv'
<1>1. UNCHANGED <<rows, op, raced>> /\ now' = now + 1 /\ now \in Nat
  BY DEF Tick, IInv, TypeOK
<1>2. TypeOK'
  BY TickType DEF IInv
<1>3. \A a \in rows : a.time \in Nat
  BY DEF IInv, TypeOK, Row
<1>4. \A r \in Recorders : op[r].time \in Nat
  BY DEF IInv, TypeOK
<1>5. Past'
  BY <1>1, <1>3, <1>4 DEF IInv, Past
<1>6. InProgress'
  BY <1>1 DEF IInv, InProgress, Follows, Later, Log, At
<1> QED BY <1>1, <1>2, <1>5, <1>6, SameRows DEF IInv

--------------------------------------------------------------------------------
(* What the others hold after an Insert *)

(* One recorder's insertion does not invalidate the number and the time another
   holds: either the number was taken from it, or the new row is not later. *)
LEMMA InsertInProgress ==
    ASSUME IInv, NEW r \in Recorders, Insert(r)
    PROVE  InProgress'
<1>1. UNCHANGED raced /\ op'[r].pc = "idle"
  BY DEF Insert, NoCall, IInv, TypeOK
<1>2. \A q \in Recorders : q # r => op'[q] = op[q]
  BY DEF Insert, IInv, TypeOK
<1>3. SUFFICES ASSUME ~raced, NEW q \in Recorders, q # r, ~At(q, "idle")
               PROVE  Follows(q)' /\ (At(q, "insert") => Later(q)')
  BY <1>1, <1>2 DEF InProgress, At
<1>4. op'[q] = op[q]
  BY <1>2, <1>3
<1>5. Follows(q) /\ (At(q, "insert") => Later(q))
  BY <1>3 DEF IInv, InProgress
<1>6. CASE rows' = rows
  BY <1>4, <1>5, <1>6 DEF Follows, Later, Log
<1>7. CASE rows' # rows
  <2> DEFINE e == Entry(r)
             s == op[q].session
             n == op[q].step
  <2>1. rows' = rows \cup {e} /\ e \in Row /\ rows \subseteq Row /\ n \in Nat /\ e.step > 0
    BY <1>3, <1>7, InsertEffect DEF IInv, TypeOK
  <2>2. \A c \in rows : c.session = e.session => c.step < e.step
    BY <1>3, <1>7, InsertEffect
  <2>3. \/ e.step = 1 /\ Log(e.session) = {}
        \/ \E a \in Log(e.session) : e.step = a.step + 1
    BY <1>3, <1>7, InsertEffect
  <2>4. Follows(q)'
    <3>1. CASE \E a \in Log(s) : n = a.step \/ n = a.step + 1
      BY <1>4, <2>1, <3>1 DEF Follows, Log
    <3>2. CASE n = 1 /\ Log(s) = {} /\ e.session = s
      <4>1. e.step = n /\ e \in rows'
        BY <2>1, <2>3, <3>2
      <4> QED BY <1>4, <3>2, <4>1 DEF Follows, Log
    <3>3. CASE n = 1 /\ Log(s) = {} /\ e.session # s
      BY <1>4, <2>1, <3>3 DEF Follows, Log
    <3> QED BY <1>5, <3>1, <3>2, <3>3 DEF Follows
  <2>5. e.session = s => ~(e.step < n)
    <3>1. SUFFICES ASSUME e.session = s
                   PROVE  ~(e.step < n)
      OBVIOUS
    <3>2. CASE n = 1
      BY <2>1, <3>2 DEF Row
    <3>3. CASE \E a \in Log(s) : n = a.step \/ n = a.step + 1
      <4>1. PICK a \in Log(s) : n = a.step \/ n = a.step + 1
        BY <3>3
      <4>2. a \in rows /\ a.session = s
        BY DEF Log
      <4>3. a.step < e.step /\ a.step \in Nat /\ e.step \in Nat
        BY <2>1, <2>2, <3>1, <4>2 DEF Row
      <4> QED BY <4>1, <4>3
    <3> QED BY <1>5, <3>2, <3>3 DEF Follows
  <2>6. ASSUME At(q, "insert")
        PROVE  Later(q)'
    <3>1. \A a \in Log(s) : a.step < n => a.time <= op[q].time
      BY <1>5, <2>6 DEF Later
    <3>2. \A a \in rows' : a.session = s /\ a.step < n => a.time <= op[q].time
      BY <2>1, <2>5, <3>1 DEF Log
    <3> QED BY <1>4, <3>2 DEF Later, Log
  <2> QED BY <2>4, <2>6
<1> QED BY <1>6, <1>7

LEMMA InsertPast ==
    ASSUME IInv, NEW r \in Recorders, Insert(r)
    PROVE  Past'
<1>1. now' = now /\ rows' \subseteq rows \cup {Entry(r)} /\ now \in Nat
  BY DEF Insert, IInv, TypeOK
<1>2. Entry(r).step > 0 /\ Entry(r).time <= now
  BY EntryType DEF IInv, Past, Insert, Entry
<1>3. op'[r].time = 0
  BY DEF Insert, NoCall, IInv, TypeOK
<1>4. \A q \in Recorders : q # r => op'[q] = op[q]
  BY DEF Insert, IInv, TypeOK
<1> QED BY <1>1, <1>2, <1>3, <1>4 DEF IInv, Past

LEMMA InsertInv ==
    ASSUME IInv, NEW r \in Recorders, Insert(r)
    PROVE  IInv'
<1>1. TypeOK'
  BY InsertType DEF IInv
<1> QED BY <1>1, InsertPast, InsertInProgress, InsertChronological, InsertGapFree DEF IInv

--------------------------------------------------------------------------------
(* The theorems *)

LEMMA StepInv ==
    ASSUME IInv, [Next]_vars
    PROVE  IInv'
<1>1. CASE UNCHANGED vars
  <2>1. TypeOK'
    BY StepType DEF IInv
  <2>2. UNCHANGED <<now, rows, op, raced>>
    BY <1>1 DEF vars
  <2>3. Past'
    BY <2>2 DEF IInv, Past
  <2>4. InProgress'
    BY <2>2 DEF IInv, InProgress, Follows, Later, Log, At
  <2> QED BY <2>1, <2>2, <2>3, <2>4, SameRows DEF IInv
<1>2. CASE Next
  BY <1>2, SelectInv, StampInv, InsertInv, FailInv, CleanupInv, TickInv DEF Next
<1> QED BY <1>1, <1>2

THEOREM Invariance == Spec => []IInv
<1> QED BY InitInv, StepInv, PTL DEF Spec

(* The times of a session's actions follow their numbers, until a clean-up
   meets a recording. *)
THEOREM InOrder == Spec => []Chronological
<1>1. IInv => Chronological
  BY DEF IInv
<1> QED BY <1>1, Invariance, PTL

(* The numbers of a session have no hole, until a clean-up meets a recording. *)
THEOREM Dense == Spec => []GapFree
<1>1. IInv => GapFree
  BY DEF IInv
<1> QED BY <1>1, Invariance, PTL

(* What is recorded stays as it is, until it is older than the period of a
   clean-up. *)
THEOREM Kept == Spec => RowsKept
<1> DEFINE Keeps == \A a \in rows : a \in rows' \/ \E days \in Retentions : a.time + days < now
<1>1. ASSUME IInv, [Next]_vars
      PROVE  [Keeps]_vars
  <2>1. CASE UNCHANGED vars
    BY <2>1
  <2>2. CASE \E days \in Retentions : Cleanup(days)
    <3>1. PICK days \in Retentions : Cleanup(days)
      BY <2>2
    <3>2. \A a \in rows : a.time \in Nat
      BY <1>1 DEF IInv, TypeOK, Row
    <3>3. now \in Nat /\ days \in Nat
      BY <1>1, RetentionAssumption DEF IInv, TypeOK
    <3>4. rows' = {a \in rows : a.time + days >= now}
      BY <3>1 DEF Cleanup
    <3>5. \A a \in rows : a \in rows' \/ a.time + days < now
      BY <3>2, <3>3, <3>4
    <3> QED BY <3>5
  <2>3. CASE Next /\ ~\E days \in Retentions : Cleanup(days)
    <3>1. rows \subseteq rows'
      BY <2>3 DEF Next, Select, Stamp, Insert, Fail, Tick
    <3> QED BY <3>1
  <2> QED BY <1>1, <2>1, <2>2, <2>3
<1>2. Spec => [][Keeps]_vars
  BY <1>1, Invariance, PTL DEF Spec
<1> QED BY <1>2 DEF RowsKept

(* A new action comes after all those of its session, until a clean-up meets a
   recording. *)
THEOREM AtTheEnd == Spec => Appended
<1> DEFINE Appends == ~raced' => \A a \in rows' \ rows, b \in rows :
                                    a.session = b.session => b.step < a.step
<1>1. ASSUME IInv, [Next]_vars
      PROVE  [Appends]_vars
  <2>1. CASE UNCHANGED vars
    BY <2>1
  <2>2. CASE \E r \in Recorders : Insert(r)
    <3>1. PICK r \in Recorders : Insert(r)
      BY <2>2
    <3>2. CASE rows' = rows \/ raced'
      BY <3>2
    <3>3. CASE rows' # rows /\ ~raced'
      <4>1. ~raced
        BY <3>1, <3>3 DEF Insert
      <4>2. rows' = rows \cup {Entry(r)}
        BY <1>1, <3>1, <3>3, <4>1, InsertEffect
      <4>3. \A b \in rows : b.session = Entry(r).session => b.step < Entry(r).step
        BY <1>1, <3>1, <3>3, <4>1, InsertEffect
      <4> QED BY <4>2, <4>3
    <3> QED BY <3>2, <3>3
  <2>3. CASE Next /\ ~\E r \in Recorders : Insert(r)
    <3>1. rows' \subseteq rows
      BY <2>3 DEF Next, Select, Stamp, Cleanup, Fail, Tick
    <3> QED BY <3>1
  <2> QED BY <1>1, <2>1, <2>2, <2>3
<1>2. Spec => [][Appends]_vars
  BY <1>1, Invariance, PTL DEF Spec
<1> QED BY <1>2 DEF Appended

(* The log of a session numbers its actions without a hole, as time goes. *)
THEOREM Numbering == Spec => []Numbered
<1>1. Chronological /\ GapFree => Numbered
  BY DEF Numbered
<1> QED BY <1>1, InOrder, Dense, PTL

(* The log only grows at its end, and loses only what a clean-up may remove. *)
THEOREM Growth == Spec => LogGrows
<1> QED BY Kept, AtTheEnd DEF LogGrows
================================================================================
