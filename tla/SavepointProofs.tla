---------------------------- MODULE SavepointProofs ----------------------------
(***************************************************************************)
(* Theorems about Savepoint, for every number of files, snapshots and      *)
(* processes and any amount of interference and failure.                   *)
(*                                                                         *)
(* The proofs go in three layers.  An effect lemma per action says what    *)
(* the step does to the operation of the process that takes it.  TypeOK    *)
(* and the inductive invariant IInv are then preserved action by action.   *)
(* The properties the model checker checks follow from IInv.               *)
(***************************************************************************)
EXTENDS Healer, SequenceLemmas, FiniteSetTheorems, TLAPS

(* The next-state relation, action by action, for the case splits. *)
ProcStep(p) ==
    \/ \E a \in Agents : CreateBegin(p, a)
    \/ \E f \in Files : HashFile(p, f) \/ HashMissing(p, f) \/ InsertFile(p, f)
    \/ CopyFile(p) \/ CopyMissing(p) \/ InsertRow(p) \/ CreateReturn(p)
    \/ NotFound(p)
    \/ \E s \in Snaps : BeginRollback(p, s) /\ rows[s] # None
    \/ LoadManifest(p) \/ PruneBegin(p) \/ RollbackReturn(p)
    \/ \E f \in Files : RestoreFile(p, f) \/ PruneFile(p, f) \/ PruneMissing(p, f)
    \/ Fault(p)

LEMMA NextSteps ==
    ASSUME Next
    PROVE  \/ \E p \in Procs : ProcStep(p)
           \/ \E f \in Files : AgentWrite(f) \/ Hide(f)
<1> SUFFICES ASSUME NEW p \in Procs,
                    Start(p) \/ CreateStep(p) \/ RollbackStep(p) \/ Fault(p)
             PROVE  ProcStep(p)
  BY DEF Next
<1>1. CASE Start(p)
  <2>1. ASSUME NEW a \in Agents, RollbackLatest(p, a) PROVE ProcStep(p)
    BY <2>1 DEF RollbackLatest, Latest, RowsOf, ProcStep
  <2>2. ASSUME NEW s \in Snaps, Rollback(p, s) PROVE ProcStep(p)
    BY <2>2 DEF Rollback, ProcStep
  <2> QED BY <1>1, <2>1, <2>2 DEF Start, ProcStep
<1>2. CASE CreateStep(p)
  BY <1>2 DEF CreateStep, ProcStep
<1>3. CASE RollbackStep(p)
  BY <1>3 DEF RollbackStep, ProcStep
<1> QED BY <1>1, <1>2, <1>3 DEF ProcStep

--------------------------------------------------------------------------------
(* Effects *)

(* The way of RestoreFile that does not fail. *)
PutBack(p, f) ==
    /\ store[op[p].snap][f] # None
    /\ work' = [work EXCEPT ![f] = store[op[p].snap][f]]
    /\ Continue(p, [op[p] EXCEPT !.todo = @ \ {f}])
    /\ Disturb(p)

LEMMA RestoreFileCases ==
    ASSUME NEW p \in Procs, NEW f \in Files, RestoreFile(p, f)
    PROVE  /\ At(p, "restore") /\ f \in op[p].todo
           /\ UNCHANGED <<hidden, disk, clock, writes, faults, truth>>
           /\ (Return(p, "err") /\ UNCHANGED work) \/ PutBack(p, f)
BY DEF RestoreFile, PutBack

LEMMA IdleType == Idle \in OpType /\ Nothing \in Image
BY DEF Idle, OpType, Phases, Nothing, Image

LEMMA CountIsNat ==
    ASSUME NEW img
    PROVE  Cardinality(Present(img)) \in Nat
BY FilesAssumption, FS_Subset, FS_CardinalityType DEF Present

(* The operation of p has moved to the given locals; the others have not. *)
Moved(p, pc, snap, agent, todo, cur, hashes, keep) ==
    /\ op' \in [Procs -> OpType]
    /\ \A q \in Procs : q # p => op'[q] = op[q]
    /\ op'[p].pc = pc /\ op'[p].snap = snap /\ op'[p].agent = agent
    /\ op'[p].cur = cur
    /\ op'[p].todo = todo /\ op'[p].hashes = hashes /\ op'[p].keep = keep

Ended(p) ==
    /\ Moved(p, "idle", None, None, {}, None, Nothing, {})
    /\ result' \in [Procs -> {"none", "ok", "err"}]
    /\ quiet' = quiet \ {p}

LEMMA OpUpdate ==
    ASSUME TypeOK, NEW p \in Procs, NEW locals \in OpType,
           op' = [op EXCEPT ![p] = locals]
    PROVE  Moved(p, locals.pc, locals.snap, locals.agent, locals.todo, locals.cur,
                 locals.hashes, locals.keep)
BY DEF TypeOK, OpTypeOK, Moved

LEMMA ReturnEffect ==
    ASSUME TypeOK, NEW p \in Procs, NEW answer \in {"none", "ok", "err"},
           Return(p, answer)
    PROVE  Ended(p)
<1>1. Moved(p, Idle.pc, Idle.snap, Idle.agent, Idle.todo, Idle.cur, Idle.hashes, Idle.keep)
  BY IdleType, OpUpdate DEF Return
<1> QED BY <1>1 DEF Ended, Return, Idle, TypeOK

LEMMA CreateBeginEffect ==
    ASSUME TypeOK, NEW p \in Procs, NEW a \in Agents, CreateBegin(p, a)
    PROVE  \E s \in Snaps \ dirs :
              /\ dirs' = dirs \cup {s}
              /\ Moved(p, "walk", s, a, Listed, None, Nothing, {})
              /\ result' \in [Procs -> {"none", "ok", "err"}]
              /\ quiet' = quiet \cup {p}
              /\ clock' \in Nat
              /\ op[p].pc = "idle"
              /\ UNCHANGED <<work, hidden, store, rows, manifest, writes, faults, truth>>
<1> DEFINE L(s) == [Idle EXCEPT !.pc = "walk", !.snap = s, !.agent = a,
                                !.timestamp = clock, !.todo = Listed]
<1>1. PICK s \in Snaps \ dirs : dirs' = dirs \cup {s} /\ Begin(p, L(s))
  BY DEF CreateBegin
<1>2. L(s) \in OpType
  BY IdleType DEF TypeOK, OpType, Phases, Idle, Listed, Present
<1>3. Moved(p, L(s).pc, L(s).snap, L(s).agent, L(s).todo, L(s).cur, L(s).hashes, L(s).keep)
  BY <1>1, <1>2, OpUpdate DEF Begin
<1>4. Moved(p, "walk", s, a, Listed, None, Nothing, {})
  BY <1>3 DEF Idle
<1>5. result' \in [Procs -> {"none", "ok", "err"}] /\ quiet' = quiet \cup {p}
  BY <1>1 DEF Begin, TypeOK
<1>6. clock' \in Nat
  BY DEF CreateBegin, TypeOK
<1>7. op[p].pc = "idle" /\ UNCHANGED <<work, hidden, store, rows, manifest, writes, faults, truth>>
  BY DEF CreateBegin, At
<1> QED BY <1>1, <1>4, <1>5, <1>6, <1>7

LEMMA BeginRollbackEffect ==
    ASSUME TypeOK, NEW p \in Procs, NEW s \in Snaps, BeginRollback(p, s)
    PROVE  /\ Moved(p, "load", s, None, {}, None, Nothing, {})
           /\ result' \in [Procs -> {"none", "ok", "err"}]
           /\ quiet' = quiet \cup {p}
<1> DEFINE L == [Idle EXCEPT !.pc = "load", !.snap = s]
<1>1. L \in OpType
  BY IdleType DEF OpType, Phases, Idle
<1>2. Begin(p, L)
  BY DEF BeginRollback
<1>3. Moved(p, L.pc, L.snap, L.agent, L.todo, L.cur, L.hashes, L.keep)
  BY <1>1, <1>2, OpUpdate DEF Begin
<1>4. Moved(p, "load", s, None, {}, None, Nothing, {})
  BY <1>3 DEF Idle
<1>5. result' \in [Procs -> {"none", "ok", "err"}] /\ quiet' = quiet \cup {p}
  BY <1>2 DEF Begin, TypeOK
<1> QED BY <1>4, <1>5

LEMMA HashFileEffect ==
    ASSUME TypeOK, NEW p \in Procs, NEW f \in Files, HashFile(p, f)
    PROVE  Moved(p, "copy", op[p].snap, op[p].agent, op[p].todo, f,
                 [op[p].hashes EXCEPT ![f] = work[f]], op[p].keep)
<1> DEFINE L == [op[p] EXCEPT !.pc = "copy", !.cur = f, !.hashes[f] = work[f]]
<1>1. op[p] \in OpType
  BY DEF TypeOK, OpTypeOK
<1>2. [op[p].hashes EXCEPT ![f] = work[f]] \in Image
  BY <1>1 DEF TypeOK, OpType, Image
<1>3. L \in OpType
  BY <1>1, <1>2 DEF OpType, Phases
<1>4. op' = [op EXCEPT ![p] = L]
  BY DEF HashFile, Continue, Begin
<1>5. Moved(p, L.pc, L.snap, L.agent, L.todo, L.cur, L.hashes, L.keep)
  BY <1>3, <1>4, OpUpdate
<1> QED BY <1>1, <1>5 DEF OpType

LEMMA CopyFileEffect ==
    ASSUME TypeOK, NEW p \in Procs, CopyFile(p)
    PROVE  Moved(p, "walk", op[p].snap, op[p].agent, op[p].todo, None, op[p].hashes, op[p].keep)
<1> DEFINE L == [op[p] EXCEPT !.pc = "walk", !.cur = None]
<1>1. op[p] \in OpType
  BY DEF TypeOK, OpTypeOK
<1>3. L \in OpType
  BY <1>1 DEF OpType, Phases
<1>4. op' = [op EXCEPT ![p] = L]
  BY DEF CopyFile, Continue, Begin
<1>5. Moved(p, L.pc, L.snap, L.agent, L.todo, L.cur, L.hashes, L.keep)
  BY <1>3, <1>4, OpUpdate
<1> QED BY <1>1, <1>5 DEF OpType

LEMMA InsertRowEffect ==
    ASSUME TypeOK, NEW p \in Procs, InsertRow(p)
    PROVE  Moved(p, "files", op[p].snap, op[p].agent, Present(op[p].hashes), op[p].cur,
                 op[p].hashes, op[p].keep)
<1> DEFINE L == [op[p] EXCEPT !.pc = "files", !.todo = Present(op[p].hashes)]
<1>1. op[p] \in OpType
  BY DEF TypeOK, OpTypeOK
<1>2. \A img : Present(img) \subseteq Files
  BY DEF Present
<1>3. L \in OpType
  BY <1>1, <1>2 DEF OpType, Phases
<1>4. op' = [op EXCEPT ![p] = L]
  BY DEF InsertRow, Continue, Begin
<1>5. Moved(p, L.pc, L.snap, L.agent, L.todo, L.cur, L.hashes, L.keep)
  BY <1>3, <1>4, OpUpdate
<1> QED BY <1>1, <1>5 DEF OpType

LEMMA InsertFileEffect ==
    ASSUME TypeOK, NEW p \in Procs, NEW f \in Files, InsertFile(p, f),
           manifest[op[p].snap][Lossy[f]] = None
    PROVE  Moved(p, op[p].pc, op[p].snap, op[p].agent, op[p].todo \ {f}, op[p].cur,
                 op[p].hashes, op[p].keep)
<1> DEFINE L == [op[p] EXCEPT !.todo = @ \ {f}]
<1>1. op[p] \in OpType
  BY DEF TypeOK, OpTypeOK
<1>3. L \in OpType
  BY <1>1 DEF OpType, Phases
<1>4. op' = [op EXCEPT ![p] = L]
  BY DEF InsertFile, Continue, Begin
<1>5. Moved(p, L.pc, L.snap, L.agent, L.todo, L.cur, L.hashes, L.keep)
  BY <1>3, <1>4, OpUpdate
<1> QED BY <1>1, <1>5 DEF OpType

LEMMA LoadManifestEffect ==
    ASSUME TypeOK, NEW p \in Procs, LoadManifest(p)
    PROVE  Moved(p, "restore", op[p].snap, op[p].agent, Present(manifest[op[p].snap]), op[p].cur,
                 op[p].hashes, Present(manifest[op[p].snap]))
<1> DEFINE L == [op[p] EXCEPT !.pc = "restore",
                         !.todo = Present(manifest[op[p].snap]),
                         !.keep = Present(manifest[op[p].snap])]
<1>1. op[p] \in OpType
  BY DEF TypeOK, OpTypeOK
<1>2. \A img : Present(img) \subseteq Files
  BY DEF Present
<1>3. L \in OpType
  BY <1>1, <1>2 DEF OpType, Phases
<1>4. op' = [op EXCEPT ![p] = L]
  BY DEF LoadManifest, Continue, Begin
<1>5. Moved(p, L.pc, L.snap, L.agent, L.todo, L.cur, L.hashes, L.keep)
  BY <1>3, <1>4, OpUpdate
<1> QED BY <1>1, <1>5 DEF OpType

LEMMA PruneBeginEffect ==
    ASSUME TypeOK, NEW p \in Procs, PruneBegin(p)
    PROVE  Moved(p, "prune", op[p].snap, op[p].agent, {f \in Listed : Lossy[f] \notin op[p].keep}, op[p].cur,
                 op[p].hashes, op[p].keep)
<1> DEFINE L == [op[p] EXCEPT !.pc = "prune", !.todo = {f \in Listed : Lossy[f] \notin op[p].keep}]
<1>1. op[p] \in OpType
  BY DEF TypeOK, OpTypeOK
<1>2. \A img : Present(img) \subseteq Files
  BY DEF Present
<1>3. L \in OpType
  BY <1>1, <1>2 DEF OpType, Phases, Listed
<1>4. op' = [op EXCEPT ![p] = L]
  BY DEF PruneBegin, Continue, Begin
<1>5. Moved(p, L.pc, L.snap, L.agent, L.todo, L.cur, L.hashes, L.keep)
  BY <1>3, <1>4, OpUpdate
<1> QED BY <1>1, <1>5 DEF OpType

LEMMA PruneFileEffect ==
    ASSUME TypeOK, NEW p \in Procs, NEW f \in Files, PruneFile(p, f)
    PROVE  Moved(p, op[p].pc, op[p].snap, op[p].agent, op[p].todo \ {f}, op[p].cur,
                 op[p].hashes, op[p].keep)
<1> DEFINE L == [op[p] EXCEPT !.todo = @ \ {f}, !.removed = @ \cup {f}]
<1>1. op[p] \in OpType
  BY DEF TypeOK, OpTypeOK
<1>3. L \in OpType
  BY <1>1 DEF OpType, Phases
<1>4. op' = [op EXCEPT ![p] = L]
  BY DEF PruneFile, Continue, Begin
<1>5. Moved(p, L.pc, L.snap, L.agent, L.todo, L.cur, L.hashes, L.keep)
  BY <1>3, <1>4, OpUpdate
<1> QED BY <1>1, <1>5 DEF OpType

LEMMA SkipEffect ==
    ASSUME TypeOK, NEW p \in Procs, NEW f \in Files,
           op' = [op EXCEPT ![p] = [op[p] EXCEPT !.todo = @ \ {f}]]
    PROVE  Moved(p, op[p].pc, op[p].snap, op[p].agent, op[p].todo \ {f}, op[p].cur,
                 op[p].hashes, op[p].keep)
<1> DEFINE L == [op[p] EXCEPT !.todo = @ \ {f}]
<1>1. op[p] \in OpType
  BY DEF TypeOK, OpTypeOK
<1>2. L \in OpType
  BY <1>1 DEF OpType
<1>3. Moved(p, L.pc, L.snap, L.agent, L.todo, L.cur, L.hashes, L.keep)
  BY <1>2, OpUpdate
<1> QED BY <1>1, <1>3 DEF OpType

--------------------------------------------------------------------------------
(* Type correctness *)

LEMMA ImageUpdate ==
    ASSUME NEW a \in [Snaps -> Image], NEW s \in Snaps, NEW f \in Files,
           NEW c \in Contents \cup {None}
    PROVE  [a EXCEPT ![s][f] = c] \in [Snaps -> Image]
BY DEF Image

LEMMA MovedKeepsType ==
    ASSUME OpTypeOK, NEW p \in Procs, NEW pc, NEW snap, NEW agent, NEW todo,
           NEW cur, NEW hashes, NEW keep,
           Moved(p, pc, snap, agent, todo, cur, hashes, keep),
           (snap = None) <=> (pc = "idle"), (agent = None) <=> (pc \notin Creating),
           (cur = None) <=> (pc # "copy")
    PROVE  OpTypeOK'
BY DEF OpTypeOK, Moved

LEMMA EndedKeepsType ==
    ASSUME OpTypeOK, NEW p \in Procs, Ended(p)
    PROVE  OpTypeOK'
BY MovedKeepsType DEF Ended, Creating

(* What the type invariant says of one operation, in each phase. *)
LEMMA PhaseFacts ==
    ASSUME TypeOK, NEW p \in Procs
    PROVE  /\ op[p] \in OpType
           /\ op[p].pc \in Phases
           /\ op[p].pc # "idle" => op[p].snap \in Snaps
           /\ op[p].pc \in Creating => op[p].agent \in Agents
           /\ op[p].pc = "copy" => op[p].cur \in Files
           /\ op[p].pc # "copy" => op[p].cur = None
           /\ op[p].pc \notin Creating => op[p].agent = None
           /\ op[p].todo \subseteq Files /\ op[p].keep \subseteq Files
           /\ op[p].hashes \in Image /\ op[p].timestamp \in Nat
           /\ op[p].snap = None <=> op[p].pc = "idle"
<1>1. op[p] \in OpType
  BY DEF TypeOK, OpTypeOK
<1>2. (op[p].snap = None) <=> (op[p].pc = "idle")
  BY DEF TypeOK, OpTypeOK
<1>3. (op[p].agent = None) <=> (op[p].pc \notin Creating)
  BY DEF TypeOK, OpTypeOK
<1>4. (op[p].cur = None) <=> (op[p].pc # "copy")
  BY DEF TypeOK, OpTypeOK
<1> QED BY <1>1, <1>2, <1>3, <1>4 DEF OpType

(* A step of p to phase pc of the same operation. *)
LEMMA ContinueKeepsType ==
    ASSUME TypeOK, NEW p \in Procs, NEW pc, NEW todo, NEW cur, NEW hashes, NEW keep,
           Moved(p, pc, op[p].snap, op[p].agent, todo, cur, hashes, keep),
           op[p].pc # "idle", pc # "idle", op[p].pc \in Creating <=> pc \in Creating,
           (cur = None) <=> (pc # "copy")
    PROVE  OpTypeOK'
<1>1. (op[p].snap = None) <=> (pc = "idle")
  BY PhaseFacts
<1>2. (op[p].agent = None) <=> (pc \notin Creating)
  BY DEF TypeOK, OpTypeOK
<1> QED BY <1>1, <1>2, MovedKeepsType DEF TypeOK

LEMMA CreateKeepsType ==
    ASSUME TypeOK, NEW p \in Procs,
           \/ \E a \in Agents : CreateBegin(p, a)
           \/ \E f \in Files : HashFile(p, f) \/ HashMissing(p, f) \/ InsertFile(p, f)
           \/ CopyFile(p) \/ CopyMissing(p) \/ InsertRow(p) \/ CreateReturn(p)
    PROVE  TypeOK'
<1> USE NoneAssumption
<1>1. ASSUME NEW a \in Agents, CreateBegin(p, a) PROVE TypeOK'
  <2>1. PICK s \in Snaps \ dirs :
              /\ dirs' = dirs \cup {s}
              /\ Moved(p, "walk", s, a, Listed, None, Nothing, {})
              /\ result' \in [Procs -> {"none", "ok", "err"}]
              /\ quiet' = quiet \cup {p}
              /\ clock' \in Nat
              /\ op[p].pc = "idle"
              /\ UNCHANGED <<work, hidden, store, rows, manifest, writes, faults, truth>>
    BY <1>1, CreateBeginEffect
  <2>2. OpTypeOK'
    BY <2>1, MovedKeepsType DEF TypeOK, Creating
  <2> QED BY <2>1, <2>2 DEF TypeOK
<1>2. ASSUME NEW f \in Files, HashFile(p, f) PROVE TypeOK'
  <2>1. OpTypeOK'
    <3>1. op[p].pc = "walk"
      BY <1>2 DEF HashFile, At
    <3>2. Moved(p, "copy", op[p].snap, op[p].agent, op[p].todo, f,
                [op[p].hashes EXCEPT ![f] = work[f]], op[p].keep)
      BY <1>2, HashFileEffect
    <3> QED BY <3>1, <3>2, ContinueKeepsType DEF Creating
  <2> QED BY <1>2, <2>1 DEF TypeOK, HashFile, Continue, disk, history
<1>3. ASSUME NEW f \in Files, HashMissing(p, f) PROVE TypeOK'
  <2>1. CASE Return(p, "err")
    BY <1>3, <2>1, ReturnEffect, EndedKeepsType DEF Ended, TypeOK, HashMissing, disk
  <2>2. CASE Continue(p, [op[p] EXCEPT !.todo = @ \ {f}]) /\ UNCHANGED quiet
    <3>1. Moved(p, op[p].pc, op[p].snap, op[p].agent, op[p].todo \ {f}, op[p].cur,
                op[p].hashes, op[p].keep)
      BY <2>2, SkipEffect DEF Continue
    <3>2. OpTypeOK'
      BY <1>3, <3>1, PhaseFacts, ContinueKeepsType DEF HashMissing, At
    <3> QED BY <1>3, <2>2, <3>2 DEF TypeOK, HashMissing, Continue, disk
  <2> QED BY <1>3, <2>1, <2>2 DEF HashMissing
<1>4. ASSUME NEW f \in Files, InsertFile(p, f), manifest[op[p].snap][Lossy[f]] = None PROVE TypeOK'
  <2>1. Moved(p, op[p].pc, op[p].snap, op[p].agent, op[p].todo \ {f}, op[p].cur,
              op[p].hashes, op[p].keep)
    BY <1>4, InsertFileEffect
  <2>2. OpTypeOK'
    BY <1>4, <2>1, PhaseFacts, ContinueKeepsType DEF InsertFile, At
  <2>3. manifest' \in [Snaps -> Image]
    <3>1. op[p].hashes[f] \in Contents \cup {None} /\ op[p].snap \in Snaps
      BY <1>4, PhaseFacts DEF InsertFile, At, Image
    <3>2. manifest' = [manifest EXCEPT ![op[p].snap][Lossy[f]] = op[p].hashes[f]]
      BY <1>4 DEF InsertFile
    <3>3. Lossy[f] \in Files
      BY LossyAssumption
    <3> QED BY <3>1, <3>2, <3>3, ImageUpdate DEF TypeOK
  <2> QED BY <1>4, <2>2, <2>3 DEF TypeOK, InsertFile, Continue, history
<1>5. ASSUME CopyFile(p) PROVE TypeOK'
  <2>1. OpTypeOK'
    <3>1. op[p].pc = "copy"
      BY <1>5 DEF CopyFile, At
    <3> QED BY <1>5, <3>1, CopyFileEffect, ContinueKeepsType DEF Creating
  <2>2. store' \in [Snaps -> Image]
    <3>1. op[p].cur \in Files /\ op[p].snap \in Snaps
      BY <1>5, PhaseFacts DEF CopyFile, At
    <3>2. store' = [store EXCEPT ![op[p].snap][op[p].cur] = work[op[p].cur]]
      BY <1>5 DEF CopyFile
    <3>3. work[op[p].cur] \in Contents \cup {None}
      BY <3>1 DEF TypeOK, Image
    <3> QED BY <3>1, <3>2, <3>3, ImageUpdate DEF TypeOK
  <2> QED BY <1>5, <2>1, <2>2 DEF TypeOK, CopyFile, Continue, history
<1>6. ASSUME CopyMissing(p) PROVE TypeOK'
  BY <1>6, ReturnEffect, EndedKeepsType DEF Ended, TypeOK, CopyMissing, disk
<1>7. ASSUME InsertRow(p) PROVE TypeOK'
  <2>1. OpTypeOK'
    <3>1. op[p].pc = "walk" /\ op[p].cur = None
      BY <1>7, PhaseFacts DEF InsertRow, At
    <3> QED BY <1>7, <3>1, InsertRowEffect, ContinueKeepsType DEF Creating
  <2> DEFINE row == [agent |-> op[p].agent, timestamp |-> op[p].timestamp,
                     file_count |-> Cardinality(Present(op[p].hashes))]
  <2>2. row \in Row
    BY <1>7, CountIsNat, PhaseFacts DEF Row, InsertRow, At, Creating
  <2>3. rows' = [rows EXCEPT ![op[p].snap] = row]
    BY <1>7 DEF InsertRow
  <2>4. rows' \in [Snaps -> Row \cup {None}]
    BY <2>2, <2>3 DEF TypeOK
  <2> QED BY <1>7, <2>1, <2>4 DEF TypeOK, InsertRow, Continue, history
<1>8. ASSUME CreateReturn(p) PROVE TypeOK'
  <2>1. truth' \in [Snaps -> Image \cup {None}]
    BY <1>8 DEF CreateReturn, TypeOK, Seen, Image
  <2> QED BY <1>8, <2>1, ReturnEffect, EndedKeepsType
          DEF Ended, TypeOK, CreateReturn, disk
<1>9. ASSUME NEW f \in Files, InsertFile(p, f), manifest[op[p].snap][Lossy[f]] # None PROVE TypeOK'
  BY <1>9, ReturnEffect, EndedKeepsType DEF Ended, TypeOK, InsertFile
<1> QED BY <1>1, <1>2, <1>3, <1>4, <1>5, <1>6, <1>7, <1>8, <1>9

LEMMA RollbackKeepsType ==
    ASSUME TypeOK, NEW p \in Procs,
           \/ NotFound(p)
           \/ \E s \in Snaps : BeginRollback(p, s)
           \/ LoadManifest(p) \/ PruneBegin(p) \/ RollbackReturn(p)
           \/ \E f \in Files : RestoreFile(p, f) \/ PruneFile(p, f) \/ PruneMissing(p, f)
    PROVE  TypeOK'
<1> USE NoneAssumption
<1>1. ASSUME NotFound(p) PROVE TypeOK'
  BY <1>1, ReturnEffect, EndedKeepsType DEF Ended, TypeOK, NotFound, disk
<1>2. ASSUME NEW s \in Snaps, BeginRollback(p, s) PROVE TypeOK'
  <2>1. OpTypeOK'
    BY <1>2, BeginRollbackEffect, MovedKeepsType DEF TypeOK, Creating
  <2> QED BY <1>2, <2>1, BeginRollbackEffect DEF TypeOK, BeginRollback, disk
<1>3. ASSUME LoadManifest(p) PROVE TypeOK'
  <2>1. OpTypeOK'
    <3>1. op[p].pc = "load" /\ op[p].cur = None
      BY <1>3, PhaseFacts DEF LoadManifest, At
    <3> QED BY <1>3, <3>1, LoadManifestEffect, ContinueKeepsType DEF Creating
  <2> QED BY <1>3, <2>1 DEF TypeOK, LoadManifest, Continue, disk, history
<1>4. ASSUME PruneBegin(p) PROVE TypeOK'
  <2>1. OpTypeOK'
    <3>1. op[p].pc = "restore" /\ op[p].cur = None
      BY <1>4, PhaseFacts DEF PruneBegin, At
    <3>2. Moved(p, "prune", op[p].snap, op[p].agent, {f \in Listed : Lossy[f] \notin op[p].keep},
                op[p].cur, op[p].hashes, op[p].keep)
      BY <1>4, PruneBeginEffect
    <3> QED BY <3>1, <3>2, ContinueKeepsType DEF Creating
  <2> QED BY <1>4, <2>1 DEF TypeOK, PruneBegin, Continue, disk, history
<1>5. ASSUME RollbackReturn(p) PROVE TypeOK'
  BY <1>5, ReturnEffect, EndedKeepsType DEF Ended, TypeOK, RollbackReturn, disk
<1>6. ASSUME NEW f \in Files, RestoreFile(p, f) PROVE TypeOK'
  <2>1. CASE Return(p, "err") /\ UNCHANGED work
    BY <1>6, <2>1, ReturnEffect, EndedKeepsType DEF Ended, TypeOK, RestoreFile, disk
  <2>2. CASE PutBack(p, f)
    <3>1. op[p].pc = "restore" /\ op[p].snap \in Snaps
      BY <1>6, PhaseFacts DEF RestoreFile, At
    <3>2. /\ work' = [work EXCEPT ![f] = store[op[p].snap][f]]
          /\ Continue(p, [op[p] EXCEPT !.todo = @ \ {f}])
          /\ quiet' = quiet \cap {p}
      BY <2>2 DEF PutBack, Disturb
    <3>3. work' \in Image
      BY <3>1, <3>2 DEF TypeOK, Image
    <3>4. Moved(p, op[p].pc, op[p].snap, op[p].agent, op[p].todo \ {f}, op[p].cur,
                op[p].hashes, op[p].keep)
      BY <3>2, SkipEffect DEF Continue
    <3>5. OpTypeOK'
      BY <3>1, <3>4, PhaseFacts, ContinueKeepsType
    <3>6. result' = result /\ quiet' \in SUBSET Procs
      BY <3>2 DEF Continue, TypeOK
    <3> QED BY <1>6, <3>3, <3>5, <3>6 DEF TypeOK, RestoreFile, disk
  <2> QED BY <1>6, <2>1, <2>2, RestoreFileCases
<1>7. ASSUME NEW f \in Files, PruneFile(p, f) PROVE TypeOK'
  <2>1. op[p].pc = "prune"
    BY <1>7 DEF PruneFile, At
  <2>2. work' \in Image
    BY <1>7 DEF PruneFile, TypeOK, Image
  <2>3. OpTypeOK'
    <3>1. op[p].cur = None
      BY <2>1, PhaseFacts
    <3>2. Moved(p, op[p].pc, op[p].snap, op[p].agent, op[p].todo \ {f}, op[p].cur,
                op[p].hashes, op[p].keep)
      BY <1>7, PruneFileEffect
    <3> QED BY <2>1, <3>1, <3>2, ContinueKeepsType
  <2>4. result' = result /\ quiet' = quiet \cap {p}
    BY <1>7 DEF PruneFile, Continue, Disturb
  <2> QED BY <1>7, <2>2, <2>3, <2>4 DEF TypeOK, PruneFile, disk
<1>8. ASSUME NEW f \in Files, PruneMissing(p, f) PROVE TypeOK'
  <2>1. CASE Return(p, "err")
    BY <1>8, <2>1, ReturnEffect, EndedKeepsType DEF Ended, TypeOK, PruneMissing, disk
  <2>2. CASE Continue(p, [op[p] EXCEPT !.todo = @ \ {f}]) /\ UNCHANGED quiet
    <3>1. Moved(p, op[p].pc, op[p].snap, op[p].agent, op[p].todo \ {f}, op[p].cur,
                op[p].hashes, op[p].keep)
      BY <2>2, SkipEffect DEF Continue
    <3>2. OpTypeOK'
      BY <1>8, <3>1, PhaseFacts, ContinueKeepsType DEF PruneMissing, At
    <3> QED BY <1>8, <2>2, <3>2 DEF TypeOK, PruneMissing, Continue, disk
  <2> QED BY <1>8, <2>1, <2>2 DEF PruneMissing
<1> QED BY <1>1, <1>2, <1>3, <1>4, <1>5, <1>6, <1>7, <1>8

LEMMA EnvironmentKeepsType ==
    ASSUME TypeOK,
           \/ \E p \in Procs : Fault(p)
           \/ \E f \in Files : AgentWrite(f) \/ Hide(f)
    PROVE  TypeOK'
<1> USE NoneAssumption, BoundsAssumption
<1>1. ASSUME NEW p \in Procs, Fault(p) PROVE TypeOK'
  <2>1. PICK answer \in {"err", "none"} : Return(p, answer)
    BY <1>1 DEF Fault
  <2> QED BY <1>1, <2>1, ReturnEffect, EndedKeepsType
          DEF Ended, TypeOK, Fault, disk
<1>2. ASSUME NEW f \in Files, AgentWrite(f) PROVE TypeOK'
  <2>1. work' \in Image
    BY <1>2 DEF AgentWrite, TypeOK, Image
  <2> QED BY <1>2, <2>1 DEF TypeOK, OpTypeOK, AgentWrite, disk
<1>3. ASSUME NEW f \in Files, Hide(f) PROVE TypeOK'
  BY <1>3 DEF TypeOK, OpTypeOK, Hide, disk
<1> QED BY <1>1, <1>2, <1>3

LEMMA TypeInit == Init => TypeOK
<1>1. ASSUME Init PROVE OpTypeOK
  BY <1>1, IdleType, NoneAssumption DEF Init, OpTypeOK, Idle, Creating
<1> QED BY <1>1, BoundsAssumption, IdleType DEF Init, TypeOK

LEMMA TypeNext == TypeOK /\ [Next]_vars => TypeOK'
<1>1. ASSUME TypeOK, Next PROVE TypeOK'
  <2>1. ASSUME NEW p \in Procs, ProcStep(p) PROVE TypeOK'
    BY <1>1, <2>1, CreateKeepsType, RollbackKeepsType, EnvironmentKeepsType DEF ProcStep
  <2> QED BY <1>1, <2>1, NextSteps, EnvironmentKeepsType
<1>2. ASSUME TypeOK, UNCHANGED vars PROVE TypeOK'
  BY <1>2 DEF vars, TypeOK, OpTypeOK
<1> QED BY <1>1, <1>2

(* Type correctness of the snapshot engine: see TypeOK in Savepoint. *)
THEOREM TypeCorrect == Spec => []TypeOK
BY TypeInit, TypeNext, PTL DEF Spec

--------------------------------------------------------------------------------
(* The inductive invariant *)

(* A snapshot in progress has a directory and one creator; a snapshot without
   a directory has nothing at all. *)
Owned ==
    /\ \A p \in Procs : IF op[p].pc = "idle" THEN op[p].keep = {}
                                              ELSE op[p].snap \in dirs
    /\ \A p \in Procs : op[p].pc \in {"load", "restore", "prune"} => rows[op[p].snap] # None
    /\ \A p, q \in Procs :
          p # q /\ op[p].pc \in Creating /\ op[q].pc \in Creating
            => op[p].snap # op[q].snap
    /\ \A s \in Snaps : s \notin dirs =>
          /\ store[s] = Nothing /\ manifest[s] = Nothing
          /\ rows[s] = None /\ truth[s] = None

(* While the walk goes on, no row is in, and exactly the hashed files are
   stored, but for the one in hand. *)
Walking(p) ==
    LET s == op[p].snap
        stored(f) == store[s][f] # None
    IN  /\ rows[s] = None /\ manifest[s] = Nothing /\ truth[s] = None
        /\ \A f \in Files \ {op[p].cur} : (op[p].hashes[f] # None) <=> stored(f)
        /\ op[p].pc = "copy" => op[p].hashes[op[p].cur] # None /\ ~stored(op[p].cur)

(* While the manifest goes in, the row counts the hashed files, all of them are
   stored, and those visited are in, each under a name of its own. *)
Visited(p) == Present(op[p].hashes) \ op[p].todo

Listing(p) ==
    LET s == op[p].snap
    IN  /\ rows[s] # None /\ truth[s] = None
        /\ rows[s].file_count = Cardinality(Present(op[p].hashes))
        /\ op[p].todo \subseteq Present(op[p].hashes)
        /\ \A f \in Files : (op[p].hashes[f] # None) <=> (store[s][f] # None)
        /\ \A f \in Visited(p) : manifest[s][Lossy[f]] = op[p].hashes[f]
        /\ \A n \in Files : manifest[s][n] # None => \E f \in Visited(p) : Lossy[f] = n
        /\ \A f, g \in Visited(p) : Lossy[f] = Lossy[g] => f = g

CreateInv ==
    \A p \in Procs : /\ op[p].pc \in {"walk", "copy"} => Walking(p)
                     /\ op[p].pc = "files" => Listing(p)

(* What an undisturbed create_snapshot knows of the working directory ... *)
QuietWalk(p) ==
    LET s == op[p].snap
    IN  /\ op[p].todo = Listed
        /\ \A f \in Files : /\ op[p].hashes[f] # None => op[p].hashes[f] = Seen[f]
                            /\ store[s][f] # None => store[s][f] = Seen[f]

(* ... and an undisturbed rollback. *)
QuietRestore(p) ==
    LET s == op[p].snap
    IN  /\ \A n \in op[p].keep :
              op[p].pc = "prune" \/ n \notin op[p].todo => store[s][n] # None /\ work[n] = store[s][n]
        /\ op[p].pc = "prune" => \A f \in Listed : Lossy[f] \in op[p].keep \/ f \in op[p].todo

QuietInv ==
    \A p \in quiet :
        /\ op[p].pc \in {"walk", "copy"} => QuietWalk(p)
        /\ op[p].pc = "files" => op[p].hashes = Seen /\ store[op[p].snap] = Seen
        /\ op[p].pc \in {"restore", "prune"} => QuietRestore(p)

IInv == /\ TypeOK /\ Owned /\ CreateInv /\ EntriesBacked /\ QuietInv /\ SnapshotFaithful

(* A name is the name of itself. *)
LEMMA StoredName ==
    ASSUME NEW s, NEW n, Stored(s, n)
    PROVE  n \in Files /\ Lossy[n] = n
BY LossyAssumption DEF Stored

(* The operation of p alone changes, and ends. *)
LEMMA EndedKeepsInv ==
    ASSUME IInv, NEW p \in Procs, Ended(p), TypeOK',
           UNCHANGED <<work, hidden, disk, truth>>
    PROVE  IInv'
<1>1. /\ op'[p].pc = "idle" /\ op'[p].keep = {}
      /\ \A q \in Procs : q # p => op'[q] = op[q]
      /\ quiet' = quiet \ {p} /\ quiet \subseteq Procs
  BY DEF Ended, Moved, IInv, TypeOK
<1>2. Owned'
  BY <1>1 DEF IInv, Owned, Creating, disk
<1>3. CreateInv'
  BY <1>1 DEF IInv, CreateInv, Walking, Listing, Visited, disk
<1>4. EntriesBacked'
  BY <1>1 DEF IInv, EntriesBacked, Stored, disk
<1>5. QuietInv'
  BY <1>1 DEF IInv, QuietInv, QuietWalk, QuietRestore, disk, Seen, Listed, Present
<1>6. SnapshotFaithful'
  BY DEF IInv, SnapshotFaithful, disk
<1> QED BY <1>2, <1>3, <1>4, <1>5, <1>6 DEF IInv


(* A step that only drops an entry that is gone from the todo list. *)
LEMMA SkipKeepsInv ==
    ASSUME IInv, NEW p \in Procs, NEW f \in Files,
           Moved(p, op[p].pc, op[p].snap, op[p].agent, op[p].todo \ {f}, op[p].cur,
                 op[p].hashes, op[p].keep),
           op[p].pc \in {"walk", "prune"}, f \notin Listed, TypeOK',
           UNCHANGED <<work, hidden, disk, history>>
    PROVE  IInv'
<1>1. /\ op'[p].pc = op[p].pc /\ op'[p].snap = op[p].snap /\ op'[p].cur = op[p].cur
      /\ op'[p].hashes = op[p].hashes /\ op'[p].keep = op[p].keep
      /\ op'[p].todo = op[p].todo \ {f}
      /\ \A q \in Procs : q # p => op'[q] = op[q]
      /\ quiet' = quiet /\ quiet \subseteq Procs
  BY DEF Moved, IInv, TypeOK, history
<1>2. Owned'
  BY <1>1 DEF IInv, Owned, Creating, disk, history
<1>3. CreateInv'
  BY <1>1 DEF IInv, CreateInv, Walking, Listing, Visited, disk, history
<1>4. EntriesBacked'
  BY <1>1 DEF IInv, EntriesBacked, Stored, disk
<1>5. QuietInv'
  <2>1. ASSUME NEW q \in quiet, q # p
        PROVE  /\ op'[q].pc \in {"walk", "copy"} => QuietWalk(q)'
               /\ op'[q].pc = "files" => (op[q].hashes = Seen /\ store[op[q].snap] = Seen)'
               /\ op'[q].pc \in {"restore", "prune"} => QuietRestore(q)'
    BY <1>1, <2>1 DEF IInv, QuietInv, QuietWalk, QuietRestore, disk, Seen, Listed, Present
  <2>2. ASSUME p \in quiet, op[p].pc = "walk" PROVE QuietWalk(p)'
    <3>1. QuietWalk(p)
      BY <2>2 DEF IInv, QuietInv
    <3> QED BY <1>1, <3>1 DEF QuietWalk, Present, disk, Seen, Listed
  <2>3. ASSUME p \in quiet, op[p].pc = "prune" PROVE QuietRestore(p)'
    <3>1. QuietRestore(p)
      BY <2>3 DEF IInv, QuietInv
    <3> QED BY <1>1, <2>3, <3>1 DEF QuietRestore, Present, disk, Seen, Listed
  <2> QED BY <1>1, <2>1, <2>2, <2>3 DEF QuietInv
<1>6. SnapshotFaithful'
  BY DEF IInv, SnapshotFaithful, disk, history
<1> QED BY <1>2, <1>3, <1>4, <1>5, <1>6 DEF IInv

LEMMA BeginRollbackKeepsInv ==
    ASSUME IInv, NEW p \in Procs, NEW s \in Snaps, BeginRollback(p, s),
           rows[s] # None, TypeOK'
    PROVE  IInv'
<1>1. /\ op'[p].pc = "load" /\ op'[p].snap = s /\ op'[p].keep = {}
      /\ \A q \in Procs : q # p => op'[q] = op[q]
      /\ quiet' = quiet \cup {p} /\ quiet \subseteq Procs
  BY BeginRollbackEffect DEF Moved, IInv, TypeOK
<1>2. UNCHANGED <<work, hidden, dirs, store, rows, manifest, truth>>
  BY DEF BeginRollback, disk
<1>3. Owned'
  BY <1>1, <1>2 DEF IInv, Owned, Creating
<1>4. CreateInv'
  BY <1>1, <1>2 DEF IInv, CreateInv, Walking, Listing, Visited
<1>5. EntriesBacked'
  BY <1>1, <1>2 DEF IInv, EntriesBacked, Stored
<1>6. QuietInv'
  BY <1>1, <1>2 DEF IInv, QuietInv, QuietWalk, QuietRestore, Seen, Listed, Present
<1>7. SnapshotFaithful'
  BY <1>2 DEF IInv, SnapshotFaithful
<1> QED BY <1>3, <1>4, <1>5, <1>6, <1>7 DEF IInv

(* What a step of a rollback leaves of the other operations, and of the
   snapshots: everything but the quiet invariant. *)
LEMMA RollbackStepKeeps ==
    ASSUME IInv, NEW p \in Procs, op'[p].pc \in {"restore", "prune"},
           op[p].pc \notin Creating, op'[p].snap = op[p].snap, op[p].pc # "idle",
           \A n \in op'[p].keep : Stored(op[p].snap, n),
           \A q \in Procs : q # p => op'[q] = op[q],
           UNCHANGED <<disk, truth>>
    PROVE  Owned' /\ CreateInv' /\ EntriesBacked' /\ SnapshotFaithful'
<1>1. Owned'
  BY PhaseFacts DEF IInv, Owned, Creating, Phases, disk
<1>2. CreateInv'
  BY DEF IInv, CreateInv, Walking, Listing, Visited, disk
<1>3. EntriesBacked'
  BY DEF IInv, EntriesBacked, Stored, disk
<1>4. SnapshotFaithful'
  BY DEF IInv, SnapshotFaithful, disk
<1> QED BY <1>1, <1>2, <1>3, <1>4

LEMMA LoadManifestKeepsInv ==
    ASSUME IInv, NEW p \in Procs, LoadManifest(p), TypeOK'
    PROVE  IInv'
<1>1. /\ op'[p].pc = "restore" /\ op'[p].snap = op[p].snap
      /\ op'[p].keep = Present(manifest[op[p].snap])
      /\ op'[p].todo = op'[p].keep
      /\ \A q \in Procs : q # p => op'[q] = op[q]
  BY LoadManifestEffect DEF Moved, IInv
<1>2. /\ op[p].pc = "load" /\ op[p].snap \in Snaps
      /\ quiet \subseteq Procs
      /\ UNCHANGED <<work, hidden, disk, quiet, truth>>
  BY PhaseFacts DEF LoadManifest, At, IInv, TypeOK, history
<1>3. \A n \in op'[p].keep : Stored(op[p].snap, n)
  BY <1>1, <1>2 DEF IInv, EntriesBacked
<1>4. Owned' /\ CreateInv' /\ EntriesBacked' /\ SnapshotFaithful'
  BY <1>1, <1>2, <1>3, RollbackStepKeeps DEF Creating
<1>5. QuietInv'
  BY <1>1, <1>2 DEF IInv, QuietInv, QuietWalk, QuietRestore, disk, Seen, Listed, Present
<1> QED BY <1>4, <1>5 DEF IInv

LEMMA PruneBeginKeepsInv ==
    ASSUME IInv, NEW p \in Procs, PruneBegin(p), TypeOK'
    PROVE  IInv'
<1>1. /\ op'[p].pc = "prune" /\ op'[p].snap = op[p].snap
      /\ op'[p].keep = op[p].keep
      /\ op'[p].todo = {f \in Listed : Lossy[f] \notin op[p].keep}
      /\ \A q \in Procs : q # p => op'[q] = op[q]
  BY PruneBeginEffect DEF Moved, IInv
<1>2. /\ op[p].pc = "restore" /\ op[p].todo = {}
      /\ quiet \subseteq Procs
      /\ UNCHANGED <<work, hidden, disk, quiet, truth>>
  BY DEF PruneBegin, At, IInv, TypeOK, history
<1>3. \A n \in op'[p].keep : Stored(op[p].snap, n)
  BY <1>1, <1>2 DEF IInv, EntriesBacked
<1>4. Owned' /\ CreateInv' /\ EntriesBacked' /\ SnapshotFaithful'
  BY <1>1, <1>2, <1>3, RollbackStepKeeps DEF Creating
<1>5. QuietInv'
  BY <1>1, <1>2 DEF IInv, QuietInv, QuietWalk, QuietRestore, disk, Seen, Listed, Present
<1> QED BY <1>4, <1>5 DEF IInv

(* A step that puts back or removes one file disturbs everybody else. *)
LEMMA WorkStepQuiet ==
    ASSUME NEW p \in Procs, quiet' = quiet \cap {p},
           p \in quiet => QuietRestore(p)',
           op'[p].pc \in {"restore", "prune"}
    PROVE  QuietInv'
BY DEF QuietInv

LEMMA RestoreFileKeepsInv ==
    ASSUME IInv, NEW p \in Procs, NEW f \in Files, At(p, "restore"), PutBack(p, f),
           UNCHANGED <<hidden, disk, truth>>, TypeOK'
    PROVE  IInv'
<1>1. /\ op[p].pc = "restore" /\ op[p].snap \in Snaps
      /\ work' = [work EXCEPT ![f] = store[op[p].snap][f]]
      /\ op' = [op EXCEPT ![p] = [op[p] EXCEPT !.todo = @ \ {f}]]
      /\ quiet' = quiet \cap {p}
      /\ UNCHANGED <<hidden, disk, truth>>
  BY PhaseFacts DEF PutBack, At, IInv, Continue, Disturb
<1>2. /\ op'[p].pc = "restore" /\ op'[p].snap = op[p].snap
      /\ op'[p].keep = op[p].keep /\ op'[p].todo = op[p].todo \ {f}
      /\ \A q \in Procs : q # p => op'[q] = op[q]
  BY <1>1, SkipEffect DEF Moved, IInv
<1>3. \A n \in op'[p].keep : Stored(op[p].snap, n)
  BY <1>2 DEF IInv, EntriesBacked
<1>4. Owned' /\ CreateInv' /\ EntriesBacked' /\ SnapshotFaithful'
  BY <1>1, <1>2, <1>3, RollbackStepKeeps DEF Creating
<1>5. ASSUME p \in quiet PROVE QuietRestore(p)'
  <2>1. QuietRestore(p)
    BY <1>1, <1>5 DEF IInv, QuietInv
  <2>2. store[op[p].snap][f] # None /\ op[p].keep \subseteq Files
    BY PhaseFacts DEF PutBack, IInv
  <2> QED BY <1>1, <1>2, <2>1, <2>2 DEF QuietRestore, disk, IInv, TypeOK, Image
<1>6. QuietInv'
  BY <1>1, <1>2, <1>5, WorkStepQuiet
<1> QED BY <1>4, <1>6 DEF IInv

LEMMA PruneFileKeepsInv ==
    ASSUME IInv, NEW p \in Procs, NEW f \in Files, PruneFile(p, f), TypeOK'
    PROVE  IInv'
<1>1. /\ op[p].pc = "prune" /\ Lossy[f] \notin op[p].keep
      /\ work' = [work EXCEPT ![f] = None]
      /\ quiet' = quiet \cap {p}
      /\ UNCHANGED <<hidden, disk, truth>>
  BY DEF PruneFile, At, Disturb
<1>2. /\ op'[p].pc = "prune" /\ op'[p].snap = op[p].snap
      /\ op'[p].keep = op[p].keep /\ op'[p].todo = op[p].todo \ {f}
      /\ \A q \in Procs : q # p => op'[q] = op[q]
  BY <1>1, PruneFileEffect DEF Moved, IInv
<1>3. \A n \in op'[p].keep : Stored(op[p].snap, n)
  BY <1>2 DEF IInv, EntriesBacked
<1>4. Owned' /\ CreateInv' /\ EntriesBacked' /\ SnapshotFaithful'
  BY <1>1, <1>2, <1>3, RollbackStepKeeps DEF Creating
<1>5. ASSUME p \in quiet PROVE QuietRestore(p)'
  <2>1. QuietRestore(p)
    BY <1>1, <1>5 DEF IInv, QuietInv
  <2>2. \A n \in op[p].keep : n \in Files /\ Lossy[n] = n
    BY StoredName DEF IInv, EntriesBacked
  <2>3. \A g \in Files : work'[g] = IF g = f THEN None ELSE work[g]
    BY <1>1 DEF IInv, TypeOK, Image
  <2>4. \A g \in Listed' : g \in Listed /\ g # f
    BY <1>1, <2>3 DEF Listed, Seen, Present
  <2> QED BY <1>1, <1>2, <2>1, <2>2, <2>3, <2>4 DEF QuietRestore, disk
<1>6. QuietInv'
  BY <1>1, <1>2, <1>5, WorkStepQuiet
<1> QED BY <1>4, <1>6 DEF IInv

LEMMA AgentWriteKeepsInv ==
    ASSUME IInv, NEW f \in Files, AgentWrite(f) \/ Hide(f), TypeOK'
    PROVE  IInv'
<1>1. UNCHANGED <<dirs, store, rows, manifest, op, truth>> /\ quiet' = {}
  BY DEF AgentWrite, Hide, disk
<1>2. Owned'
  BY <1>1 DEF IInv, Owned
<1>3. CreateInv'
  BY <1>1 DEF IInv, CreateInv, Walking, Listing, Visited
<1>4. EntriesBacked'
  BY <1>1 DEF IInv, EntriesBacked, Stored
<1>5. QuietInv'
  BY <1>1 DEF QuietInv
<1>6. SnapshotFaithful'
  BY <1>1 DEF IInv, SnapshotFaithful
<1> QED BY <1>2, <1>3, <1>4, <1>5, <1>6 DEF IInv

LEMMA CreateBeginKeepsInv ==
    ASSUME IInv, NEW p \in Procs, NEW a \in Agents, CreateBegin(p, a), TypeOK'
    PROVE  IInv'
<1> USE NoneAssumption
<1>1. PICK s \in Snaps \ dirs :
         /\ dirs' = dirs \cup {s}
         /\ op'[p].pc = "walk" /\ op'[p].snap = s /\ op'[p].todo = Listed
         /\ op'[p].cur = None /\ op'[p].hashes = Nothing /\ op'[p].keep = {}
         /\ \A q \in Procs : q # p => op'[q] = op[q]
         /\ quiet' = quiet \cup {p} /\ quiet \subseteq Procs
         /\ UNCHANGED <<work, hidden, store, rows, manifest, truth>>
  BY CreateBeginEffect DEF Moved, IInv, TypeOK
<1>2. \A q \in Procs : op[q].pc # "idle" => op[q].snap # s
  BY <1>1 DEF IInv, Owned
<1>3. Owned'
  BY <1>1, <1>2 DEF IInv, Owned, Creating
<1>4. CreateInv'
  <2>1. Walking(p)'
    BY <1>1 DEF IInv, Owned, Walking, Nothing
  <2>2. ASSUME NEW q \in Procs, q # p
        PROVE  /\ op'[q].pc \in {"walk", "copy"} => Walking(q)'
               /\ op'[q].pc = "files" => Listing(q)'
    BY <1>1, <2>2 DEF IInv, CreateInv, Walking, Listing, Visited
  <2> QED BY <1>1, <2>1, <2>2 DEF CreateInv
<1>5. EntriesBacked'
  BY <1>1 DEF IInv, EntriesBacked, Stored
<1>6. QuietInv'
  <2>1. QuietWalk(p)'
    BY <1>1 DEF IInv, Owned, QuietWalk, Nothing, Seen, Listed, Present
  <2>2. ASSUME NEW q \in quiet, q # p
        PROVE  /\ op'[q].pc \in {"walk", "copy"} => QuietWalk(q)'
               /\ op'[q].pc = "files" => (op[q].hashes = Seen /\ store[op[q].snap] = Seen)'
               /\ op'[q].pc \in {"restore", "prune"} => QuietRestore(q)'
    BY <1>1, <2>2 DEF IInv, QuietInv, QuietWalk, QuietRestore, Seen, Listed, Present
  <2> QED BY <1>1, <2>1, <2>2 DEF QuietInv
<1>7. SnapshotFaithful'
  BY <1>1 DEF IInv, SnapshotFaithful
<1> QED BY <1>3, <1>4, <1>5, <1>6, <1>7 DEF IInv

(* A step of a create_snapshot touches its own snapshot only and replaces no
   stored copy: it is enough to look at its own part of the invariant. *)
LEMMA CreateStepKeepsInv ==
    ASSUME IInv, TypeOK', NEW p \in Procs, NEW s \in Snaps, s = op[p].snap,
           op[p].pc \in Creating, op'[p].pc \in Creating,
           op'[p].snap = s, op'[p].keep = op[p].keep,
           \A q \in Procs : q # p => op'[q] = op[q],
           UNCHANGED <<work, hidden, dirs, quiet, truth>>,
           \A t \in Snaps : t # s => /\ store'[t] = store[t] /\ rows'[t] = rows[t]
                                     /\ manifest'[t] = manifest[t],
           \A f \in Files : store[s][f] # None => store'[s][f] = store[s][f],
           rows[s] # None => rows'[s] # None,
           \A n \in Files : manifest'[s][n] # None =>
               rows'[s] # None /\ \E f \in Files : Lossy[f] = n /\ store'[s][f] # None,
           op'[p].pc \in {"walk", "copy"} => Walking(p)',
           op'[p].pc = "files" => Listing(p)',
           p \in quiet /\ op'[p].pc \in {"walk", "copy"} => QuietWalk(p)',
           p \in quiet /\ op'[p].pc = "files" => op'[p].hashes = Seen /\ store'[s] = Seen
    PROVE  IInv'
<1>1. quiet \subseteq Procs /\ truth[s] = None /\ s \in dirs
  BY DEF IInv, TypeOK, CreateInv, Walking, Listing, Creating, Owned
<1>2. \A q \in Procs : q # p /\ op[q].pc \in Creating => op[q].snap # s
  BY DEF IInv, Owned
<1>3. \A q \in Procs : op[q].pc # "idle" => op[q].snap \in Snaps /\ op[q].keep \subseteq Files
  BY PhaseFacts DEF IInv
<1>4. \A q \in Procs : \A n \in op[q].keep : Stored(op[q].snap, n)
  BY DEF IInv, EntriesBacked
<1>5. Owned'
  BY <1>1, <1>2, <1>3 DEF IInv, Owned, Creating
<1>6. CreateInv'
  <2>1. ASSUME NEW q \in Procs, q # p
        PROVE  /\ op'[q].pc \in {"walk", "copy"} => Walking(q)'
               /\ op'[q].pc = "files" => Listing(q)'
    <3>1. ASSUME op[q].pc \in {"walk", "copy"} PROVE Walking(q)'
      <4>1. Walking(q) /\ op[q].snap \in Snaps /\ op[q].snap # s /\ op'[q] = op[q]
        BY <1>2, <1>3, <2>1, <3>1 DEF IInv, CreateInv, Creating
      <4> QED BY <4>1 DEF Walking
    <3>2. ASSUME op[q].pc = "files" PROVE Listing(q)'
      <4>1. Listing(q) /\ op[q].snap \in Snaps /\ op[q].snap # s /\ op'[q] = op[q]
        BY <1>2, <1>3, <2>1, <3>2 DEF IInv, CreateInv, Creating
      <4> QED BY <4>1 DEF Listing, Visited
    <3> QED BY <2>1, <3>1, <3>2
  <2> QED BY <2>1 DEF CreateInv
<1>7. EntriesBacked'
  <2>1. ASSUME NEW t \in Snaps, NEW f \in Present(manifest[t])'
        PROVE  rows'[t] # None /\ Stored(t, f)'
    BY <2>1 DEF IInv, EntriesBacked, Present, Stored
  <2>2. ASSUME NEW q \in Procs, NEW f \in op'[q].keep
        PROVE  Stored(op[q].snap, f)'
    <3>1. op'[q].keep = op[q].keep /\ op'[q].snap = op[q].snap
      OBVIOUS
    <3>2. Stored(op[q].snap, f)
      BY <1>4, <2>2, <3>1
    <3>3. CASE op[q].pc = "idle"
      BY <2>2, <3>1, <3>3 DEF IInv, Owned
    <3>4. CASE op[q].pc # "idle"
      BY <1>3, <2>2, <3>1, <3>2, <3>4 DEF Stored
    <3> QED BY <3>3, <3>4
  <2> QED BY <2>1, <2>2 DEF EntriesBacked
<1>8. QuietInv'
  <2>1. ASSUME NEW q \in quiet, q # p
        PROVE  /\ op'[q].pc \in {"walk", "copy"} => QuietWalk(q)'
               /\ op'[q].pc = "files" => (op[q].hashes = Seen /\ store[op[q].snap] = Seen)'
               /\ op'[q].pc \in {"restore", "prune"} => QuietRestore(q)'
    <3>1. q \in Procs /\ op'[q] = op[q]
      BY <1>1, <2>1
    <3>2. ASSUME op[q].pc \in Creating PROVE store'[op[q].snap] = store[op[q].snap]
      BY <1>2, <1>3, <2>1, <3>1, <3>2 DEF Creating
    <3>3. ASSUME op[q].pc \in {"walk", "copy"} PROVE QuietWalk(q)'
      <4>1. QuietWalk(q) /\ store'[op[q].snap] = store[op[q].snap]
        BY <2>1, <3>2, <3>3 DEF IInv, QuietInv, Creating
      <4>2. Seen' = Seen /\ Listed' = Listed
        BY DEF Seen, Listed, Present
      <4> QED BY <3>1, <4>1, <4>2 DEF QuietWalk
    <3>4. ASSUME op[q].pc = "files"
          PROVE  (op[q].hashes = Seen /\ store[op[q].snap] = Seen)'
      BY <2>1, <3>1, <3>2, <3>4 DEF IInv, QuietInv, Creating, Seen
    <3>5. ASSUME op[q].pc \in {"restore", "prune"} PROVE QuietRestore(q)'
      <4>1. QuietRestore(q) /\ op[q].snap \in Snaps /\ op[q].keep \subseteq Files
        BY <1>3, <2>1, <3>1, <3>5 DEF IInv, QuietInv
      <4>2. \A n \in op[q].keep : store[op[q].snap][n] # None => store'[op[q].snap][n] = store[op[q].snap][n]
        BY <3>1, <4>1
      <4> QED BY <3>1, <4>1, <4>2 DEF QuietRestore, Present, Seen, Listed
    <3> QED BY <3>1, <3>3, <3>4, <3>5
  <2>2. ASSUME p \in quiet
        PROVE  /\ op'[p].pc \in {"walk", "copy"} => QuietWalk(p)'
               /\ op'[p].pc = "files" => (op[p].hashes = Seen /\ store[op[p].snap] = Seen)'
               /\ op'[p].pc \notin {"restore", "prune"}
    BY <2>2 DEF Creating, Seen
  <2> QED BY <2>1, <2>2 DEF QuietInv
<1>9. SnapshotFaithful'
  <2> SUFFICES ASSUME NEW t \in Snaps, truth[t] # None
               PROVE  manifest'[t] = manifest[t] /\ store'[t] = store[t] /\ rows'[t] = rows[t]
    BY DEF IInv, SnapshotFaithful, Present, LossyNames
  <2> QED BY <1>1
<1> QED BY <1>5, <1>6, <1>7, <1>8, <1>9 DEF IInv


LEMMA HashFileKeepsInv ==
    ASSUME IInv, NEW p \in Procs, NEW f \in Files, HashFile(p, f), TypeOK'
    PROVE  IInv'
<1> DEFINE s == op[p].snap
<1>1. /\ op[p].pc = "walk" /\ op[p].cur = None /\ s \in Snaps
      /\ f \in op[p].todo \cup Listed
      /\ op[p].hashes[f] = None /\ work[f] # None /\ op[p].hashes \in Image
      /\ UNCHANGED <<work, hidden, disk, quiet, truth>>
  BY PhaseFacts DEF HashFile, At, IInv, history
<1>2. /\ op'[p].pc = "copy" /\ op'[p].snap = s /\ op'[p].keep = op[p].keep
      /\ op'[p].todo = op[p].todo /\ op'[p].cur = f
      /\ op'[p].hashes = [op[p].hashes EXCEPT ![f] = work[f]]
      /\ \A q \in Procs : q # p => op'[q] = op[q]
  BY HashFileEffect DEF Moved, IInv
<1>3. /\ op'[p].hashes[f] = work[f]
      /\ \A g \in Files \ {f} : op'[p].hashes[g] = op[p].hashes[g]
  BY <1>1, <1>2 DEF Image
<1>4. Walking(p)
  BY <1>1 DEF IInv, CreateInv
<1>5. Walking(p)'
  BY <1>1, <1>2, <1>3, <1>4, NoneAssumption DEF Walking, disk
<1>6. ASSUME p \in quiet PROVE QuietWalk(p)'
  <2>1. QuietWalk(p)
    BY <1>1, <1>6 DEF IInv, QuietInv
  <2>2. f \in Listed
    BY <1>1, <2>1 DEF QuietWalk
  <2>3. Seen[f] = work[f]
    BY <2>2 DEF Listed, Present, Seen
  <2> QED BY <1>1, <1>2, <1>3, <2>1, <2>3 DEF QuietWalk, disk, Seen, Listed, Present
<1>7. manifest[s] = Nothing
  BY <1>4 DEF Walking
<1> QED BY <1>1, <1>2, <1>5, <1>6, <1>7, CreateStepKeepsInv DEF Creating, disk, Nothing

LEMMA CopyFileKeepsInv ==
    ASSUME IInv, NEW p \in Procs, CopyFile(p), TypeOK'
    PROVE  IInv'
<1> DEFINE s == op[p].snap
           f == op[p].cur
<1>1. /\ op[p].pc = "copy" /\ f \in Files /\ s \in Snaps /\ work[f] # None
      /\ store' = [store EXCEPT ![s][f] = work[f]]
      /\ UNCHANGED <<work, hidden, dirs, rows, manifest, quiet, truth>>
  BY PhaseFacts DEF CopyFile, At, IInv, history
<1>2. /\ op'[p].pc = "walk" /\ op'[p].snap = s /\ op'[p].keep = op[p].keep
      /\ op'[p].todo = op[p].todo /\ op'[p].cur = None
      /\ op'[p].hashes = op[p].hashes
      /\ \A q \in Procs : q # p => op'[q] = op[q]
  BY CopyFileEffect DEF Moved, IInv
<1>3. /\ store'[s][f] = work[f]
      /\ \A g \in Files \ {f} : store'[s][g] = store[s][g]
      /\ \A t \in Snaps : t # s => store'[t] = store[t]
  BY <1>1 DEF IInv, TypeOK, Image
<1>4. Walking(p)
  BY <1>1 DEF IInv, CreateInv
<1>5. Walking(p)'
  BY <1>1, <1>2, <1>3, <1>4, NoneAssumption DEF Walking
<1>6. ASSUME p \in quiet PROVE QuietWalk(p)'
  <2>1. QuietWalk(p)
    BY <1>1, <1>6 DEF IInv, QuietInv
  <2>2. op[p].hashes[f] # None /\ op[p].hashes[f] = Seen[f]
    BY <1>1, <1>4, <2>1 DEF Walking, QuietWalk
  <2>3. Seen[f] = work[f]
    BY <1>1, <2>2 DEF Seen
  <2>4. Seen' = Seen /\ Listed' = Listed
    BY <1>1 DEF Seen, Listed, Present
  <2> QED BY <1>1, <1>2, <1>3, <2>1, <2>3, <2>4 DEF QuietWalk
<1>7. manifest[s] = Nothing /\ store[s][f] = None
  BY <1>1, <1>4 DEF Walking
<1>8. \A g \in Files : store[s][g] # None => store'[s][g] = store[s][g]
  BY <1>3, <1>7
<1> QED BY <1>1, <1>2, <1>3, <1>5, <1>6, <1>7, <1>8, CreateStepKeepsInv DEF Creating, Nothing

LEMMA InsertRowKeepsInv ==
    ASSUME IInv, NEW p \in Procs, InsertRow(p), TypeOK'
    PROVE  IInv'
<1> DEFINE s == op[p].snap
           row == [agent |-> op[p].agent, timestamp |-> op[p].timestamp,
                   file_count |-> Cardinality(Present(op[p].hashes))]
<1>1. /\ op[p].pc = "walk" /\ op[p].cur = None /\ s \in Snaps
      /\ op[p].todo \subseteq Present(op[p].hashes) /\ op[p].hashes \in Image
      /\ UNCHANGED <<work, hidden, dirs, store, manifest, quiet, truth>>
  BY PhaseFacts DEF InsertRow, At, IInv, history
<1>2. /\ op'[p].pc = "files" /\ op'[p].snap = s /\ op'[p].keep = op[p].keep
      /\ op'[p].todo = Present(op[p].hashes)
      /\ op'[p].hashes = op[p].hashes
      /\ \A q \in Procs : q # p => op'[q] = op[q]
  BY InsertRowEffect DEF Moved, IInv
<1>3. row \in Row
  BY <1>1, CountIsNat, PhaseFacts DEF Row, IInv, Creating
<1>4. rows' = [rows EXCEPT ![s] = row]
  BY DEF InsertRow
<1>5. /\ rows'[s] # None
      /\ rows'[s].file_count = Cardinality(Present(op[p].hashes))
      /\ \A t \in Snaps : t # s => rows'[t] = rows[t]
  BY <1>1, <1>3, <1>4, NoneAssumption DEF IInv, TypeOK
<1>6. Walking(p)
  BY <1>1 DEF IInv, CreateInv
<1>7. Listing(p)'
  BY <1>1, <1>2, <1>5, <1>6, NoneAssumption DEF Walking, Listing, Visited, Present, Nothing
<1>8. ASSUME p \in quiet PROVE op'[p].hashes = Seen /\ store'[s] = Seen
  <2>1. QuietWalk(p)
    BY <1>1, <1>8 DEF IInv, QuietInv
  <2>2. \A f \in Files : op[p].hashes[f] = Seen[f] /\ store[s][f] = Seen[f]
    BY <1>1, <1>6, <2>1, NoneAssumption DEF QuietWalk, Walking, Listed, Present
  <2>3. op[p].hashes \in Image /\ store[s] \in Image /\ Seen \in Image
    BY <1>1 DEF IInv, TypeOK, Seen, Image
  <2> QED BY <1>1, <1>2, <2>2, <2>3 DEF Image
<1>9. manifest[s] = Nothing
  BY <1>6 DEF Walking
<1> QED BY <1>1, <1>2, <1>5, <1>7, <1>8, <1>9, CreateStepKeepsInv DEF Creating, Nothing

LEMMA InsertFileKeepsInv ==
    ASSUME IInv, NEW p \in Procs, NEW f \in Files, InsertFile(p, f),
           manifest[op[p].snap][Lossy[f]] = None, TypeOK'
    PROVE  IInv'
<1> DEFINE s == op[p].snap
<1>1. /\ op[p].pc = "files" /\ s \in Snaps /\ f \in op[p].todo /\ Lossy \in [Files -> Files]
      /\ manifest' = [manifest EXCEPT ![s][Lossy[f]] = op[p].hashes[f]]
      /\ UNCHANGED <<work, hidden, dirs, store, rows, quiet, truth>>
  BY PhaseFacts, LossyAssumption DEF InsertFile, At, IInv
<1>2. /\ op'[p].pc = "files" /\ op'[p].snap = s /\ op'[p].keep = op[p].keep
      /\ op'[p].todo = op[p].todo \ {f}
      /\ op'[p].hashes = op[p].hashes
      /\ \A q \in Procs : q # p => op'[q] = op[q]
  BY <1>1, InsertFileEffect DEF Moved, IInv
<1>3. /\ manifest'[s][Lossy[f]] = op[p].hashes[f]
      /\ \A n \in Files \ {Lossy[f]} : manifest'[s][n] = manifest[s][n]
      /\ \A t \in Snaps : t # s => manifest'[t] = manifest[t]
  BY <1>1 DEF IInv, TypeOK, Image
<1>4. Listing(p)
  BY <1>1 DEF IInv, CreateInv
<1>5. Visited(p)' = Visited(p) \cup {f} /\ f \in Present(op[p].hashes)
  BY <1>1, <1>2, <1>4 DEF Listing, Visited, Present
<1>6. \A g \in Visited(p) : g \in Files /\ op[p].hashes[g] # None /\ Lossy[g] # Lossy[f]
  BY <1>4 DEF Listing, Visited, Present
<1>7. Listing(p)'
  <2>1. /\ rows'[s] # None /\ truth'[s] = None
        /\ rows'[s].file_count = Cardinality(Present(op'[p].hashes))
        /\ op'[p].todo \subseteq Present(op'[p].hashes)
        /\ \A g \in Files : (op'[p].hashes[g] # None) <=> (store'[s][g] # None)
    BY <1>1, <1>2, <1>4 DEF Listing, Present
  <2>2. \A g \in Visited(p)' : manifest'[s][Lossy[g]] = op'[p].hashes[g]
    BY <1>1, <1>2, <1>3, <1>4, <1>5, <1>6 DEF Listing
  <2>3. \A n \in Files : manifest'[s][n] # None => \E g \in Visited(p)' : Lossy[g] = n
    BY <1>3, <1>4, <1>5 DEF Listing
  <2>4. \A g, h \in Visited(p)' : Lossy[g] = Lossy[h] => g = h
    BY <1>4, <1>5, <1>6 DEF Listing
  <2> QED BY <1>2, <2>1, <2>2, <2>3, <2>4 DEF Listing
<1>8. ASSUME p \in quiet PROVE op'[p].hashes = Seen /\ store'[s] = Seen
  BY <1>1, <1>2, <1>8 DEF IInv, QuietInv
<1>9. \A n \in Files : manifest'[s][n] # None =>
          rows'[s] # None /\ \E g \in Files : Lossy[g] = n /\ store'[s][g] # None
  BY <1>2, <1>7 DEF Listing, Visited, Present
<1> QED BY <1>1, <1>2, <1>3, <1>7, <1>8, <1>9, CreateStepKeepsInv DEF Creating

LEMMA CreateReturnKeepsInv ==
    ASSUME IInv, NEW p \in Procs, CreateReturn(p), TypeOK'
    PROVE  IInv'
<1> DEFINE s == op[p].snap
<1>1. /\ op[p].pc = "files" /\ s \in Snaps /\ op[p].todo = {}
      /\ truth' = [truth EXCEPT ![s] = IF p \in quiet THEN Seen ELSE None]
      /\ UNCHANGED <<work, hidden, disk>>
      /\ quiet \subseteq Procs
  BY PhaseFacts DEF CreateReturn, At, IInv, TypeOK
<1>2. /\ op'[p].pc = "idle" /\ op'[p].keep = {}
      /\ \A q \in Procs : q # p => op'[q] = op[q]
      /\ quiet' = quiet \ {p}
  BY ReturnEffect DEF Ended, Moved, IInv, CreateReturn
<1>3. /\ truth'[s] = IF p \in quiet THEN Seen ELSE None
      /\ \A t \in Snaps : t # s => truth'[t] = truth[t]
  BY <1>1 DEF IInv, TypeOK
<1>4. Listing(p) /\ s \in dirs
  BY <1>1 DEF IInv, CreateInv, Owned
<1>5. \A q \in Procs : q # p /\ op[q].pc \in Creating => op[q].snap # s
  BY <1>1 DEF IInv, Owned, Creating
<1>6. Owned'
  BY <1>1, <1>2, <1>3, <1>4 DEF IInv, Owned, Creating, disk
<1>7. CreateInv'
  <2>1. ASSUME NEW q \in Procs, q # p
        PROVE  /\ op'[q].pc \in {"walk", "copy"} => Walking(q)'
               /\ op'[q].pc = "files" => Listing(q)'
    <3>1. op[q].pc \in Creating => op[q].snap \in Snaps /\ op[q].snap # s
      BY <1>5, <2>1, PhaseFacts DEF IInv, Creating
    <3> QED BY <1>1, <1>2, <1>3, <2>1, <3>1
            DEF IInv, CreateInv, Walking, Listing, Visited, disk, Creating
  <2> QED BY <1>2, <2>1 DEF CreateInv
<1>8. EntriesBacked'
  BY <1>1, <1>2 DEF IInv, EntriesBacked, Stored, disk
<1>9. QuietInv'
  BY <1>1, <1>2 DEF IInv, QuietInv, QuietWalk, QuietRestore, disk, Seen, Listed, Present
<1>10. SnapshotFaithful'
  <2> DEFINE Exact(t, image) ==
                LET files == Present(image)
                IN  /\ store[t] = image
                    /\ Present(manifest[t]) = LossyNames(files)
                    /\ \A f \in files : manifest[t][Lossy[f]] = image[f]
                    /\ rows[t].file_count = Cardinality(files)
                    /\ \A f, g \in files : Lossy[f] = Lossy[g] => f = g
  <2>1. ASSUME p \in quiet PROVE Exact(s, Seen)
    <3>1. op[p].hashes = Seen /\ store[s] = Seen
      BY <1>1, <2>1 DEF IInv, QuietInv
    <3>2. Visited(p) = Present(Seen)
      BY <1>1, <3>1 DEF Visited, Present
    <3>3. Present(manifest[s]) = LossyNames(Present(Seen))
      <4>1. \A f \in Present(Seen) : Lossy[f] \in Files /\ manifest[s][Lossy[f]] # None
        BY <1>4, <3>1, <3>2, LossyAssumption DEF Listing, Present
      <4>2. \A n \in Present(manifest[s]) : \E f \in Present(Seen) : Lossy[f] = n
        BY <1>4, <3>2 DEF Listing, Present
      <4> QED BY <4>1, <4>2 DEF LossyNames, Present
    <3> QED BY <1>4, <3>1, <3>2, <3>3 DEF Listing
  <2>2. ASSUME NEW t \in Snaps, truth'[t] # None PROVE Exact(t, truth'[t])
    <3>1. CASE t = s
      BY <1>3, <2>1, <2>2, <3>1
    <3>2. CASE t # s
      BY <1>3, <2>2, <3>2 DEF IInv, SnapshotFaithful
    <3> QED BY <3>1, <3>2
  <2> QED BY <1>1, <2>2 DEF SnapshotFaithful, Present, LossyNames, disk
<1> QED BY <1>6, <1>7, <1>8, <1>9, <1>10 DEF IInv

--------------------------------------------------------------------------------
(* The invariant holds in every reachable state *)

LEMMA InvInit == Init => IInv
<1> SUFFICES ASSUME Init PROVE IInv
  OBVIOUS
<1> USE NoneAssumption DEF Init, Idle, Nothing, Present
<1>1. Owned
  BY DEF Owned, Creating
<1>2. CreateInv
  BY DEF CreateInv
<1>3. EntriesBacked
  BY DEF EntriesBacked
<1>4. QuietInv
  BY DEF QuietInv
<1>5. SnapshotFaithful
  BY DEF SnapshotFaithful
<1> QED BY <1>1, <1>2, <1>3, <1>4, <1>5, TypeInit DEF IInv

LEMMA ProcStepKeepsInv ==
    ASSUME IInv, TypeOK', NEW p \in Procs, ProcStep(p)
    PROVE  IInv'
<1>1. ASSUME NEW a \in Agents, CreateBegin(p, a) PROVE IInv'
  BY <1>1, CreateBeginKeepsInv
<1>2. ASSUME NEW f \in Files, HashFile(p, f) PROVE IInv'
  BY <1>2, HashFileKeepsInv
<1>3. ASSUME NEW f \in Files, HashMissing(p, f) PROVE IInv'
  <2>1. CASE Return(p, "err")
    BY <1>3, <2>1, ReturnEffect, EndedKeepsInv DEF HashMissing, IInv
  <2>2. CASE Continue(p, [op[p] EXCEPT !.todo = @ \ {f}]) /\ UNCHANGED quiet
    <3>1. Moved(p, op[p].pc, op[p].snap, op[p].agent, op[p].todo \ {f}, op[p].cur,
                op[p].hashes, op[p].keep)
      BY <2>2, SkipEffect DEF Continue, IInv
    <3> QED BY <1>3, <2>2, <3>1, SkipKeepsInv DEF HashMissing, At, history
  <2> QED BY <1>3, <2>1, <2>2 DEF HashMissing
<1>4. ASSUME NEW f \in Files, InsertFile(p, f) PROVE IInv'
  <2>1. CASE manifest[op[p].snap][Lossy[f]] # None
    BY <1>4, <2>1, ReturnEffect, EndedKeepsInv DEF InsertFile, IInv, disk
  <2>2. CASE manifest[op[p].snap][Lossy[f]] = None
    BY <1>4, <2>2, InsertFileKeepsInv
  <2> QED BY <2>1, <2>2
<1>5. CASE CopyFile(p)
  BY <1>5, CopyFileKeepsInv
<1>6. CASE CopyMissing(p)
  BY <1>6, ReturnEffect, EndedKeepsInv DEF CopyMissing, IInv
<1>7. CASE InsertRow(p)
  BY <1>7, InsertRowKeepsInv
<1>8. CASE CreateReturn(p)
  BY <1>8, CreateReturnKeepsInv
<1>9. CASE NotFound(p)
  BY <1>9, ReturnEffect, EndedKeepsInv DEF NotFound, IInv
<1>10. ASSUME NEW s \in Snaps, BeginRollback(p, s), rows[s] # None PROVE IInv'
  BY <1>10, BeginRollbackKeepsInv
<1>11. CASE LoadManifest(p)
  BY <1>11, LoadManifestKeepsInv
<1>12. CASE PruneBegin(p)
  BY <1>12, PruneBeginKeepsInv
<1>13. CASE RollbackReturn(p)
  BY <1>13, ReturnEffect, EndedKeepsInv DEF RollbackReturn, IInv
<1>14. ASSUME NEW f \in Files, RestoreFile(p, f) PROVE IInv'
  <2>1. CASE Return(p, "err") /\ UNCHANGED work
    BY <1>14, <2>1, ReturnEffect, EndedKeepsInv DEF RestoreFile, IInv
  <2>2. CASE PutBack(p, f)
    BY <1>14, <2>2, RestoreFileCases, RestoreFileKeepsInv
  <2> QED BY <1>14, <2>1, <2>2, RestoreFileCases
<1>15. ASSUME NEW f \in Files, PruneFile(p, f) PROVE IInv'
  BY <1>15, PruneFileKeepsInv
<1>16. ASSUME NEW f \in Files, PruneMissing(p, f) PROVE IInv'
  <2>1. CASE Return(p, "err")
    BY <1>16, <2>1, ReturnEffect, EndedKeepsInv DEF PruneMissing, IInv
  <2>2. CASE Continue(p, [op[p] EXCEPT !.todo = @ \ {f}]) /\ UNCHANGED quiet
    <3>1. Moved(p, op[p].pc, op[p].snap, op[p].agent, op[p].todo \ {f}, op[p].cur,
                op[p].hashes, op[p].keep)
      BY <2>2, SkipEffect DEF Continue, IInv
    <3> QED BY <1>16, <2>2, <3>1, SkipKeepsInv DEF PruneMissing, At, history
  <2> QED BY <1>16, <2>1, <2>2 DEF PruneMissing
<1>17. CASE Fault(p)
  <2>1. PICK answer \in {"err", "none"} : Return(p, answer)
    BY <1>17 DEF Fault
  <2> QED BY <1>17, <2>1, ReturnEffect, EndedKeepsInv DEF Fault, IInv
<1> QED BY <1>1, <1>2, <1>3, <1>4, <1>5, <1>6, <1>7, <1>8, <1>9, <1>10, <1>11,
           <1>12, <1>13, <1>14, <1>15, <1>16, <1>17 DEF ProcStep

LEMMA InvNext == IInv /\ [Next]_vars => IInv'
<1> SUFFICES ASSUME IInv, [Next]_vars PROVE IInv'
  OBVIOUS
<1>1. TypeOK'
  BY TypeNext DEF IInv
<1>2. CASE Next
  BY <1>1, <1>2, NextSteps, ProcStepKeepsInv, AgentWriteKeepsInv
<1>3. CASE UNCHANGED vars
  <2>1. Owned' /\ CreateInv'
    BY <1>3 DEF vars, IInv, Owned, CreateInv, Walking, Listing, Visited
  <2>2. EntriesBacked' /\ SnapshotFaithful'
    BY <1>3 DEF vars, IInv, EntriesBacked, Stored, SnapshotFaithful
  <2>3. QuietInv'
    BY <1>3 DEF vars, IInv, QuietInv, QuietWalk, QuietRestore, Seen, Listed, Present
  <2> QED BY <1>1, <2>1, <2>2, <2>3 DEF IInv
<1> QED BY <1>2, <1>3

THEOREM Invariance == Spec => []IInv
BY InvInit, InvNext, PTL DEF Spec

(* A manifest entry always has its row and its stored copy, whatever fails:
   a rollback never misses a file it has to put back. *)
THEOREM Backed == Spec => []EntriesBacked
<1>1. IInv => EntriesBacked
  BY DEF IInv
<1> QED BY <1>1, Invariance, PTL

(* An undisturbed snapshot that was reported as taken is exact, for ever. *)
THEOREM Faithful == Spec => []SnapshotFaithful
<1>1. IInv => SnapshotFaithful
  BY DEF IInv
<1> QED BY <1>1, Invariance, PTL

(* An undisturbed rollback of such a snapshot restores the working directory. *)
THEOREM RollbackRestores == Spec => []RoundTrip
<1>1. IInv => RoundTrip
  <2> SUFFICES ASSUME IInv, NEW p \in Procs, At(p, "prune"), op[p].todo = {},
                      p \in quiet, truth[op[p].snap] # None,
                      op[p].keep = LossyNames(Present(truth[op[p].snap]))
               PROVE  LET s == op[p].snap
                          image == truth[s]
                      IN  /\ \A f \in Present(image) : Lossy[f] = f /\ work[f] = image[f]
                          /\ LossyNames(Listed) \subseteq Present(image)
                          /\ Diff(s).added = {} /\ Diff(s).deleted \subseteq hidden
                          /\ Diff(s).modified \subseteq {Lossy[f] : f \in {g \in Listed : Lossy[g] # g}}
    BY DEF RoundTrip
  <2> DEFINE s == op[p].snap
             image == truth[s]
  <2>1. s \in Snaps
    BY PhaseFacts DEF IInv, At
  <2>2. /\ store[s] = image /\ Present(manifest[s]) = LossyNames(Present(image))
        /\ \A f \in Present(image) : manifest[s][Lossy[f]] = image[f]
        /\ \A f, g \in Present(image) : Lossy[f] = Lossy[g] => f = g
    BY <2>1 DEF IInv, SnapshotFaithful
  <2>3. QuietRestore(p)
    BY DEF IInv, QuietInv, At
  <2>4. ASSUME NEW f \in Present(image) PROVE Lossy[f] = f /\ work[f] = image[f]
    <3>1. f \in Files /\ Lossy[f] \in op[p].keep /\ Lossy[f] \in Files /\ Lossy[Lossy[f]] = Lossy[f]
      BY LossyAssumption DEF LossyNames, Present
    <3>2. image[Lossy[f]] # None /\ work[Lossy[f]] = image[Lossy[f]]
      BY <2>2, <2>3, <3>1 DEF QuietRestore, At
    <3>3. Lossy[f] = f
      BY <2>2, <3>1, <3>2 DEF Present
    <3> QED BY <3>2, <3>3
  <2>5. op[p].keep = Present(image)
    BY <2>4 DEF LossyNames, Present
  <2>6. LossyNames(Listed) \subseteq Present(image)
    BY <2>3, <2>5 DEF QuietRestore, At, LossyNames
  <2>7. Diff(s).added = {}
    BY <2>2, <2>5, <2>6 DEF Diff
  <2>8. Diff(s).deleted \subseteq hidden
    <3> SUFFICES ASSUME NEW n \in Present(image), n \notin LossyNames(Listed) PROVE n \in hidden
      BY <2>2, <2>5 DEF Diff
    <3>1. n \in Files /\ n \notin Listed /\ work[n] # None
      BY <2>4 DEF LossyNames, Present
    <3> QED BY <3>1 DEF Listed, Seen, Present
  <2>9. Diff(s).modified \subseteq {Lossy[f] : f \in {g \in Listed : Lossy[g] # g}}
    <3> SUFFICES ASSUME NEW n \in Present(image), NEW f \in Listed, Lossy[f] = n,
                        work[f] # manifest[s][n]
                 PROVE  Lossy[f] # f
      BY <2>2, <2>5 DEF Diff
    <3> QED BY <2>2, <2>4
  <2> QED BY <2>4, <2>6, <2>7, <2>8, <2>9
<1> QED BY <1>1, Invariance, PTL

(* What is stored can be put back, whatever fails. *)
THEOREM Recovery == Spec => []Recoverable
<1>1. EntriesBacked /\ SnapshotFaithful /\ RoundTrip => Recoverable
  BY DEF Recoverable
<1> QED BY <1>1, Backed, Faithful, RollbackRestores, PTL

--------------------------------------------------------------------------------
(* Without failures *)

(* A snapshot that is not being created, and whose files have a name each, has all
   its rows, and nothing stored that they do not name. *)
Complete ==
    \A s \in Snaps : rows[s] # None /\ ~Collides(s) /\ ~BeingCreated(s) =>
        /\ rows[s].file_count = Cardinality(Present(manifest[s]))
        /\ LossyNames(Present(store[s])) \subseteq Present(manifest[s])

LEMMA NamesCount ==
    ASSUME NEW files \in SUBSET Files
    PROVE  /\ IsFiniteSet(LossyNames(files)) /\ Cardinality(LossyNames(files)) \in Nat
           /\ Cardinality(LossyNames(files)) <= Cardinality(files)
<1>1. IsFiniteSet(files)
  BY FilesAssumption, FS_Subset
<1>2. [f \in files |-> Lossy[f]] \in Surjection(files, LossyNames(files))
  BY DEF Surjection, LossyNames
<1> QED BY <1>1, <1>2, FS_Surjection, FS_CardinalityType

(* The rows that are in are the names of the files visited, as many as they. *)
LEMMA ListingNames ==
    ASSUME IInv, NEW p \in Procs, op[p].pc = "files"
    PROVE  /\ Present(manifest[op[p].snap]) = LossyNames(Visited(p))
           /\ Cardinality(LossyNames(Visited(p))) = Cardinality(Visited(p))
           /\ Cardinality(Visited(p)) <= Cardinality(Present(op[p].hashes))
<1> DEFINE s == op[p].snap
           g == [f \in Visited(p) |-> Lossy[f]]
<1>1. Listing(p)
  BY DEF IInv, CreateInv
<1>2. Visited(p) \subseteq Present(op[p].hashes) /\ Present(op[p].hashes) \subseteq Files
  BY DEF Visited, Present
<1>3. IsFiniteSet(Visited(p)) /\ IsFiniteSet(Present(op[p].hashes))
  BY <1>2, FilesAssumption, FS_Subset
<1>4. Present(manifest[s]) = LossyNames(Visited(p))
  <2>1. \A f \in Visited(p) : Lossy[f] \in Files /\ manifest[s][Lossy[f]] # None
    BY <1>1, <1>2, LossyAssumption DEF Listing, Present
  <2>2. \A n \in Present(manifest[s]) : \E f \in Visited(p) : Lossy[f] = n
    BY <1>1 DEF Listing, Present
  <2> QED BY <2>1, <2>2 DEF LossyNames, Present
<1>5. g \in Surjection(Visited(p), LossyNames(Visited(p)))
  BY DEF Surjection, LossyNames
<1>6. g \in Injection(Visited(p), LossyNames(Visited(p)))
  BY <1>1 DEF Injection, IsInjective, LossyNames, Listing
<1>7. Cardinality(LossyNames(Visited(p))) = Cardinality(Visited(p))
  BY <1>3, <1>5, <1>6, FS_Surjection
<1>8. Cardinality(Visited(p)) <= Cardinality(Present(op[p].hashes))
  BY <1>2, <1>3, FS_Subset
<1> QED BY <1>4, <1>7, <1>8

(* A step changes no snapshot but the one its process is creating, and ends the
   creation only before there is a row, or with all rows in. *)
LEMMA CompleteKept ==
    ASSUME IInv, Complete, NEW p \in Procs,
           \A q \in Procs : q # p => op'[q] = op[q],
           \A s \in Snaps : (op[p].pc \in Creating => s # op[p].snap) =>
               rows'[s] = rows[s] /\ manifest'[s] = manifest[s] /\ store'[s] = store[s],
           op[p].pc \in Creating =>
               \/ op'[p].pc \in Creating /\ op'[p].snap = op[p].snap
               \/ op[p].pc \in {"walk", "copy"} /\ UNCHANGED disk
               \/ op[p].pc = "files" /\ op[p].todo = {} /\ UNCHANGED disk
               \/ Collides(op[p].snap) /\ UNCHANGED disk
    PROVE  Complete'
<1> SUFFICES ASSUME NEW s \in Snaps, rows'[s] # None, ~BeingCreated(s)', ~Collides(s)'
             PROVE  /\ rows'[s].file_count = Cardinality(Present(manifest'[s]))
                    /\ LossyNames(Present(store'[s])) \subseteq Present(manifest'[s])
  BY DEF Complete, Present, LossyNames
<1>1. CASE op[p].pc \in Creating /\ op[p].snap = s
  <2>1. ~(op'[p].pc \in Creating /\ op'[p].snap = s)
    BY DEF BeingCreated
  <2>2. CASE op[p].pc \in {"walk", "copy"} /\ UNCHANGED disk
    BY <1>1, <2>2 DEF IInv, CreateInv, Walking, disk
  <2>3. CASE op[p].pc = "files" /\ op[p].todo = {} /\ UNCHANGED disk
    <3>1. Listing(p) /\ UNCHANGED disk
      BY <2>3 DEF IInv, CreateInv
    <3>2. Visited(p) = Present(op[p].hashes) /\ Present(store[s]) = Present(op[p].hashes)
      BY <1>1, <2>3, <3>1 DEF Listing, Visited, Present
    <3>3. Present(manifest[s]) = LossyNames(Present(op[p].hashes))
      BY <1>1, <2>3, <3>2, ListingNames
    <3>4. Cardinality(Present(manifest[s])) = Cardinality(Present(op[p].hashes))
      BY <1>1, <2>3, <3>2, ListingNames
    <3> QED BY <1>1, <3>1, <3>2, <3>3, <3>4 DEF Listing, disk
  <2>4. CASE Collides(s) /\ UNCHANGED disk
    BY <2>4 DEF Collides, Present, disk
  <2> QED BY <1>1, <2>1, <2>2, <2>3, <2>4
<1>2. CASE ~(op[p].pc \in Creating /\ op[p].snap = s)
  <2>1. rows'[s] = rows[s] /\ manifest'[s] = manifest[s] /\ store'[s] = store[s]
    BY <1>2
  <2>2. ~BeingCreated(s)
    BY <1>2 DEF BeingCreated
  <2>3. ~Collides(s)
    BY <2>1 DEF Collides, Present
  <2> QED BY <2>1, <2>2, <2>3 DEF Complete
<1> QED BY <1>1, <1>2

(* The steps of a rollback after it has loaded the manifest. *)
LEMMA RollbackSteps ==
    ASSUME TypeOK, NEW p \in Procs, NEW f \in Files,
           \/ PruneBegin(p)
           \/ RestoreFile(p, f) \/ PruneFile(p, f) \/ PruneMissing(p, f)
    PROVE  /\ op[p].pc \in {"restore", "prune"} /\ UNCHANGED disk
           /\ \A q \in Procs : q # p => op'[q] = op[q]
           /\ \/ op'[p].pc = "idle"
              \/ /\ op'[p].pc \in {"restore", "prune"}
                 /\ op'[p].snap = op[p].snap /\ op'[p].keep = op[p].keep
<1> DEFINE Goes == /\ \A q \in Procs : q # p => op'[q] = op[q]
                   /\ \/ op'[p].pc = "idle"
                      \/ /\ op'[p].pc \in {"restore", "prune"}
                         /\ op'[p].snap = op[p].snap /\ op'[p].keep = op[p].keep
<1>1. op[p].pc \in {"restore", "prune"} /\ UNCHANGED disk
  BY DEF PruneBegin, RestoreFile, PruneFile, PruneMissing, At
<1>2. ASSUME NEW answer \in {"none", "ok", "err"}, Return(p, answer) PROVE Goes
  BY <1>2, ReturnEffect DEF Ended, Moved
<1>3. ASSUME op' = [op EXCEPT ![p] = [op[p] EXCEPT !.todo = @ \ {f}]] PROVE Goes
  BY <1>1, <1>3, SkipEffect DEF Moved
<1>4. PruneBegin(p) => Goes
  BY PruneBeginEffect DEF Moved
<1>5. PruneFile(p, f) => Goes
  BY <1>1, PruneFileEffect DEF Moved
<1> HIDE DEF Goes
<1>6. RestoreFile(p, f) => Goes
  BY <1>2, <1>3 DEF RestoreFile, Continue
<1>7. PruneMissing(p, f) => Goes
  BY <1>2, <1>3 DEF PruneMissing, Continue
<1>8. Goes
  BY <1>4, <1>5, <1>6, <1>7
<1> QED BY <1>1, <1>8 DEF Goes

(* Completeness needs no more than that nothing fails. *)
LEMMA ProcStepCompletes ==
    ASSUME MaxFaults = 0, IInv, Complete, NEW p \in Procs, ProcStep(p)
    PROVE  Complete'
<1>1. ASSUME op[p].pc \notin Creating, UNCHANGED <<rows, manifest, store>>,
             \A q \in Procs : q # p => op'[q] = op[q]
      PROVE  Complete'
  BY <1>1, CompleteKept
<1>2. ASSUME op[p].pc \in Creating, op'[p].pc \in Creating, op'[p].snap = op[p].snap,
             \A q \in Procs : q # p => op'[q] = op[q],
             \A s \in Snaps : s # op[p].snap =>
                 rows'[s] = rows[s] /\ manifest'[s] = manifest[s] /\ store'[s] = store[s]
      PROVE  Complete'
  BY <1>2, CompleteKept
<1>3. ASSUME NEW answer \in {"none", "ok", "err"}, Return(p, answer), UNCHANGED disk,
             op[p].pc = "files" => op[p].todo = {} \/ Collides(op[p].snap)
      PROVE  Complete'
  <2>1. \A q \in Procs : q # p => op'[q] = op[q]
    BY <1>3, ReturnEffect DEF Ended, Moved, IInv
  <2>2. op[p].pc \in Creating =>
            \/ op[p].pc \in {"walk", "copy"} \/ Collides(op[p].snap)
            \/ (op[p].pc = "files" /\ op[p].todo = {})
    BY <1>3 DEF Creating
  <2> QED BY <1>3, <2>1, <2>2, CompleteKept DEF disk
<1>4. op[p].pc = "idle" => op[p].pc \notin Creating
  BY DEF Creating
<1>5. ASSUME NEW a \in Agents, CreateBegin(p, a) PROVE Complete'
  BY <1>1, <1>4, <1>5, CreateBeginEffect DEF Moved, IInv
<1>6. ASSUME NEW f \in Files, HashFile(p, f) PROVE Complete'
  <2>1. op'[p].pc = "copy" /\ op'[p].snap = op[p].snap /\ \A q \in Procs : q # p => op'[q] = op[q]
    BY <1>6, HashFileEffect DEF Moved, IInv
  <2>2. op[p].pc = "walk" /\ UNCHANGED disk
    BY <1>6 DEF HashFile, At
  <2> QED BY <1>2, <2>1, <2>2 DEF Creating, disk
<1>7. ASSUME NEW f \in Files, HashMissing(p, f) PROVE Complete'
  <2>1. op[p].pc = "walk" /\ UNCHANGED disk
    BY <1>7 DEF HashMissing, At
  <2>2. CASE op' = [op EXCEPT ![p] = [op[p] EXCEPT !.todo = @ \ {f}]]
    <3>1. op'[p].pc = "walk" /\ op'[p].snap = op[p].snap /\ \A q \in Procs : q # p => op'[q] = op[q]
      BY <2>1, <2>2, SkipEffect DEF Moved, IInv
    <3> QED BY <1>2, <2>1, <3>1 DEF Creating, disk
  <2> QED BY <1>3, <1>7, <2>1, <2>2 DEF HashMissing, Continue
<1>8. ASSUME NEW f \in Files, InsertFile(p, f) PROVE Complete'
  <2>1. op[p].pc = "files" /\ op[p].snap \in Snaps /\ f \in op[p].todo
    BY <1>8, PhaseFacts DEF InsertFile, At, IInv
  <2>2. CASE manifest[op[p].snap][Lossy[f]] = None
    <3>1. /\ UNCHANGED <<rows, store>>
          /\ \A s \in Snaps : s # op[p].snap => manifest'[s] = manifest[s]
      BY <1>8, <2>2 DEF InsertFile, IInv, TypeOK
    <3>2. op'[p].pc = "files" /\ op'[p].snap = op[p].snap /\ \A q \in Procs : q # p => op'[q] = op[q]
      BY <1>8, <2>1, <2>2, InsertFileEffect DEF Moved, IInv
    <3> QED BY <1>2, <2>1, <3>1, <3>2 DEF Creating
  <2>3. CASE manifest[op[p].snap][Lossy[f]] # None
    <3>1. Return(p, "err") /\ UNCHANGED disk
      BY <1>8, <2>3 DEF InsertFile, disk
    <3>2. Listing(p) /\ Lossy[f] \in Files
      BY <2>1, LossyAssumption DEF IInv, CreateInv
    <3>3. PICK g \in Visited(p) : Lossy[g] = Lossy[f]
      BY <2>3, <3>2 DEF Listing
    <3>4. f \in Present(store[op[p].snap]) /\ g \in Present(store[op[p].snap]) /\ f # g
      BY <2>1, <3>2, <3>3 DEF Listing, Visited, Present
    <3>5. Collides(op[p].snap)
      BY <3>3, <3>4 DEF Collides
    <3> QED BY <1>3, <3>1, <3>5
  <2> QED BY <2>2, <2>3
<1>9. CASE CopyFile(p)
  <2>1. op[p].pc = "copy" /\ op[p].snap \in Snaps
    BY <1>9, PhaseFacts DEF CopyFile, At, IInv
  <2>2. /\ UNCHANGED <<rows, manifest>>
        /\ \A s \in Snaps : s # op[p].snap => store'[s] = store[s]
    BY <1>9 DEF CopyFile, IInv, TypeOK
  <2>3. op'[p].pc = "walk" /\ op'[p].snap = op[p].snap /\ \A q \in Procs : q # p => op'[q] = op[q]
    BY <1>9, CopyFileEffect DEF Moved, IInv
  <2> QED BY <1>2, <2>1, <2>2, <2>3 DEF Creating
<1>10. CASE CopyMissing(p)
  BY <1>3, <1>10 DEF CopyMissing, At
<1>11. CASE InsertRow(p)
  <2>1. op[p].pc = "walk" /\ op[p].snap \in Snaps
    BY <1>11, PhaseFacts DEF InsertRow, At, IInv
  <2>2. /\ UNCHANGED <<store, manifest>>
        /\ \A s \in Snaps : s # op[p].snap => rows'[s] = rows[s]
    BY <1>11 DEF InsertRow, IInv, TypeOK
  <2>3. op'[p].pc = "files" /\ op'[p].snap = op[p].snap /\ \A q \in Procs : q # p => op'[q] = op[q]
    BY <1>11, InsertRowEffect DEF Moved, IInv
  <2> QED BY <1>2, <2>1, <2>2, <2>3 DEF Creating
<1>12. CASE CreateReturn(p)
  BY <1>3, <1>12 DEF CreateReturn
<1>13. CASE NotFound(p)
  BY <1>3, <1>13 DEF NotFound, At
<1>14. ASSUME NEW s \in Snaps, BeginRollback(p, s) PROVE Complete'
  <2>1. op[p].pc = "idle" /\ UNCHANGED disk
    BY <1>14 DEF BeginRollback, At
  <2> QED BY <1>1, <1>4, <1>14, <2>1, BeginRollbackEffect DEF Moved, IInv, disk
<1>15. CASE LoadManifest(p)
  <2>1. op[p].pc \notin Creating /\ UNCHANGED disk
    BY <1>15 DEF LoadManifest, At, Creating
  <2> QED BY <1>1, <1>15, <2>1, LoadManifestEffect DEF Moved, IInv, disk
<1>16. ASSUME NEW f \in Files,
              \/ PruneBegin(p)
              \/ RestoreFile(p, f) \/ PruneFile(p, f) \/ PruneMissing(p, f)
       PROVE  Complete'
  <2>1. /\ op[p].pc \in {"restore", "prune"} /\ UNCHANGED disk
        /\ \A q \in Procs : q # p => op'[q] = op[q]
    BY <1>16, RollbackSteps DEF IInv
  <2> QED BY <1>1, <2>1 DEF Creating, disk
<1>17. CASE PruneBegin(p)
  <2>1. op[p].pc \notin Creating /\ UNCHANGED disk
    BY <1>17 DEF PruneBegin, At, Creating
  <2> QED BY <1>1, <1>17, <2>1, PruneBeginEffect DEF Moved, IInv, disk
<1>18. CASE RollbackReturn(p)
  BY <1>3, <1>18 DEF RollbackReturn, At
<1>19. ~Fault(p)
  BY DEF Fault, IInv, TypeOK
<1> QED BY <1>5, <1>6, <1>7, <1>8, <1>9, <1>10, <1>11, <1>12, <1>13,
           <1>14, <1>15, <1>16, <1>17, <1>18, <1>19 DEF ProcStep

(* As long as nothing fails, in any interleaving of any number of processes, a
   snapshot that nobody creates any more, and whose files have a name each, has all
   the rows its count says, and what a rollback that has read them removes for want
   of a row was not in the snapshot. *)
THEOREM TrueManifest ==
    ASSUME MaxFaults = 0
    PROVE  Spec => []ManifestTrue
<1>1. Init => Complete
  BY DEF Init, Complete
<1>2. IInv /\ Complete /\ [Next]_vars => Complete'
  <2> SUFFICES ASSUME IInv, Complete, [Next]_vars PROVE Complete'
    OBVIOUS
  <2>1. ASSUME UNCHANGED <<op, rows, manifest, store>> PROVE Complete'
    BY <2>1 DEF Complete, BeingCreated, Collides, Present, LossyNames
  <2> QED BY <2>1, NextSteps, ProcStepCompletes DEF AgentWrite, Hide, disk, vars
<1>3. IInv /\ Complete => ManifestTrue
  <2> SUFFICES ASSUME IInv, Complete PROVE ManifestTrue
    OBVIOUS
  <2>1. ManifestComplete
    BY DEF Complete, ManifestComplete
  <2>2. PruneSparesSnapshot
    <3> SUFFICES ASSUME NEW p \in Procs, At(p, "prune"), ~BeingCreated(op[p].snap),
                        op[p].keep = Present(manifest[op[p].snap]), ~Collides(op[p].snap),
                        NEW f \in Files, Lossy[f] \notin op[p].keep
                 PROVE  store[op[p].snap][f] = None
      BY DEF PruneSparesSnapshot, Present
    <3>1. op[p].snap \in Snaps /\ rows[op[p].snap] # None
      BY PhaseFacts DEF At, IInv, Owned
    <3>2. LossyNames(Present(store[op[p].snap])) \subseteq op[p].keep
      BY <3>1 DEF Complete
    <3> QED BY <3>2 DEF LossyNames, Present
  <2> QED BY <2>1, <2>2 DEF ManifestTrue
<1> QED BY <1>1, <1>2, <1>3, Invariance, PTL DEF Spec

--------------------------------------------------------------------------------
(* The engine implements the write-once catalogue *)

AbstractStep ==
    \/ \E s \in Snaps : Abstract!Seal(s) \/ \E f \in Files : Abstract!Publish(s, f)
    \/ UNCHANGED <<Catalogue, Sealed>>

LEMMA CatalogueKept ==
    ASSUME \A s \in Snaps : \A f \in Files :
              /\ (manifest'[s][f] = None) <=> (manifest[s][f] = None)
              /\ manifest[s][f] # None => store'[s][f] = store[s][f]
    PROVE  Catalogue' = Catalogue
BY DEF Catalogue

LEMMA SealedKept ==
    ASSUME NEW p \in Procs, UNCHANGED dirs,
           \A q \in Procs : q # p => op'[q] = op[q],
           (op[p].pc \in Creating) <=> (op'[p].pc \in Creating),
           op[p].pc \in Creating => op'[p].snap = op[p].snap
    PROVE  Sealed' = Sealed
<1>1. \A s : BeingCreated(s)' <=> BeingCreated(s)
  BY DEF BeingCreated
<1> QED BY <1>1 DEF Sealed

LEMMA EndIsSeal ==
    ASSUME IInv, NEW p \in Procs, Ended(p), UNCHANGED <<dirs, store, manifest>>
    PROVE  AbstractStep
<1>1. op'[p].pc = "idle" /\ \A q \in Procs : q # p => op'[q] = op[q]
  BY DEF Ended, Moved
<1>2. Catalogue' = Catalogue
  BY CatalogueKept
<1>3. CASE op[p].pc \notin Creating
  BY <1>1, <1>2, <1>3, SealedKept DEF Creating, AbstractStep
<1>4. CASE op[p].pc \in Creating
  <2>1. PICK s \in Snaps : s = op[p].snap /\ s \in dirs /\ BeingCreated(s)
    BY <1>4, PhaseFacts DEF IInv, Owned, BeingCreated, Creating
  <2>2. \A q \in Procs : q # p /\ op[q].pc \in Creating => op[q].snap # s
    BY <1>4, <2>1 DEF IInv, Owned
  <2>3. ~BeingCreated(s)'
    BY <1>1, <2>2 DEF BeingCreated, Creating
  <2>4. \A t : t # s => (BeingCreated(t)' <=> BeingCreated(t))
    BY <1>1, <1>4, <2>1 DEF BeingCreated, Creating
  <2>5. s \notin Sealed /\ Sealed' = Sealed \cup {s}
    BY <2>1, <2>3, <2>4 DEF Sealed
  <2> QED BY <1>2, <2>1, <2>5 DEF AbstractStep, Abstract!Seal
<1> QED BY <1>3, <1>4

(* A row that gives the name of a file that has no copy of its own publishes nothing:
   it says where a rollback would fail. *)
LEMMA InsertFilePublishes ==
    ASSUME IInv, NEW p \in Procs, NEW f \in Files, InsertFile(p, f),
           manifest[op[p].snap][Lossy[f]] = None
    PROVE  AbstractStep
<1> DEFINE s == op[p].snap
           n == Lossy[f]
<1>1. /\ op[p].pc = "files" /\ s \in Snaps /\ f \in op[p].todo /\ n \in Files
      /\ manifest' = [manifest EXCEPT ![s][n] = op[p].hashes[f]]
      /\ UNCHANGED <<dirs, store>> /\ manifest[s][n] = None
  BY PhaseFacts, LossyAssumption DEF InsertFile, At, IInv
<1>2. /\ op'[p].pc = op[p].pc /\ op'[p].snap = op[p].snap
      /\ \A q \in Procs : q # p => op'[q] = op[q]
  BY InsertFileEffect DEF Moved, IInv
<1>3. Sealed' = Sealed /\ s \notin Sealed
  BY <1>1, <1>2, SealedKept DEF Sealed, BeingCreated, Creating
<1>4. op[p].hashes[f] # None
  BY <1>1 DEF IInv, CreateInv, Listing, Present
<1>5. /\ manifest'[s][n] = op[p].hashes[f]
      /\ \A g \in Files \ {n} : manifest'[s][g] = manifest[s][g]
      /\ \A t \in Snaps : t # s => manifest'[t] = manifest[t]
  BY <1>1 DEF IInv, TypeOK, Image
<1>6. Catalogue' = [Catalogue EXCEPT ![s][n] = store[s][n]]
  <2>1. \A u \in Snaps : \A g \in Files :
           Catalogue'[u][g] = IF u = s /\ g = n THEN store[s][n] ELSE Catalogue[u][g]
    BY <1>1, <1>4, <1>5 DEF Catalogue
  <2>2. /\ Catalogue' = [u \in Snaps |-> [g \in Files |-> Catalogue'[u][g]]]
        /\ Catalogue = [u \in Snaps |-> [g \in Files |-> Catalogue[u][g]]]
    BY DEF Catalogue
  <2> HIDE DEF s, n
  <2> QED BY <1>1, <2>1, <2>2
<1>7. Catalogue[s][n] = None
  BY <1>1 DEF Catalogue
<1>8. CASE store[s][n] # None
  <2>1. store[s][n] \in Contents
    BY <1>1, <1>8 DEF IInv, TypeOK, Image
  <2>2. Abstract!Publish(s, n)
    BY <1>3, <1>6, <1>7, <2>1 DEF Abstract!Publish
  <2> QED BY <1>1, <2>2 DEF AbstractStep
<1>9. CASE store[s][n] = None
  <2>1. \A u \in Snaps : \A g \in Files :
           Catalogue'[u][g] = IF u = s /\ g = n THEN None ELSE Catalogue[u][g]
    BY <1>1, <1>4, <1>5, <1>9 DEF Catalogue
  <2>2. /\ Catalogue' = [u \in Snaps |-> [g \in Files |-> Catalogue'[u][g]]]
        /\ Catalogue = [u \in Snaps |-> [g \in Files |-> Catalogue[u][g]]]
    BY DEF Catalogue
  <2>3. Catalogue' = Catalogue
    BY <1>7, <2>1, <2>2
  <2> QED BY <1>3, <2>3 DEF AbstractStep
<1> QED BY <1>8, <1>9

LEMMA CreateBeginStutters ==
    ASSUME IInv, NEW p \in Procs, NEW a \in Agents, CreateBegin(p, a)
    PROVE  AbstractStep
<1>1. PICK s \in Snaps \ dirs :
         /\ dirs' = dirs \cup {s}
         /\ op'[p].pc = "walk" /\ op'[p].snap = s /\ op[p].pc = "idle"
         /\ \A q \in Procs : q # p => op'[q] = op[q]
         /\ UNCHANGED <<store, manifest>>
  BY CreateBeginEffect DEF Moved, IInv
<1>2. BeingCreated(s)'
  BY <1>1 DEF BeingCreated, Creating
<1>3. \A t : t # s => (BeingCreated(t)' <=> BeingCreated(t))
  BY <1>1 DEF BeingCreated, Creating
<1>4. Sealed' = Sealed
  BY <1>1, <1>2, <1>3 DEF Sealed
<1>5. Catalogue' = Catalogue
  BY <1>1, CatalogueKept
<1> QED BY <1>4, <1>5 DEF AbstractStep

(* The steps that neither publish nor seal. *)
LEMMA OtherStutters ==
    ASSUME IInv, NEW p \in Procs,
           \/ \E f \in Files : HashFile(p, f) \/ PruneFile(p, f)
           \/ CopyFile(p) \/ InsertRow(p) \/ LoadManifest(p) \/ PruneBegin(p)
    PROVE  AbstractStep
<1> USE DEF Creating
<1>1. ASSUME NEW f \in Files, HashFile(p, f) PROVE AbstractStep
  BY <1>1, HashFileEffect, CatalogueKept, SealedKept
     DEF AbstractStep, Moved, HashFile, At, disk, IInv
<1>2. ASSUME NEW f \in Files, PruneFile(p, f) PROVE AbstractStep
  BY <1>2, PruneFileEffect, CatalogueKept, SealedKept
     DEF AbstractStep, Moved, PruneFile, At, disk, IInv
<1>3. CASE CopyFile(p)
  <2> DEFINE s == op[p].snap
  <2>1. /\ op[p].pc = "copy" /\ s \in Snaps /\ op[p].cur \in Files
        /\ store' = [store EXCEPT ![s][op[p].cur] = work[op[p].cur]]
        /\ UNCHANGED <<dirs, manifest>>
    BY <1>3, PhaseFacts DEF CopyFile, At, IInv
  <2>2. \A f \in Files : manifest[s][f] = None
    BY <2>1 DEF IInv, CreateInv, Walking, Nothing
  <2>3. \A t \in Snaps : t # s => store'[t] = store[t]
    BY <2>1 DEF IInv, TypeOK
  <2>4. Catalogue' = Catalogue
    BY <2>1, <2>2, <2>3, CatalogueKept
  <2> QED BY <1>3, <2>1, <2>4, CopyFileEffect, SealedKept DEF AbstractStep, Moved, IInv
<1>4. CASE InsertRow(p)
  BY <1>4, InsertRowEffect, CatalogueKept, SealedKept
     DEF AbstractStep, Moved, InsertRow, At, IInv
<1>5. CASE LoadManifest(p)
  BY <1>5, LoadManifestEffect, CatalogueKept, SealedKept
     DEF AbstractStep, Moved, LoadManifest, At, disk, IInv
<1>6. CASE PruneBegin(p)
  BY <1>6, PruneBeginEffect, CatalogueKept, SealedKept
     DEF AbstractStep, Moved, PruneBegin, At, disk, IInv
<1> QED BY <1>1, <1>2, <1>3, <1>4, <1>5, <1>6

LEMMA SkipStutters ==
    ASSUME IInv, NEW p \in Procs, NEW f \in Files,
           op' = [op EXCEPT ![p] = [op[p] EXCEPT !.todo = @ \ {f}]], UNCHANGED disk
    PROVE  AbstractStep
BY SkipEffect, CatalogueKept, SealedKept DEF AbstractStep, Moved, disk, IInv

LEMMA ProcStepRefines ==
    ASSUME IInv, NEW p \in Procs, ProcStep(p)
    PROVE  AbstractStep
<1>1. ASSUME NEW a \in Agents, CreateBegin(p, a) PROVE AbstractStep
  BY <1>1, CreateBeginStutters
<1>2. CASE \/ \E f \in Files : HashFile(p, f) \/ PruneFile(p, f)
           \/ CopyFile(p) \/ InsertRow(p) \/ LoadManifest(p) \/ PruneBegin(p)
  BY <1>2, OtherStutters
<1>3. ASSUME NEW f \in Files, HashMissing(p, f) PROVE AbstractStep
  BY <1>3, ReturnEffect, EndIsSeal, SkipStutters DEF HashMissing, Continue, disk, IInv
<1>4. ASSUME NEW f \in Files, InsertFile(p, f) PROVE AbstractStep
  <2>1. CASE manifest[op[p].snap][Lossy[f]] # None
    BY <1>4, <2>1, ReturnEffect, EndIsSeal DEF InsertFile, IInv
  <2> QED BY <1>4, <2>1, InsertFilePublishes
<1>5. CASE CopyMissing(p) \/ CreateReturn(p) \/ NotFound(p) \/ RollbackReturn(p)
  BY <1>5, ReturnEffect, EndIsSeal
     DEF CopyMissing, CreateReturn, NotFound, RollbackReturn, disk, IInv
<1>6. ASSUME NEW s \in Snaps, BeginRollback(p, s) PROVE AbstractStep
  <2>1. op[p].pc = "idle" /\ UNCHANGED disk
    BY <1>6 DEF BeginRollback, At
  <2> QED BY <1>6, <2>1, BeginRollbackEffect, CatalogueKept, SealedKept
          DEF AbstractStep, Moved, disk, IInv, Creating
<1>7. ASSUME NEW f \in Files, RestoreFile(p, f) PROVE AbstractStep
  <2>1. CASE Return(p, "err")
    BY <1>7, <2>1, ReturnEffect, EndIsSeal DEF RestoreFile, disk, IInv
  <2>2. CASE PutBack(p, f)
    BY <1>7, <2>2, RestoreFileCases, SkipStutters DEF PutBack, Continue
  <2> QED BY <1>7, <2>1, <2>2, RestoreFileCases
<1>8. ASSUME NEW f \in Files, PruneMissing(p, f) PROVE AbstractStep
  BY <1>8, ReturnEffect, EndIsSeal, SkipStutters DEF PruneMissing, Continue, disk, IInv
<1>9. CASE Fault(p)
  <2>1. PICK answer \in {"err", "none"} : Return(p, answer)
    BY <1>9 DEF Fault
  <2> QED BY <1>9, <2>1, ReturnEffect, EndIsSeal DEF Fault, disk, IInv
<1> QED BY <1>1, <1>2, <1>3, <1>4, <1>5, <1>6, <1>7, <1>8, <1>9 DEF ProcStep

LEMMA StepRefines == IInv /\ [Next]_vars => AbstractStep
<1> SUFFICES ASSUME IInv, [Next]_vars PROVE AbstractStep
  OBVIOUS
<1>1. ASSUME NEW f \in Files, AgentWrite(f) \/ Hide(f) PROVE AbstractStep
  BY <1>1, CatalogueKept DEF AgentWrite, Hide, disk, AbstractStep, Sealed, BeingCreated
<1>2. CASE UNCHANGED vars
  BY <1>2, CatalogueKept DEF vars, AbstractStep, Sealed, BeingCreated
<1> QED BY <1>1, <1>2, NextSteps, ProcStepRefines

(* Whatever fails and whatever is interleaved, a snapshot's published files are
   never overwritten, and nothing is added to it once its creation has ended. *)
THEOREM Refinement == Spec => CatalogSpec
<1>1. Init => Abstract!Init
  BY DEF Init, Abstract!Init, Catalogue, Sealed, Nothing
<1>2. AbstractStep => [Abstract!Next]_<<Catalogue, Sealed>>
  BY DEF AbstractStep, Abstract!Next
<1>3. IInv /\ [Next]_vars => [Abstract!Next]_<<Catalogue, Sealed>>
  BY <1>2, StepRefines
<1> QED BY <1>1, <1>3, Invariance, PTL DEF Spec, CatalogSpec, Abstract!Spec

--------------------------------------------------------------------------------
(* Healing, on top of the engine *)

(* No step takes a row away, or changes one or what is stored under it. *)
RowsStay == \A s \in Snaps : rows[s] # None => rows'[s] = rows[s] /\ store'[s] = store[s]

(* A manifest never has more entries than its row counts. *)
Counted ==
    \A s \in Snaps : rows[s] # None =>
        Cardinality(Present(manifest[s])) <= rows[s].file_count

LEMMA ProcStepCounts ==
    ASSUME IInv, Counted, NEW p \in Procs, ProcStep(p)
    PROVE  RowsStay /\ Counted'
<1>1. ASSUME UNCHANGED <<store, rows, manifest>> PROVE RowsStay /\ Counted'
  BY <1>1 DEF RowsStay, Counted
<1>2. ASSUME NEW a \in Agents, CreateBegin(p, a) PROVE RowsStay /\ Counted'
  BY <1>1, <1>2 DEF CreateBegin
<1>3. ASSUME NEW f \in Files, HashFile(p, f) \/ HashMissing(p, f) PROVE RowsStay /\ Counted'
  BY <1>1, <1>3 DEF HashFile, HashMissing, disk
<1>4. ASSUME NEW f \in Files, InsertFile(p, f) PROVE RowsStay /\ Counted'
  <2> DEFINE s == op[p].snap
  <2>1. s \in Snaps /\ op[p].pc = "files" /\ f \in op[p].todo /\ UNCHANGED <<store, rows>>
    BY <1>4, PhaseFacts DEF InsertFile, At, IInv
  <2>2. CASE manifest[s][Lossy[f]] # None
    BY <1>1, <1>4, <2>1, <2>2 DEF InsertFile
  <2>3. CASE manifest[s][Lossy[f]] = None
    <3>1. manifest' = [manifest EXCEPT ![s][Lossy[f]] = op[p].hashes[f]] /\ manifest \in [Snaps -> Image]
      BY <1>4, <2>3 DEF InsertFile, IInv, TypeOK
    <3>2. Listing(p) /\ Lossy \in [Files -> Files]
      BY <2>1, LossyAssumption DEF IInv, CreateInv
    <3>3. Present(manifest'[s]) \subseteq LossyNames(Present(op[p].hashes))
      BY <2>1, <3>1, <3>2 DEF Listing, Visited, LossyNames, Present, Image
    <3>4. Cardinality(Present(manifest'[s])) <= Cardinality(LossyNames(Present(op[p].hashes)))
      BY <3>3, NamesCount, FS_Subset DEF Present
    <3>5. Cardinality(Present(manifest'[s])) <= rows[s].file_count
      BY <3>2, <3>4, NamesCount, CountIsNat DEF Listing, Present
    <3>6. \A t \in Snaps : t # s => manifest'[t] = manifest[t]
      BY <3>1
    <3> QED BY <2>1, <3>5, <3>6 DEF RowsStay, Counted
  <2> QED BY <2>2, <2>3
<1>5. ASSUME CopyFile(p) PROVE RowsStay /\ Counted'
  <2>1. At(p, "copy") /\ UNCHANGED <<rows, manifest>>
        /\ store' = [store EXCEPT ![op[p].snap][op[p].cur] = work[op[p].cur]]
    BY <1>5 DEF CopyFile
  <2>2. rows[op[p].snap] = None
    BY <2>1 DEF IInv, CreateInv, Walking, At
  <2>3. store \in [Snaps -> Image]
    BY DEF IInv, TypeOK
  <2> QED BY <2>1, <2>2, <2>3 DEF RowsStay, Counted
<1>6. ASSUME CopyMissing(p) \/ CreateReturn(p) \/ NotFound(p) PROVE RowsStay /\ Counted'
  BY <1>1, <1>6 DEF CopyMissing, CreateReturn, NotFound, disk
<1>7. ASSUME InsertRow(p) PROVE RowsStay /\ Counted'
  <2> DEFINE s == op[p].snap
             listed == Present(op[p].hashes)
             row == [agent |-> op[p].agent, timestamp |-> op[p].timestamp,
                     file_count |-> Cardinality(listed)]
  <2>1. At(p, "walk") /\ UNCHANGED <<store, manifest>> /\ rows' = [rows EXCEPT ![s] = row]
    BY <1>7 DEF InsertRow
  <2>2. rows[s] = None /\ manifest[s] = Nothing /\ s \in Snaps
    BY <2>1, PhaseFacts DEF IInv, CreateInv, Walking, At
  <2>3. rows \in [Snaps -> Row \cup {None}]
    BY DEF IInv, TypeOK
  <2>4. Present(manifest[s]) = {}
    BY <2>2 DEF Present, Nothing
  <2>5. Cardinality(Present(manifest'[s])) <= rows'[s].file_count
    BY <2>1, <2>2, <2>3, <2>4, FS_EmptySet, CountIsNat
  <2>6. \A t \in Snaps : t # s => rows'[t] = rows[t]
    BY <2>1, <2>3
  <2> QED BY <2>1, <2>2, <2>5, <2>6 DEF RowsStay, Counted
<1>8. ASSUME NEW s \in Snaps, BeginRollback(p, s) PROVE RowsStay /\ Counted'
  BY <1>1, <1>8 DEF BeginRollback, disk
<1>9. ASSUME LoadManifest(p) \/ PruneBegin(p) \/ RollbackReturn(p) \/ Fault(p)
      PROVE  RowsStay /\ Counted'
  BY <1>1, <1>9 DEF LoadManifest, PruneBegin, RollbackReturn, Fault, disk
<1>10. ASSUME NEW f \in Files, RestoreFile(p, f) \/ PruneFile(p, f) \/ PruneMissing(p, f)
       PROVE  RowsStay /\ Counted'
  BY <1>1, <1>10 DEF RestoreFile, PruneFile, PruneMissing, disk
<1> QED BY <1>2, <1>3, <1>4, <1>5, <1>6, <1>7, <1>8, <1>9, <1>10 DEF ProcStep

(* The locals of the call. *)
HealFields == [pc : {"idle", "select", "paths", "copy", "success", "failure"},
               agent : Agents \cup {None}, attempt : Nat, snap : Snaps \cup {None},
               paths : SUBSET Files, todo : SUBSET Files, restored : Nat,
               calm : BOOLEAN, missed : SUBSET Files]

(* What has been brought back so far. *)
Done == heal.paths \ (heal.todo \cup heal.missed)

(* The call has picked a snapshot of the agent, and counts what it has put back; what
   it listed is stored. *)
Picked ==
    /\ heal.pc \in {"paths", "copy"} => heal.snap # None
    /\ heal.snap # None => rows[heal.snap] # None /\ rows[heal.snap].agent = heal.agent
    /\ heal.todo \cup heal.missed \subseteq heal.paths /\ heal.todo \cap heal.missed = {}
    /\ heal.restored = Cardinality(Done)
    /\ heal.snap # None => heal.paths \subseteq Present(manifest[heal.snap])
    /\ heal.snap = None \/ heal.pc \in {"idle", "select", "paths", "failure"} => heal.paths = {}
    /\ heal.pc = "select" => heal.snap = None

(* As long as nobody else moves it, the working directory is what it was but for that. *)
Undisturbed ==
    HealAt("copy") /\ heal.calm =>
        \A f \in Files : work[f] = IF f \in Done THEN store[heal.snap][f] ELSE before[f]

HealEvent == [agent : Agents \cup {None}, outcome : {"success", "failure"}, attempt : Nat,
              snap : Snaps \cup {None}, restored : Nat]

(* The events tell of no more files than the rows of their snapshots. *)
EventTrue(e, table) ==
    e.snap # None => /\ table[e.snap] # None /\ table[e.snap].agent = e.agent
                     /\ e.restored <= table[e.snap].file_count

EventsTrue ==
    /\ healing_events \in Seq(HealEvent)
    /\ \A i \in DOMAIN healing_events : EventTrue(healing_events[i], rows)

HealInv ==
    /\ IInv /\ Counted
    /\ heal \in HealFields /\ Picked /\ Undisturbed
    /\ EventsTrue

LEMMA NoHealInv ==
    ASSUME heal = NoHeal
    PROVE  heal \in HealFields /\ Picked /\ Undisturbed
<1>1. Done = {} /\ Cardinality(Done) = 0
  BY FS_EmptySet DEF Done, NoHeal
<1> QED BY <1>1 DEF NoHeal, HealFields, Picked, Undisturbed, HealAt

LEMMA HealInit ==
    ASSUME HealerInit
    PROVE  HealInv
<1>1. IInv /\ Counted
  BY InvInit DEF HealerInit, Init, Counted
<1>2. EventsTrue
  BY DEF HealerInit, EventsTrue
<1> QED BY <1>1, <1>2, NoHealInv DEF HealInv, HealerInit

(* The events stay true. *)
LEMMA EventsStay ==
    ASSUME EventsTrue, RowsStay, UNCHANGED healing_events
    PROVE  EventsTrue'
<1> SUFFICES ASSUME NEW i \in DOMAIN healing_events
             PROVE  EventTrue(healing_events[i], rows')
  BY DEF EventsTrue
<1> DEFINE e == healing_events[i]
<1>1. e \in HealEvent /\ EventTrue(e, rows)
  BY DEF EventsTrue
<1>2. e.snap \in Snaps \cup {None}
  BY <1>1 DEF HealEvent
<1> QED BY <1>1, <1>2 DEF EventTrue, RowsStay

(* The manifest of a snapshot that has a row only grows. *)
EntriesStay ==
    \A s \in Snaps : rows[s] # None => Present(manifest[s]) \subseteq Present(manifest'[s])

LEMMA ProcStepEntries ==
    ASSUME IInv, NEW p \in Procs, ProcStep(p)
    PROVE  EntriesStay
<1>1. ASSUME UNCHANGED manifest PROVE EntriesStay
  BY <1>1 DEF EntriesStay
<1>2. ASSUME NEW f \in Files, InsertFile(p, f) PROVE EntriesStay
  <2> DEFINE s == op[p].snap
  <2>1. s \in Snaps /\ At(p, "files") /\ f \in op[p].todo
    BY <1>2, PhaseFacts DEF InsertFile, At, IInv
  <2>2. UNCHANGED manifest \/ manifest' = [manifest EXCEPT ![s][Lossy[f]] = op[p].hashes[f]]
    BY <1>2 DEF InsertFile
  <2>3. op[p].hashes[f] # None /\ manifest \in [Snaps -> Image]
    BY <2>1 DEF IInv, TypeOK, CreateInv, Listing, At, Present
  <2> QED BY <2>2, <2>3 DEF EntriesStay, Present, Image
<1>3. ASSUME ~\E f \in Files : InsertFile(p, f) PROVE UNCHANGED manifest
  BY <1>3 DEF ProcStep, CreateBegin, HashFile, HashMissing, CopyFile, CopyMissing, InsertRow,
     CreateReturn, NotFound, BeginRollback, LoadManifest, PruneBegin, RollbackReturn,
     RestoreFile, PruneFile, PruneMissing, Fault, disk
<1> QED BY <1>1, <1>2, <1>3

LEMMA EngineKeepsHeal ==
    ASSUME HealInv, EngineStep
    PROVE  HealInv'
<1>1. IInv' /\ RowsStay /\ Counted' /\ EntriesStay
  <2>1. IInv'
    BY InvNext DEF EngineStep, HealInv
  <2>2. ASSUME NEW f \in Files, AgentWrite(f) \/ Hide(f) PROVE RowsStay /\ Counted' /\ EntriesStay
    BY <2>2 DEF AgentWrite, Hide, disk, RowsStay, Counted, EntriesStay, HealInv
  <2> QED BY <2>1, <2>2, NextSteps, ProcStepCounts, ProcStepEntries DEF EngineStep, HealInv
<1>2. heal' = [heal EXCEPT !.calm = @ /\ work' = work]
      /\ UNCHANGED <<healing_events, outcome, before>> /\ heal \in HealFields
  BY DEF EngineStep, HealInv
<1>3. /\ heal' \in HealFields /\ heal'.pc = heal.pc /\ heal'.snap = heal.snap
      /\ heal'.agent = heal.agent /\ heal'.paths = heal.paths /\ heal'.todo = heal.todo
      /\ heal'.missed = heal.missed /\ heal'.restored = heal.restored
      /\ heal'.calm = (heal.calm /\ work' = work)
  BY <1>2 DEF HealFields
<1>4. Done' = Done
  BY <1>3 DEF Done
<1>5. Picked'
  BY <1>1, <1>2, <1>3, <1>4 DEF HealInv, Picked, RowsStay, EntriesStay, HealFields
<1>6. Undisturbed'
  <2> SUFFICES ASSUME HealAt("copy"), heal.calm, work' = work PROVE Undisturbed'
    BY <1>3 DEF Undisturbed, HealAt
  <2>1. heal.snap \in Snaps /\ rows[heal.snap] # None /\ store'[heal.snap] = store[heal.snap]
    BY <1>1, <1>2 DEF HealInv, Picked, HealAt, HealFields, RowsStay
  <2> QED BY <1>2, <1>3, <1>4, <2>1 DEF HealInv, Undisturbed
<1>7. EventsTrue'
  BY <1>1, <1>2, EventsStay DEF HealInv
<1> QED BY <1>1, <1>3, <1>5, <1>6, <1>7 DEF HealInv

(* A step of the call that leaves the engine and the events alone. *)
LEMMA CallKeepsHeal ==
    ASSUME HealInv, UNCHANGED <<vars, healing_events>>, heal' \in HealFields, Picked', Undisturbed'
    PROVE  HealInv'
<1>1. IInv' /\ Counted'
  BY InvNext DEF HealInv, vars, Counted
<1>2. EventsTrue'
  BY DEF HealInv, EventsTrue, vars
<1> QED BY <1>1, <1>2 DEF HealInv

LEMMA AttemptKeepsHeal ==
    ASSUME HealInv, NEW a \in Agents, NEW n \in Nat, NEW simulated \in BOOLEAN,
           attempt_healing(a, n, simulated)
    PROVE  HealInv'
<1> DEFINE L == IF simulated \/ n = 0
                THEN [NoHeal EXCEPT !.pc = "failure", !.agent = a, !.attempt = n]
                ELSE [NoHeal EXCEPT !.pc = "select", !.agent = a, !.attempt = 1]
<1>1. heal' = L /\ UNCHANGED <<vars, healing_events>>
  BY DEF attempt_healing
<1>2. /\ L \in HealFields /\ L.pc \in {"failure", "select"} /\ L.snap = None
      /\ L.paths = {} /\ L.todo = {} /\ L.missed = {} /\ L.restored = 0
  BY DEF NoHeal, HealFields
<1> HIDE DEF L
<1>3. Done' = {}
  BY <1>1, <1>2 DEF Done
<1>4. Picked' /\ Undisturbed'
  BY <1>1, <1>2, <1>3, FS_EmptySet DEF Picked, Undisturbed, HealAt
<1> QED BY <1>1, <1>2, <1>4, CallKeepsHeal

LEMMA SelectKeepsHeal ==
    ASSUME HealInv, SelectSnapshot \/ CopiesDone
    PROVE  HealInv'
<1>1. UNCHANGED <<vars, healing_events>> /\ heal \in HealFields
  BY DEF SelectSnapshot, CopiesDone, HealInv
<1>2. UNCHANGED <<work, hidden, rows, manifest, store>>
  BY <1>1 DEF vars
<1>3. CASE (RowsOf(heal.agent) = {} /\ SelectSnapshot) \/ CopiesDone
  <2>1. heal' = [heal EXCEPT !.pc = "success"]
    BY <1>3 DEF SelectSnapshot, CopiesDone
  <2>2. /\ heal' \in HealFields /\ heal'.pc = "success" /\ heal'.snap = heal.snap
        /\ heal'.agent = heal.agent /\ heal'.paths = heal.paths /\ heal'.todo = heal.todo
        /\ heal'.missed = heal.missed /\ heal'.restored = heal.restored
    BY <1>1, <2>1 DEF HealFields
  <2>3. Done' = Done
    BY <2>2 DEF Done
  <2>4. Picked' /\ Undisturbed'
    BY <1>2, <2>2, <2>3 DEF HealInv, Picked, Undisturbed, HealAt
  <2> QED BY <1>1, <2>2, <2>4, CallKeepsHeal
<1>4. CASE SelectSnapshot /\ RowsOf(heal.agent) # {}
  <2>1. PICK s \in Latest(heal.agent) : heal' = [heal EXCEPT !.pc = "paths", !.snap = s]
    BY <1>4 DEF SelectSnapshot
  <2>2. s \in Snaps /\ rows[s] # None /\ rows[s].agent = heal.agent
    BY DEF Latest, RowsOf
  <2>3. /\ heal' \in HealFields /\ heal'.pc = "paths" /\ heal'.snap = s
        /\ heal'.agent = heal.agent /\ heal'.paths = heal.paths /\ heal'.todo = heal.todo
        /\ heal'.missed = heal.missed /\ heal'.restored = heal.restored
    BY <1>1, <2>1, <2>2 DEF HealFields
  <2>4. Done' = Done
    BY <2>3 DEF Done
  <2>5. heal.paths = {}
    BY <1>4 DEF HealInv, Picked, SelectSnapshot, HealAt
  <2>6. Picked' /\ Undisturbed'
    BY <1>2, <2>2, <2>3, <2>4, <2>5, NoneAssumption DEF HealInv, Picked, Undisturbed, HealAt
  <2> QED BY <1>1, <2>3, <2>6, CallKeepsHeal
<1> QED BY <1>3, <1>4

(* The engine's invariant is not disturbed by a statement of the call, failing or not ... *)
LEMMA FailureKeepsInv ==
    ASSUME IInv, faults' \in {faults, faults + 1}, faults' <= MaxFaults,
           UNCHANGED <<work, hidden, disk, clock, op, result, writes, history>>
    PROVE  IInv'
<1>1. faults' \in 0 .. MaxFaults
  BY BoundsAssumption DEF IInv, TypeOK
<1>2. TypeOK' /\ Owned'
  BY <1>1 DEF IInv, TypeOK, OpTypeOK, Owned, disk, history
<1>3. CreateInv' /\ EntriesBacked'
  BY DEF IInv, CreateInv, Walking, Listing, Visited, EntriesBacked, Stored, disk, history
<1>4. QuietInv'
  BY DEF IInv, QuietInv, QuietWalk, QuietRestore, disk, history, Seen, Listed, Present
<1>5. SnapshotFaithful'
  BY DEF IInv, SnapshotFaithful, disk, history
<1> QED BY <1>2, <1>3, <1>4, <1>5 DEF IInv

LEMMA ListKeepsHeal ==
    ASSUME HealInv, ListPaths
    PROVE  HealInv'
<1>1. PICK listed \in SUBSET Present(manifest[heal.snap]) :
         /\ faults' = IF listed = Present(manifest[heal.snap]) THEN faults ELSE faults + 1
         /\ heal' = [heal EXCEPT !.pc = "copy", !.paths = listed, !.todo = listed, !.calm = TRUE]
  BY DEF ListPaths
<1>2. /\ HealAt("paths") /\ before' = work /\ faults' <= MaxFaults /\ heal \in HealFields
      /\ UNCHANGED <<work, hidden, disk, clock, op, result, writes, history, healing_events>>
  BY DEF ListPaths, HealInv
<1>3. IInv' /\ Counted' /\ EventsTrue'
  <2>1. faults' \in {faults, faults + 1}
    BY <1>1
  <2> QED BY <1>2, <2>1, FailureKeepsInv DEF HealInv, Counted, EventsTrue, disk
<1>4. listed \in SUBSET Files
  BY DEF Present
<1>5. /\ heal' \in HealFields /\ heal'.pc = "copy" /\ heal'.snap = heal.snap
      /\ heal'.agent = heal.agent /\ heal'.paths = listed /\ heal'.todo = listed
      /\ heal'.missed = heal.missed /\ heal'.restored = heal.restored
  BY <1>1, <1>2, <1>4 DEF HealFields
<1>6. heal.missed = {} /\ heal.restored = 0 /\ heal.snap # None
  BY <1>2, FS_EmptySet DEF HealInv, Picked, Done, HealAt
<1>7. Done' = {}
  BY <1>5 DEF Done
<1>8. Picked' /\ Undisturbed'
  BY <1>2, <1>5, <1>6, <1>7, FS_EmptySet DEF HealInv, Picked, Undisturbed, HealAt, disk
<1> QED BY <1>3, <1>5, <1>8 DEF HealInv

(* ... nor by a file it puts back, after which no operation is undisturbed. *)
LEMMA PutBackKeepsInv ==
    ASSUME IInv, work' \in Image, quiet' = {},
           UNCHANGED <<hidden, disk, clock, op, result, writes, faults, truth>>
    PROVE  IInv'
<1>1. TypeOK' /\ Owned'
  BY DEF IInv, TypeOK, OpTypeOK, Owned, disk
<1>2. CreateInv' /\ EntriesBacked'
  BY DEF IInv, CreateInv, Walking, Listing, Visited, EntriesBacked, Stored, disk
<1>3. QuietInv' /\ SnapshotFaithful'
  BY DEF IInv, QuietInv, SnapshotFaithful, disk
<1> QED BY <1>1, <1>2, <1>3 DEF IInv

LEMMA CopyBackKeepsHeal ==
    ASSUME HealInv, NEW f \in Files, CopyBack(f)
    PROVE  HealInv'
<1> DEFINE s == heal.snap
<1>1. /\ HealAt("copy") /\ f \in heal.todo /\ heal \in HealFields
      /\ work' = [work EXCEPT ![f] = store[s][f]] /\ quiet' = {}
      /\ heal' = [heal EXCEPT !.todo = @ \ {f}, !.restored = @ + 1]
      /\ UNCHANGED <<hidden, disk, clock, op, result, writes, faults, truth, healing_events, before>>
  BY DEF CopyBack, HealInv
<1>2. s \in Snaps /\ s # None /\ f \in heal.paths /\ f \notin heal.missed
  BY <1>1 DEF HealInv, Picked, HealAt, HealFields
<1>3. store[s][f] \in Contents \cup {None} /\ work \in Image
  BY <1>2 DEF HealInv, IInv, TypeOK, Image
<1>4. work' \in Image
  BY <1>1, <1>3 DEF Image
<1>5. IInv' /\ Counted' /\ EventsTrue'
  BY <1>1, <1>4, PutBackKeepsInv DEF HealInv, Counted, EventsTrue, disk
<1>6. /\ heal' \in HealFields /\ heal'.pc = heal.pc /\ heal'.snap = s
      /\ heal'.agent = heal.agent /\ heal'.paths = heal.paths /\ heal'.todo = heal.todo \ {f}
      /\ heal'.missed = heal.missed /\ heal'.restored = heal.restored + 1
      /\ heal'.calm = heal.calm
  <2>1. heal \in HealFields /\ heal' = [heal EXCEPT !.todo = @ \ {f}, !.restored = @ + 1]
    BY <1>1
  <2>2. heal.restored + 1 \in Nat /\ heal.todo \ {f} \in SUBSET Files
    BY <2>1 DEF HealFields
  <2> QED BY <2>1, <2>2 DEF HealFields
<1>7. Done' = Done \cup {f} /\ f \notin Done
  BY <1>1, <1>2, <1>6 DEF Done
<1>8. Cardinality(Done') = Cardinality(Done) + 1
  <2>1. IsFiniteSet(Done)
    BY <1>1, FilesAssumption, FS_Subset DEF Done, HealFields
  <2> QED BY <1>7, <2>1, FS_AddElement
<1>9. Picked'
  BY <1>1, <1>2, <1>6, <1>8 DEF HealInv, Picked, HealAt, disk
<1>10. Undisturbed'
  <2> SUFFICES ASSUME heal.calm, NEW g \in Files
               PROVE  work'[g] = IF g \in Done' THEN store[s][g] ELSE before[g]
    BY <1>1, <1>6 DEF Undisturbed, HealAt, disk
  <2>1. work[g] = IF g \in Done THEN store[s][g] ELSE before[g]
    BY <1>1 DEF HealInv, Undisturbed
  <2> QED BY <1>1, <1>3, <1>7, <2>1 DEF Image
<1> QED BY <1>5, <1>6, <1>9, <1>10 DEF HealInv

LEMMA FailureKeepsHeal ==
    ASSUME HealInv, QueryFails \/ LogFails \/ \E f \in Files : CopyFails(f)
    PROVE  HealInv'
<1>1. /\ faults' \in {faults, faults + 1} /\ faults' <= MaxFaults /\ heal \in HealFields
      /\ UNCHANGED <<work, hidden, disk, clock, op, result, writes, history, healing_events>>
  <2>1. faults \in 0 .. MaxFaults
    BY DEF HealInv, IInv, TypeOK
  <2>2. QueryFails \/ LogFails =>
           /\ faults' = faults + 1 /\ faults < MaxFaults
           /\ UNCHANGED <<work, hidden, disk, clock, op, result, writes, history, healing_events>>
    BY DEF QueryFails, LogFails
  <2>3. ASSUME NEW f \in Files, CopyFails(f)
        PROVE  /\ faults' = faults \/ (faults' = faults + 1 /\ faults < MaxFaults)
               /\ UNCHANGED <<work, hidden, disk, clock, op, result, writes, history, healing_events>>
    BY <2>3 DEF CopyFails
  <2> QED BY <2>1, <2>2, <2>3, BoundsAssumption DEF HealInv
<1>2. IInv' /\ Counted' /\ EventsTrue'
  BY <1>1, FailureKeepsInv DEF HealInv, Counted, EventsTrue, disk
<1>3. CASE LogFails
  <2>1. heal' \in HealFields /\ Picked' /\ Undisturbed'
    <3>1. heal' = NoHeal
      BY <1>3 DEF LogFails
    <3>2. Done' = {}
      BY <3>1 DEF Done, NoHeal
    <3>3. heal' \in HealFields
      BY <3>1 DEF NoHeal, HealFields
    <3> QED BY <3>1, <3>2, <3>3, FS_EmptySet DEF NoHeal, Picked, Undisturbed, HealAt
  <2> QED BY <1>2, <2>1 DEF HealInv
<1>4. CASE QueryFails
  <2>1. heal' = [heal EXCEPT !.pc = "success"]
    BY <1>4 DEF QueryFails
  <2>2. /\ heal' \in HealFields /\ heal'.pc = "success" /\ heal'.snap = heal.snap
        /\ heal'.agent = heal.agent /\ heal'.paths = heal.paths /\ heal'.todo = heal.todo
        /\ heal'.missed = heal.missed /\ heal'.restored = heal.restored
    BY <1>1, <2>1 DEF HealFields
  <2>3. Done' = Done
    BY <2>2 DEF Done
  <2>4. Picked' /\ Undisturbed'
    BY <1>1, <2>2, <2>3 DEF HealInv, Picked, Undisturbed, HealAt, disk
  <2> QED BY <1>2, <2>2, <2>4 DEF HealInv
<1>5. ASSUME NEW f \in Files, CopyFails(f) PROVE HealInv'
  <2>1. /\ heal' = [heal EXCEPT !.todo = @ \ {f}, !.missed = @ \cup {f}]
        /\ HealAt("copy") /\ f \in heal.todo /\ before' = before
    BY <1>5 DEF CopyFails
  <2>2. /\ heal' \in HealFields /\ heal'.pc = "copy" /\ heal'.snap = heal.snap
        /\ heal'.agent = heal.agent /\ heal'.paths = heal.paths
        /\ heal'.todo = heal.todo \ {f} /\ heal'.missed = heal.missed \cup {f}
        /\ heal'.restored = heal.restored /\ heal'.calm = heal.calm
    BY <1>1, <2>1 DEF HealFields, HealAt
  <2>3. Done' = Done
    BY <2>1, <2>2 DEF Done
  <2>4. Picked' /\ Undisturbed'
    BY <1>1, <2>1, <2>2, <2>3 DEF HealInv, Picked, Undisturbed, HealAt, disk
  <2> QED BY <1>2, <2>2, <2>4 DEF HealInv
<1> QED BY <1>3, <1>4, <1>5

LEMMA LogKeepsHeal ==
    ASSUME HealInv, log_event
    PROVE  HealInv'
<1> DEFINE e == [agent |-> heal.agent, outcome |-> heal.pc, attempt |-> heal.attempt,
                 snap |-> heal.snap, restored |-> heal.restored]
<1>1. /\ heal' = NoHeal /\ UNCHANGED vars /\ heal \in HealFields
      /\ healing_events' = Append(healing_events, e) /\ heal.pc \in {"success", "failure"}
  BY DEF log_event, HealInv
<1>2. e \in HealEvent /\ e.snap = heal.snap /\ e.agent = heal.agent /\ e.restored = heal.restored
  BY <1>1 DEF HealFields, HealEvent
<1>3. EventTrue(e, rows)
  <2> SUFFICES ASSUME heal.snap # None
               PROVE  heal.restored <= rows[heal.snap].file_count
    BY <1>2 DEF HealInv, Picked, EventTrue
  <2> DEFINE s == heal.snap
  <2>1. /\ s \in Snaps /\ rows[s] # None /\ Done \subseteq Present(manifest[s])
        /\ heal.restored = Cardinality(Done)
    BY <1>1 DEF HealInv, Picked, Done, HealFields
  <2>2. Cardinality(Done) <= Cardinality(Present(manifest[s]))
    BY <2>1, FilesAssumption, FS_Subset DEF Present
  <2>3. /\ Cardinality(Present(manifest[s])) <= rows[s].file_count
        /\ rows[s] \in Row
    BY <2>1 DEF HealInv, Counted, IInv, TypeOK
  <2>4. rows[s].file_count \in Nat /\ heal.restored \in Nat
    BY <1>1, <2>3 DEF Row, HealFields
  <2> QED BY <2>1, <2>2, <2>3, <2>4, CountIsNat
<1> HIDE DEF e
<1>4. EventsTrue'
  BY <1>1, <1>2, <1>3 DEF HealInv, EventsTrue, vars
<1>5. IInv' /\ Counted'
  BY <1>1, InvNext DEF HealInv, vars, Counted
<1>6. Done' = {}
  BY <1>1 DEF Done, NoHeal
<1>7. heal' \in HealFields
  BY <1>1 DEF NoHeal, HealFields
<1>8. Picked' /\ Undisturbed'
  BY <1>1, <1>6, <1>7, FS_EmptySet DEF NoHeal, Picked, Undisturbed, HealAt
<1> QED BY <1>4, <1>5, <1>7, <1>8 DEF HealInv

LEMMA HealNext ==
    ASSUME HealInv, [HealerNext]_allVars
    PROVE  HealInv'
<1>1. CASE UNCHANGED allVars
  <2>1. UNCHANGED <<vars, heal, healing_events, before>>
    BY <1>1 DEF allVars, healerVars
  <2>2. heal' \in HealFields /\ Picked' /\ Undisturbed'
    BY <2>1 DEF HealInv, Picked, Undisturbed, Done, HealAt, vars
  <2> QED BY <2>1, <2>2, CallKeepsHeal
<1> QED BY <1>1, AttemptKeepsHeal, SelectKeepsHeal, ListKeepsHeal, CopyBackKeepsHeal, FailureKeepsHeal,
           LogKeepsHeal, EngineKeepsHeal DEF HealerNext, HealStep

LEMMA HealSound ==
    ASSUME HealInv
    PROVE  HealRestores /\ HealCounted
<1>1. HealRestores
  <2> DEFINE s == heal.snap
             image == truth[s]
  <2> SUFFICES ASSUME HealAt("copy"), heal.todo = {}, heal.calm, image # None,
                      heal.paths = LossyNames(Present(image))
               PROVE  /\ \A f \in heal.paths \ heal.missed : work[f] = image[f]
                      /\ \A f \in (Files \ heal.paths) \cup heal.missed : work[f] = before[f]
                      /\ heal.restored = Cardinality(heal.paths \ heal.missed)
    BY DEF HealRestores
  <2>1. s \in Snaps /\ heal.paths \subseteq Files /\ heal.missed \subseteq heal.paths
    BY DEF HealInv, Picked, HealAt, HealFields
  <2>2. store[s] = image
    BY <2>1 DEF HealInv, IInv, SnapshotFaithful
  <2>3. Done = heal.paths \ heal.missed
    BY DEF Done
  <2>4. \A f \in Files : work[f] = IF f \in Done THEN store[s][f] ELSE before[f]
    BY DEF HealInv, Undisturbed
  <2> QED BY <2>1, <2>2, <2>3, <2>4 DEF HealInv, Picked
<1>2. HealCounted
  <2> SUFFICES ASSUME NEW a \in Agents, NEW i \in DOMAIN get_history(a),
                      get_history(a)[i].snap # None
               PROVE  LET e == get_history(a)[i]
                      IN  /\ rows[e.snap] # None /\ rows[e.snap].agent = a
                          /\ e.restored <= rows[e.snap].file_count
    BY DEF HealCounted
  <2> DEFINE mine == {e \in Range(healing_events) : e.agent = a}
             e == get_history(a)[i]
  <2>1. ToSet(get_history(a)) = ToSet(healing_events) \cap mine
    BY OnlyRange DEF get_history, HealInv, EventsTrue
  <2>2. e \in ToSet(get_history(a))
    BY InToSet
  <2>3. e \in ToSet(healing_events) /\ e.agent = a
    BY <2>1, <2>2
  <2>4. EventTrue(e, rows)
    BY <2>3, InToSet DEF HealInv, EventsTrue
  <2> QED BY <2>3, <2>4 DEF EventTrue
<1> QED BY <1>1, <1>2

(* Whatever fails and whoever else writes, an undisturbed healing from a snapshot that
   was taken undisturbed restores and counts exactly its files but those it missed, and no
   event claims more files than its snapshot has. *)
THEOREM HealingCorrect == HealerSpec => [](HealRestores /\ HealCounted)
BY HealInit, HealNext, HealSound, PTL DEF HealerSpec

================================================================================
