------------------------------- MODULE Savepoint -------------------------------
(***************************************************************************)
(* The snapshot engine of openhawk-savepoint: create_snapshot, rollback    *)
(* and rollback_latest, one step per file-system call or SQL statement.    *)
(*                                                                         *)
(* Several processes run engine operations at once (`hawk undo`, the       *)
(* dashboard, a library caller); agents keep writing the working directory *)
(* meanwhile; any process may be killed, or get an I/O or database error,  *)
(* between two steps.  The statements of one operation are not wrapped in  *)
(* a transaction, so each one is visible as soon as it has run.            *)
(*                                                                         *)
(* A file's contents stand for its bytes and for its SHA-256.  Directory   *)
(* trees are flat sets of relative paths, all under one working directory. *)
(* Both walks pass over what they cannot list without saying so, and the   *)
(* tables name a file by the UTF-8 text that comes nearest to its path.    *)
(***************************************************************************)
EXTENDS Naturals, FiniteSets

CONSTANTS
    Files,       \* relative paths under the working directory
    Contents,    \* what a file may hold
    Snaps,       \* snapshot ids (UUIDs: never handed out twice)
    Agents,      \* pids snapshots are taken for
    Procs,       \* processes running an engine operation
    Lossy,       \* to_string_lossy: a path, as a path that is UTF-8
    None,        \* no such file; no such row
    MaxWrites,   \* bound: writes, deletions and changes of permissions made by agents
    MaxFaults    \* bound: crashes and I/O errors

ASSUME BoundsAssumption == MaxWrites \in Nat /\ MaxFaults \in Nat
ASSUME FilesAssumption == IsFiniteSet(Files)
ASSUME LossyAssumption == Lossy \in [Files -> Files] /\ \A f \in Files : Lossy[Lossy[f]] = Lossy[f]

VARIABLES
    work,        \* the working directory
    hidden,      \* files below a directory that cannot be listed
    dirs,        \* snapshot directories made so far
    store,       \* what each snapshot directory holds
    rows,        \* table snapshots
    manifest,    \* table snapshot_files: path -> hash, per snapshot
    clock,       \* the time the next timestamp is taken at
    op,          \* the operation each process is in the middle of
    result,      \* what each process's last operation returned
    writes, faults,  \* how much of MaxWrites and MaxFaults is used up
    (* History, read by no step: *)
    quiet,       \* processes under whose operation nobody else moved `work` or `hidden`
    truth        \* what a walk found when the snapshot was taken, if nobody moved it then

disk == <<dirs, store, rows, manifest>>
history == <<quiet, truth>>
vars == <<work, hidden, dirs, store, rows, manifest, clock, op, result, writes, faults,
          quiet, truth>>

Image == [Files -> Contents \cup {None}]
Nothing == [f \in Files |-> None]
Present(img) == {f \in Files : img[f] # None}
LossyNames(files) == {Lossy[f] : f \in files}

Row == [agent : Agents, timestamp : Nat, file_count : Nat]

ASSUME NoneAssumption ==
    /\ None \notin Contents /\ None \notin Files /\ None \notin Snaps
    /\ None \notin Agents
    /\ None \notin Image /\ None \notin Row

Phases == {"idle",
           "walk", "copy", "files",             \* create_snapshot
           "load", "restore", "prune"}          \* rollback
Creating == {"walk", "copy", "files"}

(* The local variables of the operation in progress: the snapshot it is
   about, the agent and timestamp it was started with, the entries its loop
   has still to visit, the file in its hands, the hashes computed so far, the
   keys of the manifest it loaded and the files it removed. *)
OpType == [pc : Phases, snap : Snaps \cup {None}, agent : Agents \cup {None},
           timestamp : Nat, todo : SUBSET Files, cur : Files \cup {None},
           hashes : Image, keep : SUBSET Files, removed : SUBSET Files]

Idle == [pc |-> "idle", snap |-> None, agent |-> None, timestamp |-> 0,
         todo |-> {}, cur |-> None, hashes |-> Nothing, keep |-> {},
         removed |-> {}]

Init ==
    /\ work \in Image /\ hidden \in SUBSET Files
    /\ dirs = {}
    /\ store = [s \in Snaps |-> Nothing]
    /\ rows = [s \in Snaps |-> None]
    /\ manifest = [s \in Snaps |-> Nothing]
    /\ clock = 0
    /\ op = [p \in Procs |-> Idle]
    /\ result = [p \in Procs |-> "none"]
    /\ writes = 0
    /\ faults = 0
    /\ quiet = {}
    /\ truth = [s \in Snaps |-> None]

--------------------------------------------------------------------------------
(* Common shapes of a step. *)

At(p, pc) == op[p].pc = pc

Begin(p, locals) ==
    /\ op' = [op EXCEPT ![p] = locals]
    /\ result' = [result EXCEPT ![p] = "none"]
    /\ quiet' = quiet \cup {p}

Continue(p, locals) ==
    /\ op' = [op EXCEPT ![p] = locals]
    /\ UNCHANGED result

Return(p, outcome) ==
    /\ op' = [op EXCEPT ![p] = Idle]
    /\ result' = [result EXCEPT ![p] = outcome]
    /\ quiet' = quiet \ {p}

(* The actor moved the working directory under everybody else's feet. *)
Disturb(actor) == quiet' = quiet \cap {actor}

(* What a walk that lists every directory now comes across; a directory that it
   cannot list is passed over (filter_map(|e| e.ok())). *)
Seen == [f \in Files |-> IF f \in hidden THEN None ELSE work[f]]
Listed == Present(Seen)

--------------------------------------------------------------------------------
(* create_snapshot *)

(* Mutant: the id may be one that is in use. *)
CreateBegin_ReusesId(p, a) ==
    /\ At(p, "idle")
    /\ \E s \in Snaps :
          /\ dirs' = dirs \cup {s}
          /\ Begin(p, [Idle EXCEPT !.pc = "walk", !.snap = s, !.agent = a,
                                   !.timestamp = clock, !.todo = Listed])
    /\ clock < 2
    /\ clock' = clock + 1
    /\ UNCHANGED <<work, hidden, store, rows, manifest, writes, faults, truth>>

(* A fresh uuid, the timestamp, the snapshot directory; the walk opens the
   working directory and has the names it lists before it. *)
CreateBegin(p, a) ==
    /\ At(p, "idle")
    /\ \E s \in Snaps \ dirs :
          /\ dirs' = dirs \cup {s}
          /\ Begin(p, [Idle EXCEPT !.pc = "walk", !.snap = s, !.agent = a,
                                   !.timestamp = clock, !.todo = Listed])
    /\ clock' = clock + 1
    /\ UNCHANGED <<work, hidden, store, rows, manifest, writes, faults, truth>>

(* hash_file reads the next entry.  A file made after the walk began, or in a
   directory opened up since, is visited when its directory is listed late enough. *)
HashFile(p, f) ==
    /\ At(p, "walk")
    /\ f \in op[p].todo \cup Listed
    /\ op[p].hashes[f] = None
    /\ work[f] # None
    /\ Continue(p, [op[p] EXCEPT !.pc = "copy", !.cur = f, !.hashes[f] = work[f]])
    /\ UNCHANGED <<work, hidden, disk, clock, writes, faults, history>>

(* Mutant: wait for the file to come back. *)
HashMissing_Waits(p, f) == At(p, "walk") /\ work[f] = None /\ UNCHANGED vars

(* The entry is gone, or closed off: hash_file cannot open it and the whole
   operation fails, or its directory was listed late and the walk never yields it. *)
HashMissing(p, f) ==
    /\ At(p, "walk")
    /\ f \in op[p].todo
    /\ op[p].hashes[f] = None
    /\ f \notin Listed
    /\ \/ Return(p, "err")
       \/ Continue(p, [op[p] EXCEPT !.todo = @ \ {f}]) /\ UNCHANGED quiet
    /\ UNCHANGED <<work, hidden, disk, clock, writes, faults, truth>>

(* Mutant: the entry in hand is not cleared. *)
CopyFile_KeepsCursor(p) ==
    /\ At(p, "copy")
    /\ work[op[p].cur] # None
    /\ store' = [store EXCEPT ![op[p].snap][op[p].cur] = work[op[p].cur]]
    /\ Continue(p, [op[p] EXCEPT !.pc = "walk"])
    /\ UNCHANGED <<work, hidden, dirs, rows, manifest, clock, writes, faults, history>>

(* copy_file opens the file again: it copies what the file holds by now. *)
CopyFile(p) ==
    /\ At(p, "copy")
    /\ work[op[p].cur] # None
    /\ store' = [store EXCEPT ![op[p].snap][op[p].cur] = work[op[p].cur]]
    /\ Continue(p, [op[p] EXCEPT !.pc = "walk", !.cur = None])
    /\ UNCHANGED <<work, hidden, dirs, rows, manifest, clock, writes, faults, history>>

(* Mutant: a failed copy is ignored, as SelfHealer does, and the entry kept. *)
CopyMissing_Ignored(p) ==
    /\ At(p, "copy")
    /\ work[op[p].cur] = None
    /\ Continue(p, [op[p] EXCEPT !.pc = "walk", !.cur = None])
    /\ UNCHANGED <<work, hidden, disk, clock, writes, faults, history>>

CopyMissing(p) ==
    /\ At(p, "copy")
    /\ op[p].cur \notin Listed
    /\ Return(p, "err")
    /\ UNCHANGED <<work, hidden, disk, clock, writes, faults, truth>>

(* Mutant: the row goes in before the walk is over. *)
InsertRow_Early(p) ==
    /\ At(p, "walk")
    /\ LET listed == Present(op[p].hashes)
       IN  /\ rows' = [rows EXCEPT ![op[p].snap] =
                           [agent |-> op[p].agent, timestamp |-> op[p].timestamp,
                            file_count |-> Cardinality(listed)]]
           /\ Continue(p, [op[p] EXCEPT !.pc = "files", !.todo = listed])
    /\ UNCHANGED <<work, hidden, dirs, store, manifest, clock, writes, faults, history>>

(* The walk is over: the snapshots row, with file_count, goes in first. *)
InsertRow(p) ==
    /\ At(p, "walk")
    /\ op[p].todo \subseteq Present(op[p].hashes)
    /\ LET listed == Present(op[p].hashes)
       IN  /\ rows' = [rows EXCEPT ![op[p].snap] =
                           [agent |-> op[p].agent, timestamp |-> op[p].timestamp,
                            file_count |-> Cardinality(listed)]]
           /\ Continue(p, [op[p] EXCEPT !.pc = "files", !.todo = listed])
    /\ UNCHANGED <<work, hidden, dirs, store, manifest, clock, writes, faults, history>>

(* Mutant: INSERT OR REPLACE. *)
InsertFile_Replaces(p, f) ==
    /\ At(p, "files")
    /\ f \in op[p].todo
    /\ manifest' = [manifest EXCEPT ![op[p].snap][Lossy[f]] = op[p].hashes[f]]
    /\ Continue(p, [op[p] EXCEPT !.todo = @ \ {f}])
    /\ UNCHANGED <<work, hidden, dirs, store, rows, clock, writes, faults, history>>

(* Then its manifest, one INSERT per file, under its lossy name: PRIMARY KEY
   (snapshot_id, file_path) refuses the second of two files of one name. *)
InsertFile(p, f) ==
    /\ At(p, "files")
    /\ f \in op[p].todo
    /\ IF manifest[op[p].snap][Lossy[f]] # None
       THEN Return(p, "err") /\ UNCHANGED manifest
       ELSE /\ manifest' = [manifest EXCEPT ![op[p].snap][Lossy[f]] = op[p].hashes[f]]
            /\ Continue(p, [op[p] EXCEPT !.todo = @ \ {f}]) /\ UNCHANGED quiet
    /\ UNCHANGED <<work, hidden, dirs, store, rows, clock, writes, faults, truth>>

(* Mutant: Ok before the whole manifest is in. *)
CreateReturn_Early(p) ==
    /\ At(p, "files")
    /\ Return(p, "ok")
    /\ truth' = [truth EXCEPT ![op[p].snap] = IF p \in quiet THEN Seen ELSE None]
    /\ UNCHANGED <<work, hidden, disk, clock, writes, faults>>

CreateReturn(p) ==
    /\ At(p, "files")
    /\ op[p].todo = {}
    /\ Return(p, "ok")
    /\ truth' = [truth EXCEPT ![op[p].snap] = IF p \in quiet THEN Seen ELSE None]
    /\ UNCHANGED <<work, hidden, disk, clock, writes, faults>>

--------------------------------------------------------------------------------
(* rollback and rollback_latest *)

RowsOf(a) == {s \in Snaps : rows[s] # None /\ rows[s].agent = a}

(* ORDER BY timestamp DESC LIMIT 1 *)
Latest(a) ==
    {s \in RowsOf(a) : \A t \in RowsOf(a) : rows[t].timestamp <= rows[s].timestamp}

BeginRollback(p, s) ==
    /\ At(p, "idle")
    /\ Begin(p, [Idle EXCEPT !.pc = "load", !.snap = s])
    /\ UNCHANGED <<work, hidden, disk, clock, writes, faults, truth>>

NotFound(p) ==
    /\ At(p, "idle")
    /\ Return(p, "err")
    /\ UNCHANGED <<work, hidden, disk, clock, writes, faults, truth>>

Rollback(p, s) ==
    IF rows[s] = None THEN NotFound(p) ELSE BeginRollback(p, s)

RollbackLatest(p, a) ==
    IF RowsOf(a) = {} THEN NotFound(p) ELSE \E s \in Latest(a) : BeginRollback(p, s)

(* SELECT file_path, hash FROM snapshot_files: whatever is there by now. *)
LoadManifest(p) ==
    /\ At(p, "load")
    /\ LET listed == Present(manifest[op[p].snap])
       IN  Continue(p, [op[p] EXCEPT !.pc = "restore", !.todo = listed,
                                     !.keep = listed])
    /\ UNCHANGED <<work, hidden, disk, clock, writes, faults, history>>

(* The name of a file that is not UTF-8 has no copy; a directory that cannot be
   listed may be one that cannot be written. *)
RestoreFile(p, f) ==
    /\ At(p, "restore")
    /\ f \in op[p].todo
    /\ \/ /\ store[op[p].snap][f] = None \/ f \in hidden
          /\ Return(p, "err") /\ UNCHANGED work
       \/ /\ store[op[p].snap][f] # None
          /\ work' = [work EXCEPT ![f] = store[op[p].snap][f]]
          /\ Continue(p, [op[p] EXCEPT !.todo = @ \ {f}])
          /\ Disturb(p)
    /\ UNCHANGED <<hidden, disk, clock, writes, faults, truth>>

(* Mutant: files added since the snapshot are left, as SelfHealer does. *)
PruneBegin_Skipped(p) ==
    /\ At(p, "restore")
    /\ op[p].todo = {}
    /\ Continue(p, [op[p] EXCEPT !.pc = "prune"])
    /\ UNCHANGED <<work, hidden, disk, clock, writes, faults, history>>

(* The second walk lists the working directory; the names it finds are compared
   as the manifest has them. *)
PruneBegin(p) ==
    /\ At(p, "restore")
    /\ op[p].todo = {}
    /\ Continue(p, [op[p] EXCEPT !.pc = "prune",
                                 !.todo = {f \in Listed : Lossy[f] \notin op[p].keep}])
    /\ UNCHANGED <<work, hidden, disk, clock, writes, faults, history>>

(* Remove a file the loaded manifest does not name (again, one made after the
   walk began may be listed as well, but no name twice). *)
PruneFile(p, f) ==
    /\ At(p, "prune")
    /\ f \in op[p].todo \cup Listed
    /\ Lossy[f] \notin op[p].keep /\ f \notin op[p].removed
    /\ work[f] # None
    /\ work' = [work EXCEPT ![f] = None]
    /\ Continue(p, [op[p] EXCEPT !.todo = @ \ {f}, !.removed = @ \cup {f}])
    /\ Disturb(p)
    /\ UNCHANGED <<hidden, disk, clock, writes, faults, truth>>

(* The entry is gone or closed off: remove_file fails, or it was never listed. *)
PruneMissing(p, f) ==
    /\ At(p, "prune")
    /\ f \in op[p].todo
    /\ f \notin Listed
    /\ \/ Return(p, "err")
       \/ Continue(p, [op[p] EXCEPT !.todo = @ \ {f}]) /\ UNCHANGED quiet
    /\ UNCHANGED <<work, hidden, disk, clock, writes, faults, truth>>

RollbackReturn(p) ==
    /\ At(p, "prune")
    /\ op[p].todo = {}
    /\ Return(p, "ok")
    /\ UNCHANGED <<work, hidden, disk, clock, writes, faults, truth>>

--------------------------------------------------------------------------------
(* diff: the manifest against the hashes of the working directory, by name; of
   two files of one name the walk keeps the one it comes to last, so that a name
   with different contents may be reported. *)

Diff(s) ==
    LET then == Present(manifest[s])
        now == LossyNames(Listed)
    IN  [added |-> now \ then, deleted |-> then \ now,
         modified |-> {n \in now \cap then : \E f \in Listed : Lossy[f] = n /\ work[f] # manifest[s][n]}]

--------------------------------------------------------------------------------
(* The environment *)

(* An agent writes, creates or deletes a file.  Nothing suspends agents while
   a snapshot is taken or restored. *)
AgentWrite(f) ==
    /\ writes < MaxWrites
    /\ \E c \in (Contents \cup {None}) \ {work[f]} :
          work' = [work EXCEPT ![f] = c]
    /\ writes' = writes + 1
    /\ quiet' = {}
    /\ UNCHANGED <<hidden, disk, clock, op, result, faults, truth>>

(* A directory loses or gets back the permission to be listed. *)
Hide(f) ==
    /\ writes < MaxWrites
    /\ hidden' = IF f \in hidden THEN hidden \ {f} ELSE hidden \cup {f}
    /\ writes' = writes + 1
    /\ quiet' = {}
    /\ UNCHANGED <<work, disk, clock, op, result, faults, truth>>

(* Any step may fail (disk full, database locked, foreign key): the `?` makes
   the operation return early and nothing is undone.  Or the process dies. *)
Fault(p) ==
    /\ faults < MaxFaults
    /\ ~At(p, "idle")
    /\ \E outcome \in {"err", "none"} : Return(p, outcome)
    /\ faults' = faults + 1
    /\ UNCHANGED <<work, hidden, disk, clock, writes, truth>>

--------------------------------------------------------------------------------
CreateStep(p) ==
    \/ \E f \in Files : HashFile(p, f) \/ HashMissing(p, f) \/ InsertFile(p, f)
    \/ CopyFile(p) \/ CopyMissing(p) \/ InsertRow(p) \/ CreateReturn(p)

RollbackStep(p) ==
    \/ \E f \in Files : RestoreFile(p, f) \/ PruneFile(p, f) \/ PruneMissing(p, f)
    \/ LoadManifest(p) \/ PruneBegin(p) \/ RollbackReturn(p)

Start(p) ==
    \/ \E a \in Agents : CreateBegin(p, a) \/ RollbackLatest(p, a)
    \/ \E s \in Snaps : Rollback(p, s)

Next ==
    \/ \E p \in Procs : Start(p) \/ CreateStep(p) \/ RollbackStep(p) \/ Fault(p)
    \/ \E f \in Files : AgentWrite(f) \/ Hide(f)

Spec == Init /\ [][Next]_vars

(* A process that is in an operation keeps running. *)
FairSpec == Spec /\ \A p \in Procs : WF_vars(CreateStep(p) \/ RollbackStep(p))
--------------------------------------------------------------------------------
(* Properties *)

OpTypeOK ==
    /\ op \in [Procs -> OpType]
    /\ \A p \in Procs : /\ (op[p].snap = None) <=> (op[p].pc = "idle")
                        /\ (op[p].agent = None) <=> (op[p].pc \notin Creating)
                        /\ (op[p].cur = None) <=> (op[p].pc # "copy")

(* Every variable keeps its type; an operation holds a snapshot, an agent, and a
   file in its hands, exactly in the phases whose code does. *)
TypeOK ==
    /\ work \in Image /\ hidden \in SUBSET Files
    /\ dirs \in SUBSET Snaps
    /\ store \in [Snaps -> Image]
    /\ rows \in [Snaps -> Row \cup {None}]
    /\ manifest \in [Snaps -> Image]
    /\ clock \in Nat
    /\ OpTypeOK
    /\ result \in [Procs -> {"none", "ok", "err"}]
    /\ writes \in 0 .. MaxWrites
    /\ faults \in 0 .. MaxFaults
    /\ quiet \in SUBSET Procs
    /\ truth \in [Snaps -> Image \cup {None}]

(* A copy that the name leads to: of the file itself, if its name is UTF-8. *)
Stored(s, n) == \E f \in Files : Lossy[f] = n /\ store[s][f] # None

(* Whatever fails or is killed, in whatever interleaving: a manifest entry
   belongs to a snapshots row and to a stored copy, so that the copy_file of a
   rollback never misses its source unless a name is not UTF-8. *)
EntriesBacked ==
    /\ \A s \in Snaps : \A n \in Present(manifest[s]) : rows[s] # None /\ Stored(s, n)
    /\ \A p \in Procs : \A n \in op[p].keep : Stored(op[p].snap, n)

(* A create_snapshot that returned Ok, and during which nobody moved the
   working directory, recorded exactly what its walk could list, each file under
   a name of its own: the stored copies, the hashes and file_count, for ever after. *)
SnapshotFaithful ==
    \A s \in Snaps : truth[s] # None =>
        LET files == Present(truth[s])
        IN  /\ store[s] = truth[s]
            /\ Present(manifest[s]) = LossyNames(files)
            /\ \A f \in files : manifest[s][Lossy[f]] = truth[s][f]
            /\ rows[s].file_count = Cardinality(files)
            /\ \A f, g \in files : Lossy[f] = Lossy[g] => f = g

(* A rollback about to return Ok, which loaded the whole manifest of such a
   snapshot and was not interfered with, has brought every file of it back, those
   included that cannot be listed any more, and left nothing that can be listed
   but them and files that pass for one of them.  A diff taken now finds no file
   added, misses at most what it cannot list, and mistakes at most such a file.
   And no rollback gets that far if a name of the snapshot is not UTF-8. *)
RoundTrip ==
    \A p \in Procs :
        LET s == op[p].snap
            image == truth[s]
        IN  (/\ At(p, "prune") /\ op[p].todo = {} /\ p \in quiet
             /\ image # None /\ op[p].keep = LossyNames(Present(image)))
               => /\ \A f \in Present(image) : Lossy[f] = f /\ work[f] = image[f]
                  /\ LossyNames(Listed) \subseteq Present(image)
                  /\ Diff(s).added = {} /\ Diff(s).deleted \subseteq hidden
                  /\ Diff(s).modified \subseteq {Lossy[f] : f \in {g \in Listed : Lossy[g] # g}}

(* What is stored can be put back: the three together. *)
Recoverable == EntriesBacked /\ SnapshotFaithful /\ RoundTrip

(* Two of its files have one name: the second row was refused. *)
Collides(s) == \E f, g \in Present(store[s]) : f # g /\ Lossy[f] = Lossy[g]

BeingCreated(s) == \E p \in Procs : op[p].pc \in Creating /\ op[p].snap = s

(* What the rollback loop is about to remove was not in the snapshot, as the
   comment over the loop says ("Remove files present in working_dir that were
   not in the snapshot"), unless the snapshot was still being created when its
   manifest was read. *)
PruneSparesSnapshot ==
    \A p \in Procs :
        LET s == op[p].snap
        IN  At(p, "prune") /\ ~BeingCreated(s) /\ op[p].keep = Present(manifest[s]) /\ ~Collides(s)
              => \A f \in Present(work) : Lossy[f] \notin op[p].keep => store[s][f] = None

(* A snapshot nobody is creating any more has as many manifest rows as its
   file_count says. *)
ManifestComplete ==
    \A s \in Snaps :
        rows[s] # None /\ ~Collides(s) /\ ~BeingCreated(s)
          => rows[s].file_count = Cardinality(Present(manifest[s]))

(* The manifest is the truth about a snapshot whose files have a name each: it has
   all its rows once nobody creates it any more, and what is removed for want of a
   row was never stored. *)
ManifestTrue == ManifestComplete /\ PruneSparesSnapshot

(* The engine is a write-once catalogue (SnapshotCatalog): what a rollback of a
   snapshot would put back, published file by file until its creation ends. *)
Catalogue ==
    [s \in Snaps |-> [f \in Files |-> IF manifest[s][f] = None THEN None
                                                                ELSE store[s][f]]]
Sealed == {s \in dirs : ~BeingCreated(s)}

Abstract == INSTANCE SnapshotCatalog WITH catalogue <- Catalogue, sealed <- Sealed
CatalogSpec == Abstract!Spec

(* Every operation ends: with an answer or with its process. *)
OperationsEnd == \A p \in Procs : op[p].pc # "idle" ~> op[p].pc = "idle"
================================================================================
