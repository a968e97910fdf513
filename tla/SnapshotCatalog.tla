---------------------------- MODULE SnapshotCatalog ----------------------------
(***************************************************************************)
(* What the snapshot engine promises of the snapshots it keeps, whatever   *)
(* happens to the processes that use it: each id is a catalogue entry that *)
(* is filled file by file, in which a file once published never changes,   *)
(* and which nothing is added to once its creation has ended.              *)
(***************************************************************************)
CONSTANTS Files, Contents, Snaps, None

VARIABLES catalogue,  \* snapshot -> file -> the contents a rollback puts back
          sealed      \* snapshots whose creation has ended

Init ==
    /\ catalogue = [s \in Snaps |-> [f \in Files |-> None]]
    /\ sealed = {}

Publish(s, f) ==
    /\ s \notin sealed
    /\ catalogue[s][f] = None
    /\ \E c \in Contents : catalogue' = [catalogue EXCEPT ![s][f] = c]
    /\ UNCHANGED sealed

Seal(s) ==
    /\ s \notin sealed
    /\ sealed' = sealed \cup {s}
    /\ UNCHANGED catalogue

Next == \E s \in Snaps : Seal(s) \/ \E f \in Files : Publish(s, f)

Spec == Init /\ [][Next]_<<catalogue, sealed>>
================================================================================
