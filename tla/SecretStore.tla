------------------------------- MODULE SecretStore -------------------------------
(***************************************************************************)
(* What a vault promises to those who use it at the same time.  A call     *)
(* reads all of the store, changes one thing in what it has read, and puts *)
(* that in the place of whatever the store holds by then.  So a call that  *)
(* meets no other concerns one key and leaves the others alone, and never  *)
(* a salt that is there; one that overlaps others undoes what they have    *)
(* done since it read the store, and nothing else.                         *)
(***************************************************************************)
CONSTANTS Keys, Secrets, Salts, Writers, None

VARIABLES
    store,      \* the salt and the secrets, or None: nothing that can be read
    reading     \* writer -> what its call has read, or None

Empty == [kdf_salt |-> None, entries |-> [k \in Keys |-> None]]

Init == store = Empty /\ reading = [p \in Writers |-> None]

Read(p) ==
    /\ reading[p] = None /\ store # None
    /\ reading' = [reading EXCEPT ![p] = store]
    /\ UNCHANGED store

(* From here until the end of the call there may be nothing to read. *)
Clear(p) ==
    /\ reading[p] # None
    /\ store' = None
    /\ UNCHANGED reading

Ends(p) == reading[p] # None /\ reading' = [reading EXCEPT ![p] = None]

Put(p, k) ==
    /\ Ends(p)
    /\ \E s \in Secrets : store' = [reading[p] EXCEPT !.entries[k] = s]

Remove(p, k) ==
    /\ Ends(p) /\ reading[p].entries[k] # None
    /\ store' = [reading[p] EXCEPT !.entries[k] = None]

ChooseSalt(p) ==
    /\ Ends(p) /\ reading[p].kdf_salt = None
    /\ \E s \in Salts : store' = [reading[p] EXCEPT !.kdf_salt = s]

(* What two calls write at once may be mixed up. *)
Clash(p) == Ends(p) /\ store # None /\ store' = None

Die(p) == Ends(p) /\ UNCHANGED store

Next ==
    \E p \in Writers :
        \/ Read(p) \/ Clear(p) \/ ChooseSalt(p) \/ Clash(p) \/ Die(p)
        \/ \E k \in Keys : Put(p, k) \/ Remove(p, k)

Spec == Init /\ [][Next]_<<store, reading>>
================================================================================
