--------------------------------- MODULE Vault ---------------------------------
(***************************************************************************)
(* The secrets vault of openhawk-vault: one JSON file with the encrypted   *)
(* entries and the salt of the passphrase key, and one key in the system's *)
(* keychain.                                                               *)
(*                                                                         *)
(* Each command of the command line opens the vault in a process of its    *)
(* own.  Every operation reads the file, and those that change something   *)
(* write the whole of it back: truncate, then write, without a lock.       *)
(* Encryption is taken as perfect: an entry opens with the key it was      *)
(* sealed with and with no other.                                          *)
(***************************************************************************)
EXTENDS Naturals

CONSTANTS
    Keys, Values,
    Passphrases,
    Salts,         \* random, and no salt is drawn twice
    Randoms,       \* keys for the keychain, likewise
    Procs,         \* processes, each a command that uses the vault
    MaxCrashes,    \* bound: processes that die
    MaxFaults,     \* bound: calls of the keychain that fail
    None

ASSUME BoundAssumption == MaxCrashes \in Nat /\ MaxFaults \in Nat

(* derive_key gives a key for each passphrase and salt. *)
PassKeys == [pass : Passphrases, salt : Salts]
CryptKeys == PassKeys \cup [random : Randoms]

VaultEntry == [value : Values, key : CryptKeys]
VaultFile == [kdf_salt : Salts \cup {None}, entries : [Keys -> VaultEntry \cup {None}]]
Default == [kdf_salt |-> None, entries |-> [k \in Keys |-> None]]

ASSUME NoneAssumption == None \notin Salts \cup CryptKeys \cup VaultFile

VARIABLES
    exists,     \* whether the file is there
    torn,       \* its contents do not parse
    file,       \* what was written last
    keychain,   \* the key in the keychain
    drawn,      \* salts and random keys handed out
    op,         \* process -> the call it is in, with the file as it read it
    token,      \* process -> the key authenticate gave it
    result,     \* process -> what its last call returned
    crashes, faults,
    puts,       \* history: <<key, entry>> that set was called with
    lost        \* history: salts overwritten by a call that had read the file before

disk == <<exists, torn, file>>
vars == <<disk, keychain, drawn, op, token, result, crashes, faults, puts, lost>>

Idle == [pc |-> "idle", read |-> Default, loaded |-> Default, next |-> None]
Outcome(kind) == [kind |-> kind, key |-> None, entry |-> None]

Init ==
    /\ exists = FALSE /\ torn = FALSE /\ file = Default
    /\ keychain = None
    /\ drawn = {}
    /\ op = [p \in Procs |-> Idle]
    /\ token = [p \in Procs |-> None]
    /\ result = [p \in Procs |-> Outcome("none")]
    /\ crashes = 0 /\ faults = 0
    /\ puts = {} /\ lost = {}

At(p, pc) == op[p].pc = pc

(* A call can be made; set, get and delete take the token of authenticate. *)
Called(p) == At(p, "idle") /\ token[p] # None

Return(p, outcome) ==
    /\ op' = [op EXCEPT ![p] = Idle]
    /\ result' = [result EXCEPT ![p] = outcome]

Err(p) == Return(p, Outcome("err")) /\ UNCHANGED <<disk, drawn, token, puts>>

Authenticated(p, key) ==
    /\ Return(p, Outcome("ok"))
    /\ token' = [token EXCEPT ![p] = key]

--------------------------------------------------------------------------------
(* The file *)

(* save_file of vf; next is the key authenticate returns after it. *)
Save(p, vf, next) ==
    /\ op' = [op EXCEPT ![p] = [pc |-> "truncate", read |-> file, loaded |-> vf, next |-> next]]
    /\ UNCHANGED <<disk, token, result>>

(* Mutant: an existing file is opened, none is created. *)
Truncate_NoCreate(p) ==
    /\ At(p, "truncate")
    /\ torn' = TRUE
    /\ op' = [op EXCEPT ![p].pc = "write"]
    /\ UNCHANGED <<exists, file, keychain, drawn, token, result, crashes, faults, puts, lost>>

Truncate(p) ==
    /\ At(p, "truncate")
    /\ exists' = TRUE /\ torn' = TRUE
    /\ op' = [op EXCEPT ![p].pc = "write"]
    /\ UNCHANGED <<file, keychain, drawn, token, result, crashes, faults, puts, lost>>

(* The salt the call puts out of the file, one it has not read. *)
Overwritten(p) ==
    IF file = op[p].read THEN {} ELSE {file.kdf_salt} \ {op[p].loaded.kdf_salt, None}

(* When another process has written since Truncate, the tail of its longer *)
(* contents may be left behind those of this one.                          *)
Write(p) ==
    /\ At(p, "write")
    /\ file' = op[p].loaded
    /\ lost' = lost \cup Overwritten(p)
    /\ torn' \in {FALSE, ~torn}
    /\ IF op[p].next = None THEN Return(p, Outcome("ok")) /\ UNCHANGED token
                            ELSE Authenticated(p, op[p].next)
    /\ UNCHANGED <<exists, keychain, drawn, crashes, faults, puts>>

--------------------------------------------------------------------------------
(* authenticate *)

(* Mutant: the salt is not stored. *)
Authenticate_NoSave(p, pass) ==
    /\ At(p, "idle") /\ ~torn
    /\ \E s \in IF file.kdf_salt = None THEN Salts \ drawn ELSE {file.kdf_salt} :
          /\ drawn' = drawn \cup {s}
          /\ Authenticated(p, [pass |-> pass, salt |-> s])
    /\ UNCHANGED <<disk, keychain, crashes, faults, puts, lost>>

(* With a passphrase: the salt of the file, or a new one that is stored. *)
Authenticate(p, pass) ==
    /\ At(p, "idle")
    /\ \/ torn /\ Err(p)
       \/ /\ ~torn /\ file.kdf_salt # None
          /\ Authenticated(p, [pass |-> pass, salt |-> file.kdf_salt])
          /\ UNCHANGED <<disk, drawn, puts>>
       \/ /\ ~torn /\ file.kdf_salt = None
          /\ \E s \in Salts \ drawn :
                /\ drawn' = drawn \cup {s}
                /\ Save(p, [file EXCEPT !.kdf_salt = s], [pass |-> pass, salt |-> s])
          /\ UNCHANGED puts
    /\ UNCHANGED <<keychain, crashes, faults, lost>>

(* get_or_create_keychain_key finds a key ... *)
ReadKeychain(p) ==
    /\ At(p, "idle") /\ keychain # None
    /\ Authenticated(p, keychain)
    /\ UNCHANGED <<disk, keychain, drawn, crashes, faults, puts, lost>>

(* ... or draws one: when there is none, and when the call fails. *)
DrawKey(p, failed) ==
    /\ At(p, "idle")
    /\ IF failed THEN faults < MaxFaults /\ faults' = faults + 1
                 ELSE keychain = None /\ UNCHANGED faults
    /\ \E r \in Randoms \ drawn :
          /\ drawn' = drawn \cup {r}
          /\ op' = [op EXCEPT ![p] = [Idle EXCEPT !.pc = "keychain", !.next = [random |-> r]]]
    /\ UNCHANGED <<disk, keychain, token, result, crashes, puts, lost>>

StoreKey(p, failed) ==
    /\ At(p, "keychain")
    /\ IF failed THEN faults < MaxFaults /\ faults' = faults + 1 /\ UNCHANGED keychain
                      /\ Err(p)
                 ELSE /\ keychain' = op[p].next /\ Authenticated(p, op[p].next)
                      /\ UNCHANGED <<disk, drawn, faults, puts>>
    /\ UNCHANGED <<crashes, lost>>

--------------------------------------------------------------------------------
(* set, get, delete *)

(* Mutant: the file is not read first. *)
Set_Fresh(p, k, v) ==
    /\ Called(p)
    /\ LET entry == [value |-> v, key |-> token[p]]
       IN  /\ Save(p, [Default EXCEPT !.entries[k] = entry], None)
           /\ puts' = puts \cup {<<k, entry>>}
    /\ UNCHANGED <<keychain, drawn, crashes, faults, lost>>

Set(p, k, v) ==
    /\ Called(p)
    /\ LET entry == [value |-> v, key |-> token[p]]
       IN  \/ torn /\ Err(p)
           \/ /\ ~torn
              /\ Save(p, [file EXCEPT !.entries[k] = entry], None)
              /\ puts' = puts \cup {<<k, entry>>}
              /\ UNCHANGED drawn
    /\ UNCHANGED <<keychain, crashes, faults, lost>>

(* The token of the caller is not looked at. *)
Delete(p, k) ==
    /\ Called(p)
    /\ \/ (torn \/ file.entries[k] = None) /\ Err(p)
       \/ /\ ~torn /\ file.entries[k] # None
          /\ Save(p, [file EXCEPT !.entries[k] = None], None)
          /\ UNCHANGED <<drawn, puts>>
    /\ UNCHANGED <<keychain, crashes, faults, lost>>

Got(p, k, entry) ==
    /\ Return(p, [kind |-> "got", key |-> k, entry |-> entry])
    /\ UNCHANGED <<disk, drawn, token, puts>>

(* Mutant: the key has no part in decryption. *)
Get_AnyKey(p, k) ==
    /\ Called(p)
    /\ \/ (torn \/ file.entries[k] = None) /\ Err(p)
       \/ ~torn /\ file.entries[k] # None
            /\ Got(p, k, [value |-> file.entries[k].value, key |-> token[p]])
    /\ UNCHANGED <<keychain, crashes, faults, lost>>

(* Decryption fails under another key than the one of set. *)
Get(p, k) ==
    /\ Called(p)
    /\ LET entry == file.entries[k]
           opens == ~torn /\ entry # None /\ entry.key = token[p]
       IN  (opens /\ Got(p, k, entry)) \/ (~opens /\ Err(p))
    /\ UNCHANGED <<keychain, crashes, faults, lost>>

(* The process dies; the next command takes its place. *)
Crash(p) ==
    /\ crashes < MaxCrashes
    /\ crashes' = crashes + 1
    /\ op' = [op EXCEPT ![p] = Idle]
    /\ result' = [result EXCEPT ![p] = Outcome("none")]
    /\ token' = [token EXCEPT ![p] = None]
    /\ UNCHANGED <<disk, keychain, drawn, faults, puts, lost>>

--------------------------------------------------------------------------------
Next ==
    \E p \in Procs :
        \/ Truncate(p) \/ Write(p) \/ ReadKeychain(p) \/ Crash(p)
        \/ \E pass \in Passphrases : Authenticate(p, pass)
        \/ \E failed \in BOOLEAN : DrawKey(p, failed) \/ StoreKey(p, failed)
        \/ \E k \in Keys : Get(p, k) \/ Delete(p, k) \/ \E v \in Values : Set(p, k, v)

Spec == Init /\ [][Next]_vars

--------------------------------------------------------------------------------
(* Properties *)

(* Every variable keeps its type; only a file that is there can be torn. *)
TypeOK ==
    /\ exists \in BOOLEAN /\ torn \in BOOLEAN /\ (torn => exists)
    /\ file \in VaultFile
    /\ keychain \in CryptKeys \cup {None}
    /\ drawn \subseteq Salts \cup Randoms
    /\ \A p \in Procs : /\ op[p] \in [pc : {"idle", "keychain", "truncate", "write"},
                                      read : VaultFile, loaded : VaultFile,
                                      next : CryptKeys \cup {None}]
                        /\ token[p] \in CryptKeys \cup {None}
                        /\ result[p] \in [kind : {"none", "ok", "err", "got"},
                                          key : Keys \cup {None},
                                          entry : VaultEntry \cup {None}]
    /\ crashes \in 0 .. MaxCrashes /\ faults \in 0 .. MaxFaults
    /\ lost \subseteq Salts

(* What get returns was once set under that key, with the very key the     *)
(* caller has, whatever else writes to the file meanwhile.                 *)
GetReturns ==
    \A p \in Procs : result[p].kind = "got" =>
        /\ <<result[p].key, result[p].entry>> \in puts
        /\ result[p].entry.key = token[p]

(* Authenticating again with the same passphrase opens what was set with it,
   whatever died in between: the salt of its key is the one in the file.  Only a
   call that overlaps others can take that salt away: one that writes back a file
   it had read before the salt was there. *)
OpensAgain ==
    \A k \in Keys :
        LET entry == file.entries[k]
        IN  entry # None /\ entry.key \in PassKeys
              => entry.key.salt = file.kdf_salt \/ entry.key.salt \in lost

(* What was sealed comes back, and only to the key that sealed it. *)
SecretsKept == GetReturns /\ OpensAgain

(* The salt is generated once and then stays in the file. *)
SaltStays == [][file.kdf_salt # None => file'.kdf_salt = file.kdf_salt]_vars

(* Whoever writes, in however many processes, the file is a store that each call
   reads, changes in one place and replaces. *)
Saving(p) == op[p].pc \in {"truncate", "write"}
Store == INSTANCE SecretStore
            WITH Secrets <- VaultEntry, Writers <- Procs, store <- IF torn THEN None ELSE file,
                 reading <- [p \in Procs |-> IF Saving(p) THEN op[p].read ELSE None]
RefinesStore == Store!Spec
================================================================================
