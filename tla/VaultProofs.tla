------------------------------ MODULE VaultProofs ------------------------------
(***************************************************************************)
(* The properties of Vault, for any keys, values, passphrases, processes    *)
(* and number of crashes and faults.                                       *)
(*                                                                         *)
(* What a call is about to write is the file as it read it with one thing  *)
(* changed, and what it read was in the file once: so what get returns was *)
(* set by somebody, and the file is a SecretStore.  That what a passphrase *)
(* sealed opens again rests on the salt: whoever has a key of a passphrase *)
(* has the salt of the file, or one that an overlapping call overwrote.    *)
(***************************************************************************)
EXTENDS Vault, TLAPS

CallType == [pc : {"idle", "keychain", "truncate", "write"},
             read : VaultFile, loaded : VaultFile, next : CryptKeys \cup {None}]
ResultType == [kind : {"none", "ok", "err", "got"},
               key : Keys \cup {None}, entry : VaultEntry \cup {None}]

Shape ==
    /\ op \in [Procs -> CallType]
    /\ token \in [Procs -> CryptKeys \cup {None}]
    /\ result \in [Procs -> ResultType]

(* A file that is written to is there. *)
Opened == \A p \in Procs : At(p, "write") => exists

TInv == TypeOK /\ Shape /\ Opened

--------------------------------------------------------------------------------
(* Types *)

LEMMA DefaultType == Default \in VaultFile
BY DEF Default, VaultFile

LEMMA IdleType == Idle \in CallType
BY DefaultType DEF Idle, CallType

LEMMA OutcomeType ==
    ASSUME NEW kind \in {"none", "ok", "err", "got"}
    PROVE  Outcome(kind) \in ResultType
BY DEF Outcome, ResultType

(* The parts of the type invariant that say nothing of a process. *)
Base ==
    /\ exists \in BOOLEAN /\ torn \in BOOLEAN /\ (torn => exists)
    /\ file \in VaultFile
    /\ keychain \in CryptKeys \cup {None}
    /\ drawn \subseteq Salts \cup Randoms
    /\ crashes \in 0 .. MaxCrashes /\ faults \in 0 .. MaxFaults
    /\ lost \subseteq Salts

LEMMA InitialTypeOK ==
    ASSUME Base, Shape
    PROVE  TypeOK
BY DEF Base, Shape, TypeOK, CallType, ResultType

LEMMA TypeParts ==
    ASSUME Base', Shape'
    PROVE  TypeOK'
BY DEF Base, Shape, TypeOK, CallType, ResultType

LEMMA InitTypes ==
    ASSUME Init
    PROVE  TInv
<1>1. Base
  <2>1. exists \in BOOLEAN /\ torn \in BOOLEAN /\ (torn => exists)
    BY DEF Init
  <2>2. file \in VaultFile /\ keychain \in CryptKeys \cup {None} /\ drawn \subseteq Salts \cup Randoms
    BY DefaultType DEF Init
  <2>3. crashes \in 0 .. MaxCrashes /\ faults \in 0 .. MaxFaults /\ lost \subseteq Salts
    BY BoundAssumption DEF Init
  <2> QED BY <2>1, <2>2, <2>3 DEF Base
<1>2. Shape
  BY IdleType, OutcomeType DEF Init, Shape
<1>3. Opened
  BY DEF Init, Opened, At, Idle
<1> QED BY <1>1, <1>2, <1>3, InitialTypeOK DEF TInv

LEMMA ReturnTypes ==
    ASSUME Shape, NEW p \in Procs, NEW outcome \in ResultType, Return(p, outcome)
    PROVE  op' \in [Procs -> CallType] /\ result' \in [Procs -> ResultType]
BY IdleType DEF Shape, Return

LEMMA SaveTypes ==
    ASSUME TInv, NEW p \in Procs, NEW vf \in VaultFile, NEW next \in CryptKeys \cup {None},
           Save(p, vf, next)
    PROVE  Shape' /\ Opened'
<1>1. [pc |-> "truncate", read |-> file, loaded |-> vf, next |-> next] \in CallType
  BY DEF CallType, TInv, TypeOK
<1>2. op' \in [Procs -> CallType]
  BY <1>1 DEF Save, TInv, Shape
<1>3. Shape'
  BY <1>2 DEF Save, TInv, Shape
<1>4. Opened'
  BY DEF Save, disk, TInv, Shape, Opened, At
<1> QED BY <1>3, <1>4

(* A call that returns and leaves the disk alone. *)
LEMMA EndTypes ==
    ASSUME TInv, NEW p \in Procs, NEW outcome \in ResultType, Return(p, outcome),
           UNCHANGED disk, token' \in [Procs -> CryptKeys \cup {None}]
    PROVE  Shape' /\ Opened'
<1>1. Shape'
  BY ReturnTypes DEF TInv, Shape
<1>2. Opened'
  BY DEF TInv, Opened, At, Shape, Return, disk, Idle
<1> QED BY <1>1, <1>2

LEMMA ErrTypes ==
    ASSUME TInv, NEW p \in Procs, Err(p)
    PROVE  Shape' /\ Opened' /\ UNCHANGED <<disk, drawn, token, puts>>
<1>1. UNCHANGED <<disk, drawn, token, puts>> /\ Return(p, Outcome("err"))
  BY DEF Err
<1>2. token' \in [Procs -> CryptKeys \cup {None}]
  BY <1>1 DEF TInv, Shape
<1> QED BY <1>1, <1>2, OutcomeType, EndTypes

LEMMA TruncateTypes ==
    ASSUME TInv, NEW p \in Procs, Truncate(p)
    PROVE  TInv'
<1>1. Base'
  BY DEF TInv, TypeOK, Base, Truncate
<1>2. op' \in [Procs -> CallType]
  BY DEF TInv, Shape, Truncate, CallType
<1>3. Shape' /\ Opened'
  BY <1>2 DEF TInv, Shape, Truncate, Opened
<1> QED BY <1>1, <1>3, TypeParts DEF TInv

LEMMA WriteTypes ==
    ASSUME TInv, NEW p \in Procs, Write(p)
    PROVE  TInv'
<1>1. exists /\ exists' = exists /\ torn' \in BOOLEAN
  BY DEF TInv, TypeOK, Opened, Write
<1>2. file' \in VaultFile
  BY DEF TInv, Shape, Write, CallType
<1>3. Base'
  <2>1. lost' \subseteq Salts
    BY DEF TInv, TypeOK, VaultFile, Write, Overwritten
  <2> QED BY <1>1, <1>2, <2>1 DEF TInv, TypeOK, Base, Write
<1>4. Return(p, Outcome("ok"))
  BY DEF Write, Authenticated
<1>5. token' \in [Procs -> CryptKeys \cup {None}]
  BY DEF Write, Authenticated, TInv, Shape, CallType
<1>6. Shape'
  BY <1>4, <1>5, OutcomeType, ReturnTypes DEF TInv, Shape
<1>7. Opened'
  BY <1>1 DEF Opened
<1> QED BY <1>3, <1>6, <1>7, TypeParts DEF TInv

LEMMA AuthenticateTypes ==
    ASSUME TInv, NEW p \in Procs, NEW pass \in Passphrases, Authenticate(p, pass)
    PROVE  TInv'
<1>1. CASE torn /\ Err(p)
  <2>1. Shape' /\ Opened' /\ UNCHANGED <<disk, drawn, token, puts>>
    BY <1>1, ErrTypes
  <2>2. Base'
    BY <2>1 DEF TInv, TypeOK, Base, Authenticate, disk
  <2> QED BY <2>1, <2>2, TypeParts DEF TInv
<1>2. CASE /\ ~torn /\ file.kdf_salt # None
           /\ Authenticated(p, [pass |-> pass, salt |-> file.kdf_salt])
           /\ UNCHANGED <<disk, drawn, puts>>
  <2>1. [pass |-> pass, salt |-> file.kdf_salt] \in CryptKeys
    BY <1>2 DEF TInv, TypeOK, VaultFile, CryptKeys, PassKeys
  <2>2. token' \in [Procs -> CryptKeys \cup {None}] /\ Return(p, Outcome("ok"))
    BY <1>2, <2>1 DEF Authenticated, TInv, Shape
  <2>3. Shape' /\ Opened'
    BY <1>2, <2>2, OutcomeType, EndTypes
  <2>4. Base'
    BY <1>2 DEF TInv, TypeOK, Base, Authenticate, disk
  <2> QED BY <2>3, <2>4, TypeParts DEF TInv
<1>3. CASE \E s \in Salts \ drawn :
              /\ drawn' = drawn \cup {s}
              /\ Save(p, [file EXCEPT !.kdf_salt = s], [pass |-> pass, salt |-> s])
  <2>1. PICK s \in Salts : /\ drawn' = drawn \cup {s}
                           /\ Save(p, [file EXCEPT !.kdf_salt = s], [pass |-> pass, salt |-> s])
    BY <1>3
  <2>2. [file EXCEPT !.kdf_salt = s] \in VaultFile
    BY DEF TInv, TypeOK, VaultFile
  <2>3. [pass |-> pass, salt |-> s] \in CryptKeys
    BY DEF CryptKeys, PassKeys
  <2>4. Shape' /\ Opened'
    BY <2>1, <2>2, <2>3, SaveTypes
  <2>5. Base'
    BY <2>1 DEF TInv, TypeOK, Base, Authenticate, Save, disk
  <2> QED BY <2>4, <2>5, TypeParts DEF TInv
<1> QED BY <1>1, <1>2, <1>3 DEF Authenticate

LEMMA ReadKeychainTypes ==
    ASSUME TInv, NEW p \in Procs, ReadKeychain(p)
    PROVE  TInv'
<1>1. token' \in [Procs -> CryptKeys \cup {None}] /\ Return(p, Outcome("ok")) /\ UNCHANGED disk
  BY DEF ReadKeychain, Authenticated, TInv, Shape, TypeOK
<1>2. Shape' /\ Opened'
  BY <1>1, OutcomeType, EndTypes
<1>3. Base'
  BY DEF TInv, TypeOK, Base, ReadKeychain, disk
<1> QED BY <1>2, <1>3, TypeParts DEF TInv

LEMMA DrawKeyTypes ==
    ASSUME TInv, NEW p \in Procs, NEW failed \in BOOLEAN, DrawKey(p, failed)
    PROVE  TInv'
<1>1. PICK r \in Randoms :
          /\ drawn' = drawn \cup {r}
          /\ op' = [op EXCEPT ![p] = [Idle EXCEPT !.pc = "keychain", !.next = [random |-> r]]]
  BY DEF DrawKey
<1>2. [Idle EXCEPT !.pc = "keychain", !.next = [random |-> r]] \in CallType
  BY IdleType DEF Idle, CallType, CryptKeys
<1>3. Shape'
  BY <1>1, <1>2 DEF TInv, Shape, DrawKey
<1>4. Opened'
  BY <1>1 DEF TInv, Opened, At, Shape, DrawKey, disk, Idle
<1>5. faults' \in 0 .. MaxFaults
  BY BoundAssumption DEF TInv, TypeOK, DrawKey
<1>6. Base'
  BY <1>1, <1>5 DEF TInv, TypeOK, Base, DrawKey, disk
<1> QED BY <1>3, <1>4, <1>6, TypeParts DEF TInv

LEMMA StoreKeyTypes ==
    ASSUME TInv, NEW p \in Procs, NEW failed \in BOOLEAN, StoreKey(p, failed)
    PROVE  TInv'
<1>1. faults' \in 0 .. MaxFaults
  BY BoundAssumption DEF TInv, TypeOK, StoreKey
<1>2. CASE failed
  <2>1. Err(p) /\ UNCHANGED <<keychain, crashes, lost>>
    BY <1>2 DEF StoreKey
  <2>2. Shape' /\ Opened' /\ UNCHANGED <<disk, drawn, token, puts>>
    BY <2>1, ErrTypes
  <2>3. Base'
    BY <1>1, <2>1, <2>2 DEF TInv, TypeOK, Base, disk
  <2> QED BY <2>2, <2>3, TypeParts DEF TInv
<1>3. CASE ~failed
  <2>1. /\ keychain' = op[p].next /\ Authenticated(p, op[p].next)
        /\ UNCHANGED <<disk, drawn, faults, puts, crashes, lost>>
    BY <1>3 DEF StoreKey
  <2>2. op[p].next \in CryptKeys \cup {None}
    BY DEF TInv, Shape, CallType
  <2>3. token' \in [Procs -> CryptKeys \cup {None}] /\ Return(p, Outcome("ok"))
    BY <2>1, <2>2 DEF Authenticated, TInv, Shape
  <2>4. Shape' /\ Opened'
    BY <2>1, <2>3, OutcomeType, EndTypes
  <2>5. Base'
    BY <2>1, <2>2 DEF TInv, TypeOK, Base, disk
  <2> QED BY <2>4, <2>5, TypeParts DEF TInv
<1> QED BY <1>2, <1>3

LEMMA SetTypes ==
    ASSUME TInv, NEW p \in Procs, NEW k \in Keys, NEW v \in Values, Set(p, k, v)
    PROVE  TInv'
<1> DEFINE entry == [value |-> v, key |-> token[p]]
<1>1. CASE torn /\ Err(p)
  <2>1. Shape' /\ Opened' /\ UNCHANGED <<disk, drawn, token, puts>>
    BY <1>1, ErrTypes
  <2>2. Base'
    BY <2>1 DEF TInv, TypeOK, Base, Set, disk
  <2> QED BY <2>1, <2>2, TypeParts DEF TInv
<1>2. CASE ~torn /\ Save(p, [file EXCEPT !.entries[k] = entry], None) /\ UNCHANGED drawn
  <2>1. entry \in VaultEntry
    BY DEF Set, Called, TInv, Shape, VaultEntry
  <2>2. [file EXCEPT !.entries[k] = entry] \in VaultFile
    BY <2>1 DEF TInv, TypeOK, VaultFile
  <2>3. Shape' /\ Opened'
    BY <1>2, <2>2, SaveTypes
  <2>4. Base'
    BY <1>2 DEF TInv, TypeOK, Base, Set, Save, disk
  <2> QED BY <2>3, <2>4, TypeParts DEF TInv
<1> QED BY <1>1, <1>2 DEF Set

LEMMA DeleteTypes ==
    ASSUME TInv, NEW p \in Procs, NEW k \in Keys, Delete(p, k)
    PROVE  TInv'
<1>1. CASE Err(p)
  <2>1. Shape' /\ Opened' /\ UNCHANGED <<disk, drawn, token, puts>>
    BY <1>1, ErrTypes
  <2>2. Base'
    BY <2>1 DEF TInv, TypeOK, Base, Delete, disk
  <2> QED BY <2>1, <2>2, TypeParts DEF TInv
<1>2. CASE Save(p, [file EXCEPT !.entries[k] = None], None) /\ UNCHANGED <<drawn, puts>>
  <2>1. [file EXCEPT !.entries[k] = None] \in VaultFile
    BY DEF TInv, TypeOK, VaultFile
  <2>2. Shape' /\ Opened'
    BY <1>2, <2>1, SaveTypes
  <2>3. Base'
    BY <1>2 DEF TInv, TypeOK, Base, Delete, Save, disk
  <2> QED BY <2>2, <2>3, TypeParts DEF TInv
<1> QED BY <1>1, <1>2 DEF Delete

LEMMA GetTypes ==
    ASSUME TInv, NEW p \in Procs, NEW k \in Keys, Get(p, k)
    PROVE  TInv'
<1>1. CASE Err(p)
  <2>1. Shape' /\ Opened' /\ UNCHANGED <<disk, drawn, token, puts>>
    BY <1>1, ErrTypes
  <2>2. Base'
    BY <2>1 DEF TInv, TypeOK, Base, Get, disk
  <2> QED BY <2>1, <2>2, TypeParts DEF TInv
<1>2. CASE file.entries[k] # None /\ Got(p, k, file.entries[k])
  <2> DEFINE outcome == [kind |-> "got", key |-> k, entry |-> file.entries[k]]
  <2>1. outcome \in ResultType
    BY DEF TInv, TypeOK, VaultFile, ResultType
  <2>2. Return(p, outcome) /\ UNCHANGED <<disk, drawn, token, puts>>
    BY <1>2 DEF Got
  <2>3. token' \in [Procs -> CryptKeys \cup {None}]
    BY <2>2 DEF TInv, Shape
  <2>4. Shape' /\ Opened'
    BY <2>1, <2>2, <2>3, EndTypes
  <2>5. Base'
    BY <2>2 DEF TInv, TypeOK, Base, Get, disk
  <2> QED BY <2>4, <2>5, TypeParts DEF TInv
<1> QED BY <1>1, <1>2 DEF Get

LEMMA CrashTypes ==
    ASSUME TInv, NEW p \in Procs, Crash(p)
    PROVE  TInv'
<1>1. Return(p, Outcome("none")) /\ UNCHANGED disk
  BY DEF Crash, Return
<1>2. token' \in [Procs -> CryptKeys \cup {None}]
  BY DEF Crash, TInv, Shape
<1>3. Shape' /\ Opened'
  BY <1>1, <1>2, OutcomeType, EndTypes
<1>4. crashes' \in 0 .. MaxCrashes
  BY BoundAssumption DEF TInv, TypeOK, Crash
<1>5. Base'
  BY <1>4 DEF TInv, TypeOK, Base, Crash, disk
<1> QED BY <1>3, <1>5, TypeParts DEF TInv

LEMMA StutterTypes ==
    ASSUME TInv, UNCHANGED vars
    PROVE  TInv'
BY DEF TInv, TypeOK, Shape, Opened, At, vars, disk

LEMMA StepTypes ==
    ASSUME TInv, [Next]_vars
    PROVE  TInv'
<1> QED BY StutterTypes, TruncateTypes, WriteTypes, AuthenticateTypes, ReadKeychainTypes,
           DrawKeyTypes, StoreKeyTypes, SetTypes, DeleteTypes, GetTypes, CrashTypes DEF Next

(* The type invariant of the vault: a file that does not parse is there. *)
THEOREM TypeCorrect == Spec => []TypeOK
<1>1. Init => TInv
  BY InitTypes
<1>2. TInv /\ [Next]_vars => TInv'
  BY StepTypes
<1>3. TInv => TypeOK
  BY DEF TInv
<1> QED BY <1>1, <1>2, <1>3, PTL DEF Spec

--------------------------------------------------------------------------------
(* What get returns was set *)

Recorded(vf) == \A k \in Keys : vf.entries[k] # None => <<k, vf.entries[k]>> \in puts

GetInv ==
    /\ Recorded(file)
    /\ \A p \in Procs : Recorded(op[p].loaded)
    /\ GetReturns

LEMMA InitGet ==
    ASSUME Init
    PROVE  GetInv
<1>1. file = Default /\ \A p \in Procs : op[p].loaded = Default /\ result[p].kind = "none"
  BY DEF Init, Idle, Outcome
<1>2. Recorded(Default)
  BY DEF Recorded, Default
<1> QED BY <1>1, <1>2 DEF GetInv, GetReturns

(* A call that ends with ok, an error or a crash. *)
LEMMA EndGet ==
    ASSUME TInv, GetInv, NEW p \in Procs, NEW kind \in {"none", "ok", "err"},
           Return(p, Outcome(kind)), UNCHANGED puts, Recorded(file)',
           \A q \in Procs \ {p} : token'[q] = token[q]
    PROVE  GetInv'
<1>1. \A q \in Procs : op'[q] = (IF q = p THEN Idle ELSE op[q])
  BY DEF Return, TInv, Shape
<1>2. \A q \in Procs : result'[q] = (IF q = p THEN Outcome(kind) ELSE result[q])
  BY DEF Return, TInv, Shape
<1>3. Idle.loaded = Default /\ Outcome(kind).kind # "got"
  BY DEF Idle, Outcome
<1>4. Recorded(Default)'
  BY DEF Recorded, Default
<1>5. ASSUME NEW q \in Procs
      PROVE  Recorded(op[q].loaded)'
  <2>1. CASE q = p
    BY <1>1, <1>3, <1>4, <2>1 DEF Recorded
  <2>2. CASE q # p
    BY <1>1, <2>2 DEF GetInv, Recorded
  <2> QED BY <2>1, <2>2
<1>6. GetReturns'
  BY <1>2, <1>3 DEF GetInv, GetReturns
<1> QED BY <1>5, <1>6 DEF GetInv

LEMMA SaveGet ==
    ASSUME TInv, GetInv, NEW p \in Procs, NEW vf, NEW next, Save(p, vf, next),
           puts \subseteq puts',
           \A k \in Keys : vf.entries[k] # None => <<k, vf.entries[k]>> \in puts'
    PROVE  GetInv'
<1>1. \A q \in Procs : op'[q].loaded = (IF q = p THEN vf ELSE op[q].loaded)
  BY DEF Save, TInv, Shape
<1>2. Recorded(file)'
  BY DEF Save, disk, GetInv, Recorded
<1>3. ASSUME NEW q \in Procs
      PROVE  Recorded(op[q].loaded)'
  <2>1. CASE q = p
    BY <1>1, <2>1 DEF Recorded
  <2>2. CASE q # p
    BY <1>1, <2>2 DEF GetInv, Recorded
  <2> QED BY <2>1, <2>2
<1>4. GetReturns'
  BY DEF Save, GetInv, GetReturns
<1> QED BY <1>2, <1>3, <1>4 DEF GetInv

LEMMA ErrGet ==
    ASSUME TInv, GetInv, NEW p \in Procs, Err(p)
    PROVE  GetInv'
<1>1. Return(p, Outcome("err")) /\ UNCHANGED <<disk, token, puts>>
  BY DEF Err
<1>2. Recorded(file)'
  BY <1>1 DEF GetInv, Recorded, disk
<1> QED BY <1>1, <1>2, EndGet

LEMMA TruncateGet ==
    ASSUME TInv, GetInv, NEW p \in Procs, Truncate(p)
    PROVE  GetInv'
<1>1. \A q \in Procs : op'[q].loaded = op[q].loaded
  BY DEF Truncate, TInv, Shape
<1> QED BY <1>1 DEF Truncate, GetInv, Recorded, GetReturns

LEMMA WriteGet ==
    ASSUME TInv, GetInv, NEW p \in Procs, Write(p)
    PROVE  GetInv'
<1>1. Return(p, Outcome("ok")) /\ UNCHANGED puts /\ file' = op[p].loaded
  BY DEF Write, Authenticated
<1>2. Recorded(file)'
  BY <1>1 DEF GetInv, Recorded
<1>3. \A q \in Procs \ {p} : token'[q] = token[q]
  BY DEF Write, Authenticated, TInv, Shape
<1> QED BY <1>1, <1>2, <1>3, EndGet

(* Reading a key, or storing one, ends with ok and a new token. *)
LEMMA AuthenticatedGet ==
    ASSUME TInv, GetInv, NEW p \in Procs, NEW key, Authenticated(p, key), UNCHANGED <<disk, puts>>
    PROVE  GetInv'
<1>1. Recorded(file)'
  BY DEF GetInv, Recorded, disk
<1>2. \A q \in Procs \ {p} : token'[q] = token[q]
  BY DEF Authenticated, TInv, Shape
<1> QED BY <1>1, <1>2, EndGet DEF Authenticated

LEMMA AuthenticateGet ==
    ASSUME TInv, GetInv, NEW p \in Procs, NEW pass \in Passphrases, Authenticate(p, pass)
    PROVE  GetInv'
<1>1. ASSUME NEW s \in Salts, UNCHANGED puts,
             Save(p, [file EXCEPT !.kdf_salt = s], [pass |-> pass, salt |-> s])
      PROVE  GetInv'
  <2>1. [file EXCEPT !.kdf_salt = s].entries = file.entries
    BY DEF TInv, TypeOK, VaultFile
  <2>2. \A k \in Keys : file.entries[k] # None => <<k, file.entries[k]>> \in puts'
    BY <1>1 DEF GetInv, Recorded
  <2> QED BY <1>1, <2>1, <2>2, SaveGet
<1>2. CASE torn /\ Err(p)
  BY <1>2, ErrGet
<1>3. CASE /\ Authenticated(p, [pass |-> pass, salt |-> file.kdf_salt])
           /\ UNCHANGED <<disk, drawn, puts>>
  BY <1>3, AuthenticatedGet
<1> QED BY <1>1, <1>2, <1>3 DEF Authenticate

LEMMA ReadKeychainGet ==
    ASSUME TInv, GetInv, NEW p \in Procs, ReadKeychain(p)
    PROVE  GetInv'
BY AuthenticatedGet DEF ReadKeychain

LEMMA DrawKeyGet ==
    ASSUME TInv, GetInv, NEW p \in Procs, NEW failed \in BOOLEAN, DrawKey(p, failed)
    PROVE  GetInv'
<1>1. PICK r \in Randoms :
          op' = [op EXCEPT ![p] = [Idle EXCEPT !.pc = "keychain", !.next = [random |-> r]]]
  BY DEF DrawKey
<1>2. \A q \in Procs : op'[q].loaded = (IF q = p THEN Default ELSE op[q].loaded)
  BY <1>1 DEF TInv, Shape, Idle
<1>3. Recorded(Default)'
  BY DEF Recorded, Default
<1>4. ASSUME NEW q \in Procs
      PROVE  Recorded(op[q].loaded)'
  <2>1. CASE q = p
    BY <1>2, <1>3, <2>1 DEF Recorded
  <2>2. CASE q # p
    BY <1>2, <2>2 DEF GetInv, Recorded, DrawKey
  <2> QED BY <2>1, <2>2
<1> QED BY <1>4 DEF DrawKey, GetInv, Recorded, GetReturns, disk

LEMMA StoreKeyGet ==
    ASSUME TInv, GetInv, NEW p \in Procs, NEW failed \in BOOLEAN, StoreKey(p, failed)
    PROVE  GetInv'
<1>1. CASE Err(p)
  BY <1>1, ErrGet
<1>2. CASE Authenticated(p, op[p].next) /\ UNCHANGED <<disk, puts>>
  BY <1>2, AuthenticatedGet
<1> QED BY <1>1, <1>2 DEF StoreKey

LEMMA SetGet ==
    ASSUME TInv, GetInv, NEW p \in Procs, NEW k \in Keys, NEW v \in Values, Set(p, k, v)
    PROVE  GetInv'
<1> DEFINE entry == [value |-> v, key |-> token[p]]
           vf == [file EXCEPT !.entries[k] = entry]
<1>1. CASE Err(p)
  BY <1>1, ErrGet
<1>2. CASE Save(p, vf, None) /\ puts' = puts \cup {<<k, entry>>}
  <2>1. \A j \in Keys : vf.entries[j] = (IF j = k THEN entry ELSE file.entries[j])
    BY DEF TInv, TypeOK, VaultFile
  <2>2. \A j \in Keys : vf.entries[j] # None => <<j, vf.entries[j]>> \in puts'
    BY <1>2, <2>1 DEF GetInv, Recorded
  <2> QED BY <1>2, <2>2, SaveGet
<1> QED BY <1>1, <1>2 DEF Set

LEMMA DeleteGet ==
    ASSUME TInv, GetInv, NEW p \in Procs, NEW k \in Keys, Delete(p, k)
    PROVE  GetInv'
<1> DEFINE vf == [file EXCEPT !.entries[k] = None]
<1>1. CASE Err(p)
  BY <1>1, ErrGet
<1>2. CASE Save(p, vf, None) /\ UNCHANGED puts
  <2>1. \A j \in Keys : vf.entries[j] = (IF j = k THEN None ELSE file.entries[j])
    BY DEF TInv, TypeOK, VaultFile
  <2>2. \A j \in Keys : vf.entries[j] # None => <<j, vf.entries[j]>> \in puts'
    BY <1>2, <2>1 DEF GetInv, Recorded
  <2> QED BY <1>2, <2>2, SaveGet
<1> QED BY <1>1, <1>2 DEF Delete

LEMMA GetGet ==
    ASSUME TInv, GetInv, NEW p \in Procs, NEW k \in Keys, Get(p, k)
    PROVE  GetInv'
<1>1. CASE Err(p)
  BY <1>1, ErrGet
<1>2. CASE /\ file.entries[k] # None /\ file.entries[k].key = token[p]
           /\ Got(p, k, file.entries[k])
  <2>1. \A q \in Procs : result'[q] = (IF q = p
              THEN [kind |-> "got", key |-> k, entry |-> file.entries[k]] ELSE result[q])
    BY <1>2 DEF Got, Return, TInv, Shape
  <2>2. \A q \in Procs : op'[q] = (IF q = p THEN Idle ELSE op[q])
    BY <1>2 DEF Got, Return, TInv, Shape
  <2>3. UNCHANGED <<disk, token, puts>>
    BY <1>2 DEF Got
  <2>4. <<k, file.entries[k]>> \in puts
    BY <1>2 DEF GetInv, Recorded
  <2>5. GetReturns'
    BY <1>2, <2>1, <2>3, <2>4 DEF GetInv, GetReturns
  <2>6. Recorded(Default)'
    BY DEF Recorded, Default
  <2>7. ASSUME NEW q \in Procs
        PROVE  Recorded(op[q].loaded)'
    <3>1. CASE q = p
      BY <2>2, <2>6, <3>1 DEF Recorded, Idle
    <3>2. CASE q # p
      BY <2>2, <2>3, <3>2 DEF GetInv, Recorded
    <3> QED BY <3>1, <3>2
  <2> QED BY <2>3, <2>5, <2>7 DEF GetInv, Recorded, disk
<1> QED BY <1>1, <1>2 DEF Get

LEMMA CrashGet ==
    ASSUME TInv, GetInv, NEW p \in Procs, Crash(p)
    PROVE  GetInv'
<1>1. Return(p, Outcome("none")) /\ UNCHANGED <<disk, puts>>
  BY DEF Crash, Return
<1>2. \A q \in Procs \ {p} : token'[q] = token[q]
  BY DEF Crash, TInv, Shape
<1>3. Recorded(file)'
  BY <1>1 DEF GetInv, Recorded, disk
<1> QED BY <1>1, <1>2, <1>3, EndGet

LEMMA StepGet ==
    ASSUME TInv, GetInv, [Next]_vars
    PROVE  GetInv'
<1>1. CASE UNCHANGED vars
  BY <1>1 DEF vars, disk, GetInv, Recorded, GetReturns
<1> QED BY <1>1, TruncateGet, WriteGet, AuthenticateGet, ReadKeychainGet, DrawKeyGet,
           StoreKeyGet, SetGet, DeleteGet, GetGet, CrashGet DEF Next

--------------------------------------------------------------------------------
(* The salt *)

Known == {file.kdf_salt} \cup lost

(* What is sealed with a key of a passphrase has the salt of the file. *)
Sealed(vf, salts) ==
    \A k \in Keys : vf.entries[k] # None /\ vf.entries[k].key \in PassKeys
                      => vf.entries[k].key.salt \in {vf.kdf_salt} \cup salts

(* new differs from old in one key, or has a salt where old had none. *)
OneKey(old, new) ==
    /\ new.kdf_salt = old.kdf_salt
    /\ \E k \in Keys, e \in VaultEntry \cup {None} :
          /\ e \in VaultEntry \/ old.entries[k] # None
          /\ new.entries = [old.entries EXCEPT ![k] = e]
FirstSalt(old, new, next) ==
    /\ new.entries = old.entries
    /\ old.kdf_salt = None /\ new.kdf_salt \in Salts
    /\ next \in PassKeys /\ next.salt = new.kdf_salt
Edited(call) ==
    IF call.next = None THEN OneKey(call.read, call.loaded)
                        ELSE FirstSalt(call.read, call.loaded, call.next)

(* A call that saves has the file as it was, with one thing changed. *)
Fine(call, salts) ==
    /\ call.pc = "keychain" => call.next \notin PassKeys
    /\ call.pc \in {"truncate", "write"} => Edited(call) /\ Sealed(call.loaded, salts)

Opens(key, salts) == key \in PassKeys => key.salt \in salts

SaltInv ==
    /\ Sealed(file, lost)
    /\ keychain \notin PassKeys
    /\ \A p \in Procs : Fine(op[p], lost) /\ Opens(token[p], Known)

LEMMA RandomKeys ==
    /\ None \notin PassKeys
    /\ \A r \in Randoms : [random |-> r] \notin PassKeys
<1>1. None \notin PassKeys
  BY NoneAssumption DEF CryptKeys
<1>2. ASSUME NEW r \in Randoms, [random |-> r] \in PassKeys
      PROVE  FALSE
  <2>1. PICK a \in Passphrases, s \in Salts : [random |-> r] = [pass |-> a, salt |-> s]
    BY <1>2 DEF PassKeys
  <2>2. DOMAIN [random |-> r] = {"random"} /\ DOMAIN [pass |-> a, salt |-> s] = {"pass", "salt"}
    OBVIOUS
  <2>3. "pass" \in {"random"}
    BY <2>1, <2>2
  <2> QED BY <2>3
<1> QED BY <1>1, <1>2

LEMMA InitSalt ==
    ASSUME Init
    PROVE  SaltInv
<1>1. Sealed(file, lost)
  BY DEF Init, Sealed, Default
<1>2. keychain \notin PassKeys
  BY RandomKeys DEF Init
<1>3. \A p \in Procs : op[p].pc = "idle" /\ token[p] = None
  BY DEF Init, Idle
<1> QED BY <1>1, <1>2, <1>3, RandomKeys DEF SaltInv, Fine, Opens

(* A call that ends, with the token its process had or a good one. *)
LEMMA EndSalt ==
    ASSUME TInv, SaltInv, NEW p \in Procs, NEW outcome, Return(p, outcome), UNCHANGED <<file, lost>>,
           \A q \in Procs \ {p} : token'[q] = token[q],
           Opens(token'[p], Known), keychain' \notin PassKeys
    PROVE  SaltInv'
<1>1. op'[p].pc = "idle" /\ \A q \in Procs \ {p} : op'[q] = op[q]
  BY DEF Return, Idle, TInv, Shape
<1>2. \A q \in Procs : Fine(op'[q], lost) /\ Opens(token'[q], Known)
  BY <1>1 DEF SaltInv, Fine
<1> QED BY <1>2 DEF SaltInv, Known

LEMMA ErrSalt ==
    ASSUME TInv, SaltInv, NEW p \in Procs, Err(p), UNCHANGED <<keychain, lost>>
    PROVE  SaltInv'
<1>1. Return(p, Outcome("err")) /\ UNCHANGED <<file, token>>
  BY DEF Err, disk
<1> QED BY <1>1, EndSalt DEF SaltInv

LEMMA AuthenticatedSalt ==
    ASSUME TInv, SaltInv, NEW p \in Procs, NEW key, Authenticated(p, key), UNCHANGED <<disk, lost>>,
           Opens(key, Known), keychain' \notin PassKeys
    PROVE  SaltInv'
<1>1. token'[p] = key /\ \A q \in Procs \ {p} : token'[q] = token[q]
  BY DEF Authenticated, TInv, Shape
<1> QED BY <1>1, EndSalt DEF Authenticated, disk

(* A call that begins to save: it has just read the file. *)
LEMMA SaveSalt ==
    ASSUME TInv, SaltInv, NEW p \in Procs, NEW vf, NEW next, Save(p, vf, next),
           Sealed(vf, lost), IF next = None THEN OneKey(file, vf) ELSE FirstSalt(file, vf, next),
           UNCHANGED <<keychain, lost>>
    PROVE  SaltInv'
<1>1. UNCHANGED <<file, token>> /\ \A q \in Procs \ {p} : op'[q] = op[q]
  BY DEF Save, disk, TInv, Shape
<1>2. op'[p] = [pc |-> "truncate", read |-> file, loaded |-> vf, next |-> next]
  BY DEF Save, TInv, Shape
<1>3. Fine(op'[p], lost)
  BY <1>2 DEF Fine, Edited
<1>4. \A q \in Procs : Fine(op'[q], lost) /\ Opens(token[q], Known)
  BY <1>1, <1>3 DEF SaltInv
<1> QED BY <1>1, <1>4 DEF SaltInv, Known

LEMMA TruncateSalt ==
    ASSUME TInv, SaltInv, NEW p \in Procs, Truncate(p)
    PROVE  SaltInv'
<1>1. /\ UNCHANGED <<file, token, keychain, lost>>
      /\ \A q \in Procs \ {p} : op'[q] = op[q]
      /\ op'[p] = [op[p] EXCEPT !.pc = "write"]
  BY DEF Truncate, TInv, Shape
<1>2. op[p].pc = "truncate" /\ op[p] \in CallType
  BY DEF Truncate, At, TInv, Shape
<1>3. Fine(op'[p], lost)
  BY <1>1, <1>2 DEF SaltInv, Fine, Edited, CallType
<1>4. \A q \in Procs : Fine(op'[q], lost)
  BY <1>1, <1>3 DEF SaltInv
<1> QED BY <1>1, <1>4 DEF SaltInv, Known

(* The salts that were good before stay so: the write keeps that of the file, or has
   read a file from before and loses it. *)
LEMMA WriteKnown ==
    ASSUME TInv, SaltInv, NEW p \in Procs, Write(p), NEW s \in Known, s # None
    PROVE  s \in Known'
<1>1. /\ file' = op[p].loaded /\ lost' = lost \cup Overwritten(p)
      /\ Edited(op[p])
  BY DEF Write, At, SaltInv, Fine
<1>2. CASE s \in lost
  BY <1>1, <1>2 DEF Known
<1>3. CASE s = file.kdf_salt
  <2>1. CASE file = op[p].read
    <3>1. op[p].loaded.kdf_salt = op[p].read.kdf_salt \/ op[p].read.kdf_salt = None
      BY <1>1 DEF Edited, OneKey, FirstSalt
    <3> QED BY <1>1, <1>3, <2>1, <3>1 DEF Known
  <2>2. CASE file # op[p].read
    BY <1>1, <1>3, <2>2 DEF Known, Overwritten
  <2> QED BY <2>1, <2>2
<1> QED BY <1>2, <1>3 DEF Known

LEMMA WriteSalt ==
    ASSUME TInv, SaltInv, NEW p \in Procs, Write(p)
    PROVE  SaltInv'
<1>1. /\ file' = op[p].loaded /\ lost \subseteq lost' /\ UNCHANGED keychain
      /\ Edited(op[p]) /\ Sealed(op[p].loaded, lost)
  BY DEF Write, At, SaltInv, Fine
<1>2. op'[p].pc = "idle" /\ \A q \in Procs \ {p} : op'[q] = op[q] /\ token'[q] = token[q]
  BY DEF Write, Authenticated, Return, Idle, TInv, Shape
<1>3. ASSUME NEW vf, Sealed(vf, lost) PROVE Sealed(vf, lost')
  BY <1>1, <1>3 DEF Sealed
<1>4. ASSUME NEW q \in Procs PROVE Fine(op'[q], lost')
  <2>1. CASE q = p
    BY <1>2, <2>1 DEF Fine
  <2>2. CASE q # p
    BY <1>2, <1>3, <2>2 DEF SaltInv, Fine
  <2> QED BY <2>1, <2>2
<1>5. ASSUME NEW key, Opens(key, Known) PROVE Opens(key, Known')
  <2>1. \A k \in PassKeys : k.salt # None
    BY NoneAssumption DEF PassKeys
  <2> QED BY <1>5, <2>1, WriteKnown DEF Opens
<1>6. ASSUME NEW q \in Procs PROVE Opens(token'[q], Known')
  <2>1. CASE token'[q] = token[q]
    BY <1>5, <2>1 DEF SaltInv
  <2>2. CASE token'[q] # token[q]
    <3>1. q = p /\ op[p].next # None /\ token'[p] = op[p].next
      BY <1>2, <2>2 DEF Write, Authenticated, TInv, Shape
    <3>2. token'[q].salt = file'.kdf_salt
      BY <1>1, <3>1 DEF Edited, FirstSalt
    <3> QED BY <3>2 DEF Opens, Known
  <2> QED BY <2>1, <2>2
<1> QED BY <1>1, <1>3, <1>4, <1>6 DEF SaltInv

LEMMA AuthenticateSalt ==
    ASSUME TInv, SaltInv, NEW p \in Procs, NEW pass \in Passphrases, Authenticate(p, pass)
    PROVE  SaltInv'
<1>1. UNCHANGED <<keychain, lost>>
  BY DEF Authenticate
<1>2. CASE torn /\ Err(p)
  BY <1>1, <1>2, ErrSalt
<1>3. CASE /\ Authenticated(p, [pass |-> pass, salt |-> file.kdf_salt])
           /\ UNCHANGED <<disk, drawn, puts>>
  BY <1>1, <1>3, AuthenticatedSalt DEF SaltInv, Opens, Known
<1>4. ASSUME file.kdf_salt = None, NEW s \in Salts,
             Save(p, [file EXCEPT !.kdf_salt = s], [pass |-> pass, salt |-> s])
      PROVE  SaltInv'
  <2> DEFINE vf == [file EXCEPT !.kdf_salt = s]
             next == [pass |-> pass, salt |-> s]
  <2>1. vf.entries = file.entries /\ vf.kdf_salt = s
    BY DEF TInv, TypeOK, VaultFile
  <2>2. next \in PassKeys /\ next.salt = s /\ next # None
    BY RandomKeys DEF PassKeys
  <2>3. \A key \in PassKeys : key.salt # None
    BY NoneAssumption DEF PassKeys
  <2>4. Sealed(vf, lost)
    BY <1>4, <2>1, <2>3 DEF SaltInv, Sealed
  <2>5. FirstSalt(file, vf, next)
    BY <1>4, <2>1, <2>2 DEF FirstSalt
  <2> HIDE DEF vf, next
  <2>6. Save(p, vf, next)
    BY <1>4 DEF vf, next
  <2> QED BY <1>1, <2>2, <2>4, <2>5, <2>6, SaveSalt
<1> QED BY <1>2, <1>3, <1>4 DEF Authenticate

LEMMA ReadKeychainSalt ==
    ASSUME TInv, SaltInv, NEW p \in Procs, ReadKeychain(p)
    PROVE  SaltInv'
BY AuthenticatedSalt DEF ReadKeychain, SaltInv, Opens

LEMMA DrawKeySalt ==
    ASSUME TInv, SaltInv, NEW p \in Procs, NEW failed \in BOOLEAN, DrawKey(p, failed)
    PROVE  SaltInv'
<1>1. PICK r \in Randoms :
          op' = [op EXCEPT ![p] = [Idle EXCEPT !.pc = "keychain", !.next = [random |-> r]]]
  BY DEF DrawKey
<1>2. UNCHANGED <<file, keychain, token, lost>> /\ \A q \in Procs \ {p} : op'[q] = op[q]
  BY <1>1 DEF DrawKey, disk, TInv, Shape
<1>3. op'[p].pc = "keychain" /\ op'[p].next \notin PassKeys
  BY <1>1, RandomKeys DEF TInv, Shape, Idle
<1>4. \A q \in Procs : Fine(op'[q], lost)
  BY <1>2, <1>3 DEF SaltInv, Fine
<1> QED BY <1>2, <1>4 DEF SaltInv, Known

LEMMA StoreKeySalt ==
    ASSUME TInv, SaltInv, NEW p \in Procs, NEW failed \in BOOLEAN, StoreKey(p, failed)
    PROVE  SaltInv'
<1>1. UNCHANGED lost /\ op[p].next \notin PassKeys
  BY DEF StoreKey, At, SaltInv, Fine
<1>2. CASE Err(p) /\ UNCHANGED keychain
  BY <1>1, <1>2, ErrSalt
<1>3. CASE keychain' = op[p].next /\ Authenticated(p, op[p].next) /\ UNCHANGED disk
  BY <1>1, <1>3, AuthenticatedSalt DEF Opens
<1> QED BY <1>2, <1>3 DEF StoreKey

LEMMA SetSalt ==
    ASSUME TInv, SaltInv, NEW p \in Procs, NEW k \in Keys, NEW v \in Values, Set(p, k, v)
    PROVE  SaltInv'
<1> DEFINE entry == [value |-> v, key |-> token[p]]
           vf == [file EXCEPT !.entries[k] = entry]
<1>1. UNCHANGED <<keychain, lost>>
  BY DEF Set
<1>2. CASE Err(p)
  BY <1>1, <1>2, ErrSalt
<1>3. CASE Save(p, vf, None)
  <2>1. vf.kdf_salt = file.kdf_salt /\ vf.entries = [file.entries EXCEPT ![k] = entry]
    BY DEF TInv, TypeOK, VaultFile
  <2>2. \A j \in Keys : vf.entries[j] = (IF j = k THEN entry ELSE file.entries[j])
    BY <2>1 DEF TInv, TypeOK, VaultFile
  <2>3. entry \in VaultEntry
    BY DEF Set, Called, TInv, Shape, VaultEntry
  <2>4. Opens(entry.key, Known)
    BY DEF SaltInv
  <2>5. Sealed(vf, lost)
    BY <2>1, <2>2, <2>4 DEF SaltInv, Sealed, Opens, Known
  <2>6. OneKey(file, vf)
    BY <2>1, <2>3 DEF OneKey
  <2> QED BY <1>1, <1>3, <2>5, <2>6, SaveSalt
<1> QED BY <1>2, <1>3 DEF Set

LEMMA DeleteSalt ==
    ASSUME TInv, SaltInv, NEW p \in Procs, NEW k \in Keys, Delete(p, k)
    PROVE  SaltInv'
<1> DEFINE vf == [file EXCEPT !.entries[k] = None]
<1>1. UNCHANGED <<keychain, lost>>
  BY DEF Delete
<1>2. CASE Err(p)
  BY <1>1, <1>2, ErrSalt
<1>3. CASE file.entries[k] # None /\ Save(p, vf, None)
  <2>1. vf.kdf_salt = file.kdf_salt /\ vf.entries = [file.entries EXCEPT ![k] = None]
    BY DEF TInv, TypeOK, VaultFile
  <2>2. \A j \in Keys : vf.entries[j] = (IF j = k THEN None ELSE file.entries[j])
    BY <2>1 DEF TInv, TypeOK, VaultFile
  <2>3. Sealed(vf, lost)
    BY <2>1, <2>2 DEF SaltInv, Sealed
  <2>4. OneKey(file, vf)
    BY <1>3, <2>1 DEF OneKey
  <2> QED BY <1>1, <1>3, <2>3, <2>4, SaveSalt
<1> QED BY <1>2, <1>3 DEF Delete

LEMMA GetSalt ==
    ASSUME TInv, SaltInv, NEW p \in Procs, NEW k \in Keys, Get(p, k)
    PROVE  SaltInv'
<1>1. UNCHANGED <<keychain, lost>>
  BY DEF Get
<1>2. CASE Err(p)
  BY <1>1, <1>2, ErrSalt
<1>3. CASE Got(p, k, file.entries[k])
  <2>1. /\ Return(p, [kind |-> "got", key |-> k, entry |-> file.entries[k]])
        /\ UNCHANGED <<file, token>>
    BY <1>3 DEF Got, disk
  <2> QED BY <1>1, <2>1, EndSalt DEF SaltInv
<1> QED BY <1>2, <1>3 DEF Get

LEMMA CrashSalt ==
    ASSUME TInv, SaltInv, NEW p \in Procs, Crash(p)
    PROVE  SaltInv'
<1>1. Return(p, Outcome("none")) /\ UNCHANGED <<file, keychain, lost>>
  BY DEF Crash, Return, disk
<1>2. token'[p] = None /\ \A q \in Procs \ {p} : token'[q] = token[q]
  BY DEF Crash, TInv, Shape
<1> QED BY <1>1, <1>2, RandomKeys, EndSalt DEF SaltInv, Opens

LEMMA StepSalt ==
    ASSUME TInv, SaltInv, [Next]_vars
    PROVE  SaltInv'
<1>1. CASE UNCHANGED vars
  BY <1>1 DEF vars, disk, SaltInv, Known
<1> QED BY <1>1, TruncateSalt, WriteSalt, AuthenticateSalt, ReadKeychainSalt, DrawKeySalt,
           StoreKeySalt, SetSalt, DeleteSalt, GetSalt, CrashSalt DEF Next

(* What was sealed comes back, and only to the key that sealed it; and a passphrase
   opens again what was set with it, whatever died in between, unless the salt was
   overwritten by a call that had read the file before the salt was in it. *)
THEOREM Kept == Spec => []SecretsKept
<1>1. Init => TInv /\ GetInv /\ SaltInv
  BY InitTypes, InitGet, InitSalt
<1>2. TInv /\ GetInv /\ SaltInv /\ [Next]_vars => TInv' /\ GetInv' /\ SaltInv'
  BY StepTypes, StepGet, StepSalt
<1>3. GetInv /\ SaltInv => SecretsKept
  BY DEF GetInv, SaltInv, Sealed, OpensAgain, SecretsKept
<1> QED BY <1>1, <1>2, <1>3, PTL DEF Spec

--------------------------------------------------------------------------------
(* SecretStore *)

Contents == IF torn THEN None ELSE file
Reading == [p \in Procs |-> IF Saving(p) THEN op[p].read ELSE None]

StoreStep == [Store!Next]_<<Contents, Reading>>

LEMMA ReadingIs ==
    ASSUME TInv, NEW p \in Procs
    PROVE  Reading[p] = (IF Saving(p) THEN op[p].read ELSE None) /\ op[p].read # None
BY NoneAssumption DEF Reading, TInv, Shape, CallType

(* Nobody begins or ends to save. *)
LEMMA SameReading ==
    ASSUME \A q \in Procs : (Saving(q) <=> Saving(q)') /\ (Saving(q) => op'[q].read = op[q].read)
    PROVE  Reading' = Reading
BY DEF Reading

LEMMA OtherReading ==
    ASSUME TInv, NEW p \in Procs, \A q \in Procs \ {p} : op'[q] = op[q]
    PROVE  Reading' = [Reading EXCEPT ![p] = IF Saving(p)' THEN op'[p].read ELSE None]
<1>1. \A q \in Procs \ {p} : (Saving(q) <=> Saving(q)') /\ op'[q].read = op[q].read
  BY DEF Saving
<1> QED BY <1>1 DEF Reading

(* A call that saves nothing. *)
LEMMA ReturnStore ==
    ASSUME TInv, NEW p \in Procs, NEW outcome, Return(p, outcome), ~Saving(p), UNCHANGED disk
    PROVE  StoreStep
<1>1. op'[p].pc = "idle" /\ \A q \in Procs \ {p} : op'[q] = op[q]
  BY DEF Return, Idle, TInv, Shape
<1>2. Reading' = Reading
  BY <1>1, SameReading DEF Saving
<1> QED BY <1>2 DEF StoreStep, Contents, disk

LEMMA SaveStore ==
    ASSUME TInv, NEW p \in Procs, NEW vf, NEW next, Save(p, vf, next), At(p, "idle"), ~torn
    PROVE  StoreStep
<1>1. /\ op'[p].pc = "truncate" /\ op'[p].read = file /\ UNCHANGED disk
      /\ \A q \in Procs \ {p} : op'[q] = op[q]
  BY DEF Save, TInv, Shape
<1>2. Reading[p] = None /\ Contents = file /\ file # None
  BY NoneAssumption, ReadingIs DEF At, Saving, Contents, TInv, TypeOK
<1>3. Reading' = [Reading EXCEPT ![p] = Contents]
  BY <1>1, <1>2, OtherReading DEF Saving
<1>4. Store!Read(p)
  BY <1>1, <1>2, <1>3 DEF Store!Read, Contents, Reading, disk
<1> QED BY <1>4 DEF StoreStep, Store!Next

LEMMA TruncateStore ==
    ASSUME TInv, NEW p \in Procs, Truncate(p)
    PROVE  StoreStep
<1>1. /\ op[p].pc = "truncate" /\ op'[p].pc = "write" /\ op'[p].read = op[p].read
      /\ torn' /\ \A q \in Procs \ {p} : op'[q] = op[q]
  BY DEF Truncate, At, TInv, Shape, CallType
<1>2. Reading' = Reading /\ Contents' = None
  BY <1>1, SameReading DEF Saving, Contents
<1>3. Reading[p] # None
  BY <1>1, ReadingIs DEF Saving
<1>4. Store!Clear(p)
  BY <1>2, <1>3 DEF Store!Clear, Contents, Reading
<1> QED BY <1>4 DEF StoreStep, Store!Next

LEMMA WriteStore ==
    ASSUME TInv, SaltInv, NEW p \in Procs, Write(p)
    PROVE  StoreStep
<1> DEFINE old == op[p].read
           new == op[p].loaded
<1>1. /\ op[p].pc = "write" /\ op'[p].pc = "idle" /\ file' = new /\ torn' \in {FALSE, ~torn}
      /\ \A q \in Procs \ {p} : op'[q] = op[q]
  <2>1. op[p].pc = "write" /\ file' = new /\ torn' \in {FALSE, ~torn} /\ Return(p, Outcome("ok"))
    BY DEF Write, Authenticated, At
  <2>2. op'[p].pc = "idle" /\ \A q \in Procs \ {p} : op'[q] = op[q]
    BY <2>1 DEF Return, Idle, TInv, Shape
  <2> QED BY <2>1, <2>2
<1>2. Edited(op[p]) /\ old \in VaultFile /\ new \in VaultFile /\ old # None
  BY <1>1, NoneAssumption DEF SaltInv, Fine, TInv, Shape, CallType
<1>3. Reading[p] = old /\ Reading' = [Reading EXCEPT ![p] = None]
  BY <1>1, ReadingIs, OtherReading DEF Saving
<1>4. Store!Ends(p)
  BY <1>2, <1>3 DEF Store!Ends, Reading
<1>5. CASE torn'
  <2>1. Contents' = None /\ Contents # None
    BY <1>1, <1>5, NoneAssumption DEF Contents, TInv, TypeOK
  <2>2. Store!Clash(p)
    BY <1>4, <2>1 DEF Store!Clash, Contents
  <2> QED BY <2>2 DEF StoreStep, Store!Next
<1>6. CASE ~torn'
  <2>1. Contents' = new
    BY <1>1, <1>6 DEF Contents
  <2>2. CASE op[p].next = None
    <3>1. PICK k \in Keys, e \in VaultEntry \cup {None} :
              /\ e \in VaultEntry \/ old.entries[k] # None
              /\ new.entries = [old.entries EXCEPT ![k] = e]
              /\ new.kdf_salt = old.kdf_salt
      BY <1>2, <2>2 DEF Edited, OneKey
    <3>2. new = [old EXCEPT !.entries[k] = e]
      BY <1>2, <3>1 DEF VaultFile
    <3>3. CASE e \in VaultEntry
      <4>1. Store!Put(p, k)
        BY <1>3, <1>4, <2>1, <3>2, <3>3 DEF Store!Put, Contents, Reading
      <4> QED BY <4>1 DEF StoreStep, Store!Next
    <3>4. CASE e \notin VaultEntry
      <4>1. Store!Remove(p, k)
        BY <1>3, <1>4, <2>1, <3>1, <3>2, <3>4 DEF Store!Remove, Contents, Reading
      <4> QED BY <4>1 DEF StoreStep, Store!Next
    <3> QED BY <3>3, <3>4
  <2>3. CASE op[p].next # None
    <3>1. FirstSalt(old, new, op[p].next)
      BY <1>2, <2>3 DEF Edited
    <3>2. new = [old EXCEPT !.kdf_salt = new.kdf_salt]
      BY <1>2, <3>1 DEF FirstSalt, VaultFile
    <3>3. Store!ChooseSalt(p)
      BY <1>3, <1>4, <2>1, <3>1, <3>2 DEF Store!ChooseSalt, FirstSalt, Contents, Reading
    <3> QED BY <3>3 DEF StoreStep, Store!Next
  <2> QED BY <2>2, <2>3
<1> QED BY <1>5, <1>6

LEMMA CrashStore ==
    ASSUME TInv, NEW p \in Procs, Crash(p)
    PROVE  StoreStep
<1>1. UNCHANGED disk /\ op'[p].pc = "idle" /\ \A q \in Procs \ {p} : op'[q] = op[q]
  BY DEF Crash, Idle, TInv, Shape
<1>2. Contents' = Contents
  BY <1>1 DEF Contents, disk
<1>3. CASE Saving(p)
  <2>1. Reading[p] # None /\ Reading' = [Reading EXCEPT ![p] = None]
    BY <1>1, <1>3, ReadingIs, OtherReading DEF Saving
  <2>2. Store!Die(p)
    BY <1>2, <2>1 DEF Store!Die, Store!Ends, Contents, Reading
  <2> QED BY <2>2 DEF StoreStep, Store!Next
<1>4. CASE ~Saving(p)
  <2>1. Reading' = Reading
    BY <1>1, <1>4, SameReading DEF Saving
  <2> QED BY <1>2, <2>1 DEF StoreStep
<1> QED BY <1>3, <1>4

(* A step of a call that has nothing to save, or begins to. *)
LEMMA CallStore ==
    ASSUME TInv, NEW p \in Procs,
           \/ \E pass \in Passphrases : Authenticate(p, pass)
           \/ ReadKeychain(p)
           \/ \E failed \in BOOLEAN : DrawKey(p, failed) \/ StoreKey(p, failed)
           \/ \E k \in Keys : Get(p, k) \/ Delete(p, k) \/ \E v \in Values : Set(p, k, v)
    PROVE  StoreStep
<1>1. CASE At(p, "idle") /\ ~torn /\ \E vf, next : Save(p, vf, next)
  BY <1>1, SaveStore
<1>2. CASE ~Saving(p) /\ UNCHANGED disk /\ \E outcome : Return(p, outcome)
  BY <1>2, ReturnStore
<1>3. CASE \E failed \in BOOLEAN : DrawKey(p, failed)
  <2>1. PICK r \in Randoms :
            op' = [op EXCEPT ![p] = [Idle EXCEPT !.pc = "keychain", !.next = [random |-> r]]]
    BY <1>3 DEF DrawKey
  <2>2. /\ UNCHANGED disk /\ op[p].pc = "idle" /\ op'[p].pc = "keychain"
        /\ \A q \in Procs \ {p} : op'[q] = op[q]
    BY <1>3, <2>1 DEF DrawKey, At, Idle, TInv, Shape
  <2>3. Reading' = Reading
    BY <2>2, SameReading DEF Saving
  <2> QED BY <2>2, <2>3 DEF StoreStep, Contents, disk
<1>4. CASE \E pass \in Passphrases : Authenticate(p, pass)
  BY <1>1, <1>2, <1>4 DEF Authenticate, Authenticated, Err, At, Saving
<1>5. CASE ReadKeychain(p) \/ \E failed \in BOOLEAN : StoreKey(p, failed)
  BY <1>2, <1>5 DEF ReadKeychain, StoreKey, Authenticated, Err, At, Saving
<1>6. CASE \E k \in Keys : Get(p, k)
  BY <1>2, <1>6 DEF Get, Got, Called, Err, At, Saving
<1>7. CASE \E k \in Keys : Delete(p, k)
  BY <1>1, <1>2, <1>7 DEF Delete, Called, Err, At, Saving
<1>8. CASE \E k \in Keys, v \in Values : Set(p, k, v)
  BY <1>1, <1>2, <1>8 DEF Set, Called, Err, At, Saving
<1> QED BY <1>3, <1>4, <1>5, <1>6, <1>7, <1>8

LEMMA StepRefines ==
    ASSUME TInv, SaltInv, [Next]_vars
    PROVE  StoreStep
<1>1. CASE UNCHANGED vars
  <2>1. Contents' = Contents /\ Reading' = Reading
    BY <1>1 DEF Contents, Reading, Saving, vars, disk
  <2> QED BY <2>1 DEF StoreStep
<1> QED BY <1>1, TruncateStore, WriteStore, CrashStore, CallStore DEF Next

(* However many processes use the vault at once, its file is a store that each call
   reads, changes in one place and replaces: a call that meets no other changes one
   key or sets the first salt, and one that overlaps others takes back what they have
   written since it read, and no more. *)
THEOREM Refinement == Spec => RefinesStore
<1>1. Init => TInv /\ SaltInv
  BY InitTypes, InitSalt
<1>2. TInv /\ SaltInv /\ [Next]_vars => TInv' /\ SaltInv'
  BY StepTypes, StepSalt
<1>3. Init => Store!Init
  <2> SUFFICES ASSUME Init PROVE Store!Init
    OBVIOUS
  <2>1. \A p \in Procs : ~Saving(p)
    BY DEF Init, Idle, Saving
  <2> QED BY <2>1 DEF Init, Default, Store!Init, Store!Empty
<1>4. TInv /\ SaltInv /\ [Next]_vars => StoreStep
  BY StepRefines
<1> QED BY <1>1, <1>2, <1>3, <1>4, PTL DEF Spec, RefinesStore, Store!Spec, StoreStep, Contents, Reading

================================================================================
