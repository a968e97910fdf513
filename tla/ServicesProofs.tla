----------------------------- MODULE ServicesProofs -----------------------------
(***************************************************************************)
(* The components that keep to themselves, for any values of their         *)
(* parameters.  Each section names the variables of a part as its module   *)
(* does; its invariant holds whenever that part is the one that runs.      *)
(***************************************************************************)
EXTENDS Services, SequenceLemmas, FiniteSetTheorems, TLAPS

--------------------------------------------------------------------------------
(* A behaviour is one of the part that it begins with. *)

LEMMA Begins ==
    ASSUME ServicesInit
    PROVE  /\ part = "guard" => Watch!Init
           /\ part = "resources" => Res!Init
           /\ part = "settings" => Set!Init
           /\ part = "router" => Route!Init
           /\ part = "nest" => Market!Init
           /\ part = "talons" => Plugin!Init
           /\ part = "patterns" => Pat!Init
           /\ part = "sync" => Dev!Init
           /\ part = "audit" => Aud!Init
           /\ part = "dashboard" => Eye!Init
           /\ part = "client" => Sdk!connect
           /\ part = "memory" => Mem!Init
           /\ part = "aura" => Aura!Init
           /\ part = "compress" => Sqz!Init
           /\ part = "codec" => Base!Init
           /\ part = "manifest" => Man!Init
           /\ part = "healer" => Heal!HealerInit
           /\ part = "setup" => Tools!Init
           /\ part = "commands" => Cli!Init
BY DEF ServicesInit

LEMMA Moves ==
    ASSUME [ServicesNext]_states
    PROVE  /\ part' = part
           /\ part = "guard" => [Watch!Next]_(Watch!vars)
           /\ part = "resources" => [Res!Next]_(Res!vars)
           /\ part = "settings" => [Set!Next]_(Set!vars)
           /\ part = "router" => [Route!Next]_(Route!vars)
           /\ part = "nest" => [Market!Next]_(Market!vars)
           /\ part = "talons" => [Plugin!Next]_(Plugin!vars)
           /\ part = "patterns" => [Pat!Next]_(Pat!vars)
           /\ part = "sync" => [Dev!Next]_(Dev!vars)
           /\ part = "audit" => [Aud!Next]_(Aud!vars)
           /\ part = "dashboard" => [Eye!Next]_(Eye!vars)
           /\ part = "client" => [Sdk!Next]_(Sdk!vars)
           /\ part = "memory" => [Mem!Next]_(Mem!vars)
           /\ part = "aura" => [Aura!Next]_(Aura!vars)
           /\ part = "compress" => [Sqz!Next]_(Sqz!vars)
           /\ part = "codec" => [Base!Next]_(Base!vars)
           /\ part = "manifest" => [Man!Next]_(Man!vars)
           /\ part = "healer" => [Heal!HealerNext]_(Heal!allVars)
           /\ part = "setup" => [Tools!Next]_(Tools!vars)
           /\ part = "commands" => [Cli!Next]_(Cli!vars)
<1>1. CASE UNCHANGED states
  BY <1>1 DEF states, Watch!vars, Res!vars, Set!vars, Route!vars, Market!vars, Plugin!vars,
     Pat!vars, Dev!vars, Aud!vars, Eye!vars, Sdk!vars, Mem!vars, Aura!vars,
     Sqz!vars, Base!vars, Man!vars, Heal!allVars, Heal!healerVars, Heal!vars, Tools!vars, Cli!vars
<1>2. CASE ServicesNext
  BY <1>2 DEF ServicesNext
<1> QED BY <1>1, <1>2

--------------------------------------------------------------------------------
(* PermissionGuard: whom it allows more than the manifest says. *)

manifests == s1
trusted == s2
table == s3
monitored == s4
scan == s5
decision == s6
called == s7
reused == s8
book == s9
USE DEF manifests, trusted, table, monitored, scan, decision, called, reused, book

(* None is no manifest. *)
NoManifest == None \notin Manifests

(* A number is trusted that had a trusted name when trust was called, and may
   have been given away since. *)
Trusted ==
    \A p \in trusted : manifests[p] # None /\ (manifests[p].name \in called \/ p \in reused)

GuardInv ==
    /\ manifests \in [Pids -> Manifests \cup {None}] /\ trusted \subseteq Pids
    /\ Trusted /\ Watch!BeyondManifest

LEMMA GuardInit ==
    ASSUME Watch!Init
    PROVE  GuardInv
BY DEF Watch!Init, GuardInv, Trusted, Watch!BeyondManifest

LEMMA GuardUnchanged ==
    ASSUME GuardInv, UNCHANGED Watch!guard
    PROVE  GuardInv'
BY DEF GuardInv, Watch!guard, Trusted, Watch!BeyondManifest

LEMMA RegisterAgent ==
    ASSUME NoManifest, GuardInv, NEW p \in Pids, NEW m \in Manifests, Watch!register(p, m)
    PROVE  GuardInv'
<1>1. /\ manifests' \in [Pids -> Manifests \cup {None}]
      /\ manifests'[p] = m /\ \A q \in Pids \ {p} : manifests'[q] = manifests[q]
      /\ UNCHANGED <<trusted, decision, called>>
  BY DEF Watch!register, GuardInv
<1>2. /\ reused \subseteq reused'
      /\ p \in trusted /\ manifests[p].name # m.name => p \in reused'
  BY DEF Watch!register
<1>3. Trusted'
  BY <1>1, <1>2 DEF NoManifest, GuardInv, Trusted
<1>4. Watch!BeyondManifest'
  BY <1>1, <1>2 DEF GuardInv, Watch!BeyondManifest
<1> QED BY <1>1, <1>3, <1>4 DEF GuardInv

(* An answer that goes beyond the manifest is given to a trusted number. *)
LEMMA CheckRequest ==
    ASSUME GuardInv, NEW p \in Pids, NEW kind \in Watch!Kinds, NEW r \in Requests,
           Watch!Check(kind, p, r)
    PROVE  GuardInv'
<1>1. UNCHANGED <<manifests, trusted, called, reused>>
  BY DEF Watch!Check
<1>2. CASE p \in trusted \/ Watch!Listed(kind, p, r)
  <2>1. Watch!Answer(p, TRUE, Watch!Listed(kind, p, r))
    BY <1>2 DEF Watch!Check
  <2>2. ~Watch!Listed(kind, p, r) =>
            manifests[p] # None /\ (manifests[p].name \in called \/ p \in reused)
    BY <1>2 DEF GuardInv, Trusted
  <2>3. Watch!BeyondManifest'
    BY <1>1, <2>1, <2>2 DEF Watch!Answer, Watch!BeyondManifest
  <2> QED BY <1>1, <2>3 DEF GuardInv, Trusted
<1>3. CASE ~(p \in trusted \/ Watch!Listed(kind, p, r))
  <2>1. ~decision'.allowed
    BY <1>3 DEF Watch!Check, Watch!Answer
  <2> QED BY <1>1, <2>1 DEF GuardInv, Trusted, Watch!BeyondManifest
<1> QED BY <1>2, <1>3

LEMMA TrustName ==
    ASSUME NoManifest, GuardInv, NEW n \in Names, Watch!trust(n)
    PROVE  GuardInv'
<1>1. /\ UNCHANGED <<manifests, reused, decision>>
      /\ called' = called \cup {n} /\ trusted' = trusted \cup Watch!Named(n)
  BY DEF Watch!trust
<1>2. \A p \in Watch!Named(n) : p \in Pids /\ manifests[p] # None /\ manifests[p].name = n
  BY DEF Watch!Named
<1>3. trusted' \subseteq Pids /\ Trusted' /\ Watch!BeyondManifest'
  BY <1>1, <1>2 DEF GuardInv, Trusted, Watch!BeyondManifest
<1> QED BY <1>1, <1>3 DEF GuardInv

LEMMA GuardNext ==
    ASSUME NoManifest, GuardInv, [Watch!Next]_(Watch!vars)
    PROVE  GuardInv'
<1>1. CASE UNCHANGED Watch!vars
  BY <1>1, GuardUnchanged DEF Watch!vars, Watch!guard
<1>2. ASSUME NEW p \in Pids, NEW r \in Requests,
             \/ Watch!check_fs_access(p, r) \/ Watch!check_network(p, r)
             \/ Watch!check_command(p, r) \/ Watch!check_secret(p, r)
      PROVE  GuardInv'
  BY <1>2, CheckRequest DEF Watch!check_fs_access, Watch!check_network, Watch!check_command,
     Watch!check_secret, Watch!Kinds
<1>3. ASSUME NEW s \in Scanners,
             \/ \E n \in Names : Watch!run_ghostdep_scan(s, n)
             \/ Watch!run_etch_scan(s) \/ Watch!store_alert(s)
             \/ Watch!StoreFails(s) \/ Watch!ScanReturns(s)
      PROVE  UNCHANGED Watch!guard
  BY <1>3 DEF Watch!run_ghostdep_scan, Watch!run_etch_scan, Watch!StartScan,
     Watch!store_alert, Watch!StoreFails, Watch!ScanReturns
<1>4. (\E agents \in SUBSET Pids : Watch!start_monitoring(agents)) \/ Watch!stop_monitoring
          => UNCHANGED Watch!guard
  BY DEF Watch!start_monitoring, Watch!stop_monitoring
<1>5. CASE Watch!Next
  BY <1>2, <1>3, <1>4, <1>5, RegisterAgent, TrustName, GuardUnchanged DEF Watch!Next
<1> QED BY <1>1, <1>5

--------------------------------------------------------------------------------
(* WatchEngine: what the scans return is what the report has. *)

Findings == UNION {ToSet(out) : out \in Outputs}

(* The output of a scanner is a sequence. *)
ScansAreLists == Outputs \subseteq Seq(Findings)

Row == [type : {"permission_denied", "api_drift", "phantom_dep"},
        agent : Pids \cup Names \cup {None},
        detail : Requests \cup {f.name : f \in Findings}]
OfType(types) == {r \in Row : r.type \in types}

Scan == [pc : {"idle", "emit"}, agent : Names \cup {None},
         type : {"api_drift", "phantom_dep", None}, todo : Seq(Findings), count : Nat]
Book == [returned : Nat, partial : Nat, denied : Nat]

(* The rows that a scan has stored so far. *)
Advance(s) == scan[s].count - Len(scan[s].todo)

WatchShape ==
    /\ table \in Seq(Row)
    /\ scan \in [Scanners -> Scan]
    /\ book \in Book
    /\ \A s \in Scanners :
          /\ Len(scan[s].todo) <= scan[s].count
          /\ scan[s].pc = "idle" => scan[s] = Watch!NoScan
          /\ scan[s].pc = "emit" => scan[s].type \in {"api_drift", "phantom_dep"}

InReport(t) ==
    Len(Only(t, OfType({"api_drift"}))) + Len(Only(t, OfType({"phantom_dep"})))

(* ReportExact of the three lists by themselves, and the scans that are under
   way at any time have stored finitely many rows, however many scanners there
   are. *)
Counted ==
    /\ InReport(table) = book.returned + book.partial + Cardinality(Watch!Stored)
    /\ Len(table) = Len(Only(table, OfType({"api_drift", "phantom_dep"}))) + book.denied

WatchInv == WatchShape /\ IsFiniteSet(Watch!Stored) /\ Counted

(* The operators of the libraries are the same in an instance. *)
LEMMA GuardOperators ==
    /\ \A s : Watch!Range(s) = ToSet(s)
    /\ \A s, S : Watch!Only(s, S) = Only(s, S)
    /\ \A S : Watch!Cardinality(S) = Cardinality(S)
<1>1. \A s : Watch!Range(s) = ToSet(s)
  BY DEF Watch!Range, ToSet
<1>2. \A s, S : Watch!Only(s, S) = Only(s, S)
  BY DEF Watch!Only, Only
<1>3. \A S : Watch!Cardinality(S) = Cardinality(S)
  BY DEF Watch!Cardinality, Cardinality
<1> QED BY <1>1, <1>2, <1>3

LEMMA InStored ==
    \A x : x \in Watch!Stored <=>
        \E s \in Scanners : \E i \in 1 .. Advance(s) : x = <<s, i>>
BY DEF Watch!Stored, Watch!InProgress, Advance

(* A filter of the report goes by the type alone. *)
LEMMA AlertsOfType ==
    ASSUME table \in Seq(Row), NEW s \in Seq(Row), ToSet(s) \subseteq ToSet(table), NEW types
    PROVE  Only(s, Watch!Alerts(types)) = Only(s, OfType(types))
<1>1. ToSet(s) \subseteq Row
  BY ToSetType
<1>2. \A x \in ToSet(s) : x \in Watch!Alerts(types) <=> x \in OfType(types)
  BY <1>1, GuardOperators DEF Watch!Alerts, OfType
<1> QED BY <1>2, OnlySame

LEMMA ReportLists ==
    ASSUME table \in Seq(Row)
    PROVE  /\ Watch!get_alerts = Only(table, OfType({"api_drift", "phantom_dep"}))
           /\ Watch!generate_report.api_drifts = Only(table, OfType({"api_drift"}))
           /\ Watch!generate_report.phantom_deps = Only(table, OfType({"phantom_dep"}))
<1> DEFINE both == OfType({"api_drift", "phantom_dep"})
           alerts == Only(table, both)
<1>1. Watch!get_alerts = alerts
  BY AlertsOfType, GuardOperators DEF Watch!get_alerts
<1>2. alerts \in Seq(Row) /\ ToSet(alerts) \subseteq ToSet(table)
  BY OnlyType, OnlyRange
<1>3. \A t \in {"api_drift", "phantom_dep"} : both \cap OfType({t}) = OfType({t})
  BY DEF OfType
<1>4. \A t \in {"api_drift", "phantom_dep"} :
          Only(alerts, OfType({t})) = Only(table, OfType({t}))
  <2> SUFFICES ASSUME NEW t \in {"api_drift", "phantom_dep"}
               PROVE  Only(alerts, OfType({t})) = Only(table, OfType({t}))
    OBVIOUS
  <2> DEFINE one == OfType({t})
  <2>1. both \cap one = one
    BY <1>3
  <2> HIDE DEF one, both
  <2>2. Only(Only(table, both), one) = Only(table, both \cap one)
    BY OnlyTwice
  <2> QED BY <2>1, <2>2 DEF one
<1> HIDE DEF alerts, both
<1>5. \A t \in {"api_drift", "phantom_dep"} :
          Only(alerts, Watch!Alerts({t})) = Only(table, OfType({t}))
  BY <1>2, <1>4, AlertsOfType
<1>6. Watch!get_alerts = Only(table, OfType({"api_drift", "phantom_dep"}))
  BY <1>1 DEF alerts, both
<1> QED BY <1>1, <1>5, <1>6, GuardOperators DEF Watch!generate_report

LEMMA CountedIsExact ==
    ASSUME WatchInv
    PROVE  Watch!ReportExact
BY ReportLists, GuardOperators DEF WatchInv, WatchShape, Counted, InReport, Watch!ReportExact

(* One more row is one more line of the report, or one more denial. *)
LEMMA OneMoreRow ==
    ASSUME NEW t \in Seq(Row), NEW r \in Row, NEW types
    PROVE  /\ Len(Only(t, OfType(types))) \in Nat
           /\ Len(Only(Append(t, r), OfType(types))) =
                 Len(Only(t, OfType(types))) + (IF r.type \in types THEN 1 ELSE 0)
<1> DEFINE T == OfType(types)
<1>1. Only(t, T) \in Seq(Row)
  BY OnlyType
<1>2. Only(Append(t, r), T) = IF r \in T THEN Append(Only(t, T), r) ELSE Only(t, T)
  BY OnlyAppend
<1>3. r \in T <=> r.type \in types
  BY DEF OfType
<1>4. Len(Append(Only(t, T), r)) = Len(Only(t, T)) + 1 /\ Len(Only(t, T)) \in Nat
  BY <1>1, AppendProperties, LenProperties
<1> HIDE DEF T
<1>5. CASE r \in T
  BY <1>2, <1>3, <1>4, <1>5 DEF T
<1>6. CASE r \notin T
  BY <1>2, <1>3, <1>4, <1>6 DEF T
<1> QED BY <1>5, <1>6

LEMMA RowAdded ==
    ASSUME NEW t \in Seq(Row), NEW r \in Row
    PROVE  /\ InReport(t) \in Nat
           /\ Append(t, r) \in Seq(Row) /\ Len(Append(t, r)) = Len(t) + 1 /\ Len(t) \in Nat
           /\ r.type = "permission_denied" =>
                 /\ InReport(Append(t, r)) = InReport(t)
                 /\ Len(Only(Append(t, r), OfType({"api_drift", "phantom_dep"}))) =
                        Len(Only(t, OfType({"api_drift", "phantom_dep"})))
           /\ r.type \in {"api_drift", "phantom_dep"} =>
                 /\ InReport(Append(t, r)) = InReport(t) + 1
                 /\ Len(Only(Append(t, r), OfType({"api_drift", "phantom_dep"}))) =
                        Len(Only(t, OfType({"api_drift", "phantom_dep"}))) + 1
<1>1. Append(t, r) \in Seq(Row) /\ Len(Append(t, r)) = Len(t) + 1 /\ Len(t) \in Nat
  BY AppendProperties, LenProperties
<1>2. \A types : /\ Len(Only(t, OfType(types))) \in Nat
                 /\ Len(Only(Append(t, r), OfType(types))) =
                       Len(Only(t, OfType(types))) + (IF r.type \in types THEN 1 ELSE 0)
  BY OneMoreRow
<1> QED BY <1>1, <1>2 DEF InReport

(* What a scan has stored, when its count changes. *)
LEMMA OneMoreStored ==
    ASSUME NEW s \in Scanners, Advance(s) \in Nat, IsFiniteSet(Watch!Stored),
           Advance(s)' = Advance(s) + 1,
           \A t \in Scanners \ {s} : Advance(t)' = Advance(t)
    PROVE  /\ IsFiniteSet(Watch!Stored')
           /\ Cardinality(Watch!Stored') = Cardinality(Watch!Stored) + 1
<1> DEFINE n == Advance(s) + 1
<1>1. 1 .. n = (1 .. Advance(s)) \cup {n} /\ n \notin 1 .. Advance(s)
  OBVIOUS
<1>2. \A x : x \in Watch!Stored' <=>
          \E t \in Scanners : \E i \in 1 .. Advance(t)' : x = <<t, i>>
  BY DEF Watch!Stored, Watch!InProgress, Advance
<1> HIDE DEF n
<1>3. Watch!Stored' = Watch!Stored \cup {<<s, n>>}
  <2>1. ASSUME NEW x PROVE x \in Watch!Stored' <=> x \in Watch!Stored \/ x = <<s, n>>
    <3>1. ASSUME x \in Watch!Stored' PROVE x \in Watch!Stored \/ x = <<s, n>>
      <4>1. PICK t \in Scanners : \E i \in 1 .. Advance(t)' : x = <<t, i>>
        BY <1>2, <3>1
      <4>2. CASE t = s
        BY <1>1, <4>1, <4>2, InStored DEF n
      <4>3. CASE t # s
        BY <4>1, <4>3, InStored
      <4> QED BY <4>2, <4>3
    <3>2. ASSUME x \in Watch!Stored PROVE x \in Watch!Stored'
      <4>1. PICK t \in Scanners : \E i \in 1 .. Advance(t) : x = <<t, i>>
        BY <3>2, InStored
      <4>2. CASE t = s
        BY <1>1, <1>2, <4>1, <4>2 DEF n
      <4>3. CASE t # s
        BY <1>2, <4>1, <4>3
      <4> QED BY <4>2, <4>3
    <3>3. <<s, n>> \in Watch!Stored'
      BY <1>1, <1>2 DEF n
    <3> QED BY <3>1, <3>2, <3>3
  <2> QED BY <2>1
<1>4. <<s, n>> \notin Watch!Stored
  BY <1>1, InStored
<1> QED BY <1>3, <1>4, FS_AddElement

LEMMA StoredEnds ==
    ASSUME NEW s \in Scanners, Advance(s) \in Nat, IsFiniteSet(Watch!Stored),
           Advance(s)' = 0,
           \A t \in Scanners \ {s} : Advance(t)' = Advance(t)
    PROVE  /\ IsFiniteSet(Watch!Stored')
           /\ Cardinality(Watch!Stored) = Cardinality(Watch!Stored') + Advance(s)
           /\ Cardinality(Watch!Stored') \in Nat
<1> DEFINE n == Advance(s)
           rows == {s} \X (1 .. n)
<1>1. \A x : x \in Watch!Stored' <=>
          \E t \in Scanners : \E i \in 1 .. Advance(t)' : x = <<t, i>>
  BY DEF Watch!Stored, Watch!InProgress, Advance
<1>2. IsFiniteSet({s}) /\ Cardinality({s}) = 1 /\ IsFiniteSet(1 .. n) /\ Cardinality(1 .. n) = n
  <2>1. n \in Nat /\ 1 \in Int /\ n \in Int
    OBVIOUS
  <2>2. IsFiniteSet(1 .. n) /\ Cardinality(1 .. n) = IF 1 > n THEN 0 ELSE n - 1 + 1
    BY <2>1, FS_Interval
  <2>3. (IF 1 > n THEN 0 ELSE n - 1 + 1) = n
    BY <2>1
  <2> QED BY <2>2, <2>3, FS_Singleton
<1>3. IsFiniteSet(rows) /\ Cardinality(rows) = n
  <2>1. IsFiniteSet(rows) /\ Cardinality(rows) = Cardinality({s}) * Cardinality(1 .. n)
    BY <1>2, FS_Product
  <2> QED BY <1>2, <2>1
<1>4. \A x : x \in rows <=> \E i \in 1 .. n : x = <<s, i>>
  OBVIOUS
<1>5. 1 .. 0 = {}
  OBVIOUS
<1> HIDE DEF rows
<1>6. \A x : x \in Watch!Stored' <=> x \in Watch!Stored /\ x \notin rows
  <2> TAKE x
  <2>1. ASSUME x \in Watch!Stored' PROVE x \in Watch!Stored /\ x \notin rows
    <3>1. PICK t \in Scanners : \E i \in 1 .. Advance(t)' : x = <<t, i>>
      BY <1>1, <2>1
    <3>2. t # s
      BY <1>5, <3>1
    <3> QED BY <1>4, <3>1, <3>2, InStored
  <2>2. ASSUME x \in Watch!Stored, x \notin rows PROVE x \in Watch!Stored'
    <3>1. PICK t \in Scanners : \E i \in 1 .. Advance(t) : x = <<t, i>>
      BY <2>2, InStored
    <3>2. t # s
      BY <1>4, <2>2, <3>1
    <3> QED BY <1>1, <3>1, <3>2
  <2> QED BY <2>1, <2>2
<1>7. Watch!Stored = Watch!Stored' \cup rows /\ Watch!Stored' \cap rows = {}
  <2>1. rows \subseteq Watch!Stored
    BY <1>4, InStored
  <2> QED BY <1>6, <2>1
<1>8. IsFiniteSet(Watch!Stored')
  BY <1>7, FS_Subset
<1>9. Cardinality(Watch!Stored') \in Nat
  BY <1>8, FS_CardinalityType
<1>10. Cardinality(Watch!Stored' \cup rows) =
           Cardinality(Watch!Stored') + Cardinality(rows) - Cardinality(Watch!Stored' \cap rows)
  BY <1>3, <1>8, FS_Union
<1>11. Cardinality(Watch!Stored' \cap rows) = 0
  BY <1>7, FS_EmptySet
<1>12. Cardinality(Watch!Stored) = Cardinality(Watch!Stored') + n
  BY <1>3, <1>7, <1>9, <1>10, <1>11
<1> QED BY <1>8, <1>9, <1>12

LEMMA WatchInit ==
    ASSUME Watch!Init
    PROVE  WatchInv
<1>1. <<>> \in Seq(Findings) /\ Len(<<>>) = 0 /\ <<>> \in Seq(Row)
  OBVIOUS
<1>2. Watch!NoScan \in Scan
  BY <1>1 DEF Watch!NoScan, Scan
<1>3. WatchShape
  BY <1>1, <1>2 DEF Watch!Init, WatchShape, Watch!NoScan, Book
<1>4. \A s \in Scanners : Advance(s) = 0
  BY <1>1 DEF Watch!Init, Advance, Watch!NoScan
<1>5. Watch!Stored = {}
  BY <1>4, InStored
<1>6. \A types : Only(table, OfType(types)) = <<>>
  BY OnlyEmpty DEF Watch!Init
<1>7. Counted
  BY <1>1, <1>5, <1>6, FS_EmptySet DEF Watch!Init, Counted, InReport
<1> QED BY <1>3, <1>5, <1>7, FS_EmptySet DEF WatchInv

LEMMA WatchUnchanged ==
    ASSUME WatchInv, UNCHANGED <<table, scan, book>>
    PROVE  WatchInv'
<1>1. Watch!Stored' = Watch!Stored
  BY DEF Watch!Stored, Watch!InProgress
<1> QED BY <1>1 DEF WatchInv, WatchShape, Counted, InReport

(* The count of a scan that is under way. *)
LEMMA InProgressType ==
    ASSUME WatchInv, NEW s \in Scanners
    PROVE  /\ Advance(s) \in Nat /\ scan[s] \in Scan
           /\ scan[s].count \in Nat /\ scan[s].todo \in Seq(Findings)
           /\ Len(scan[s].todo) \in Nat
<1>1. scan[s] \in Scan /\ Len(scan[s].todo) <= scan[s].count
  BY DEF WatchInv, WatchShape
<1>2. scan[s].count \in Nat /\ scan[s].todo \in Seq(Findings) /\ Len(scan[s].todo) \in Nat
  BY <1>1, LenProperties DEF Scan
<1> QED BY <1>1, <1>2 DEF Advance

(* A denial that is logged, or is not. *)
LEMMA DenialInv ==
    ASSUME WatchInv, NEW p \in Pids, NEW r \in Requests, Watch!log_denial(p, r), scan' = scan
    PROVE  WatchInv'
<1>1. CASE UNCHANGED <<table, book>>
  BY <1>1, WatchUnchanged
<1>2. CASE /\ table' = Append(table, [type |-> "permission_denied", agent |-> p, detail |-> r])
           /\ book' = [book EXCEPT !.denied = @ + 1]
  <2> DEFINE row == [type |-> "permission_denied", agent |-> p, detail |-> r]
  <2>1. row \in Row /\ row.type = "permission_denied" /\ table \in Seq(Row)
    BY DEF Row, WatchInv, WatchShape
  <2> HIDE DEF row
  <2>2. table' = Append(table, row) /\ table' \in Seq(Row)
    BY <1>2, <2>1, RowAdded DEF row
  <2>3. /\ book' \in Book /\ book'.denied = book.denied + 1
        /\ book'.returned = book.returned /\ book'.partial = book.partial /\ book.denied \in Nat
    BY <1>2 DEF WatchInv, WatchShape, Book
  <2>4. Watch!Stored' = Watch!Stored
    BY DEF Watch!Stored, Watch!InProgress
  <2>5. WatchShape'
    BY <2>2, <2>3 DEF WatchInv, WatchShape
  <2>6. Counted'
    <3> DEFINE scans(t) == Len(Only(t, OfType({"api_drift", "phantom_dep"})))
    <3>1. scans(table) \in Nat
      BY <2>1, OneMoreRow
    <3>2. /\ InReport(table') = InReport(table) /\ scans(table') = scans(table)
          /\ Len(table') = Len(table) + 1 /\ Len(table) \in Nat
      BY <2>1, <2>2, RowAdded
    <3>3. /\ InReport(table) = book.returned + book.partial + Cardinality(Watch!Stored)
          /\ Len(table) = scans(table) + book.denied
      BY DEF WatchInv, Counted
    <3> HIDE DEF scans
    <3>4. Len(table') = scans(table') + book'.denied
      BY <2>3, <3>1, <3>2, <3>3
    <3>5. InReport(table') = book'.returned + book'.partial + Cardinality(Watch!Stored')
      BY <2>3, <2>4, <3>2, <3>3
    <3> QED BY <3>4, <3>5 DEF Counted, scans
  <2> QED BY <2>4, <2>5, <2>6 DEF WatchInv
<1> QED BY <1>1, <1>2 DEF Watch!log_denial

LEMMA CheckKeepsBooks ==
    ASSUME WatchInv, NEW p \in Pids, NEW kind \in Watch!Kinds, NEW r \in Requests,
           Watch!Check(kind, p, r)
    PROVE  WatchInv'
<1>1. scan' = scan /\ (UNCHANGED <<table, book>> \/ Watch!log_denial(p, r))
  BY DEF Watch!Check
<1> QED BY <1>1, DenialInv, WatchUnchanged

(* A scan begins with what it keeps of the output. *)
LEMMA StartScanInv ==
    ASSUME WatchInv, NEW s \in Scanners, NEW agent \in Names \cup {None},
           NEW type \in {"api_drift", "phantom_dep"}, NEW found \in Seq(Findings),
           Watch!StartScan(s, agent, type, found)
    PROVE  WatchInv'
<1>1. /\ scan[s] = Watch!NoScan /\ UNCHANGED <<table, book>>
      /\ scan' = [scan EXCEPT ![s] = [pc |-> "emit", agent |-> agent, type |-> type,
                                      todo |-> found, count |-> Len(found)]]
  BY DEF Watch!StartScan, WatchInv, WatchShape
<1>2. Len(found) \in Nat
  BY LenProperties
<1>3. scan \in [Scanners -> Scan]
  BY DEF WatchInv, WatchShape
<1>4. /\ scan'[s] = [pc |-> "emit", agent |-> agent, type |-> type, todo |-> found,
                     count |-> Len(found)]
      /\ \A t \in Scanners \ {s} : scan'[t] = scan[t]
      /\ scan'[s] \in Scan /\ scan' \in [Scanners -> Scan]
  BY <1>1, <1>2, <1>3 DEF Scan
<1>5. WatchShape'
  BY <1>1, <1>2, <1>4 DEF WatchInv, WatchShape
<1>6. \A t \in Scanners : Advance(t)' = Advance(t)
  <2>1. Advance(s) = 0
    BY <1>1 DEF Advance, Watch!NoScan
  <2>2. Advance(s)' = 0
    BY <1>2, <1>4 DEF Advance
  <2> QED BY <1>4, <2>1, <2>2 DEF Advance
<1>7. Watch!Stored' = Watch!Stored
  BY <1>6 DEF Watch!Stored, Watch!InProgress, Advance
<1> QED BY <1>1, <1>5, <1>7 DEF WatchInv, Counted

LEMMA GhostdepInv ==
    ASSUME ScansAreLists, WatchInv, NEW s \in Scanners, NEW n \in Names,
           Watch!run_ghostdep_scan(s, n)
    PROVE  WatchInv'
<1>1. PICK out \in Outputs : Watch!StartScan(s, n, "phantom_dep", Watch!ghostdep_scan(out))
  BY DEF Watch!run_ghostdep_scan
<1>2. Watch!ghostdep_scan(out) \in Seq(Findings)
  BY OnlyType, GuardOperators DEF ScansAreLists, Watch!ghostdep_scan
<1> QED BY <1>1, <1>2, StartScanInv

LEMMA EtchInv ==
    ASSUME ScansAreLists, WatchInv, NEW s \in Scanners, Watch!run_etch_scan(s)
    PROVE  WatchInv'
<1>1. PICK out \in Outputs : Watch!StartScan(s, None, "api_drift", Watch!etch_test(out))
  BY DEF Watch!run_etch_scan
<1>2. Watch!etch_test(out) \in Seq(Findings)
  BY OnlyType, GuardOperators DEF ScansAreLists, Watch!etch_test
<1> QED BY <1>1, <1>2, StartScanInv

LEMMA StoreInv ==
    ASSUME WatchInv, NEW s \in Scanners, Watch!store_alert(s)
    PROVE  WatchInv'
<1>1. /\ scan[s].pc = "emit" /\ scan[s].todo # <<>>
      /\ table' = Append(table, Watch!StoredRow(s))
      /\ scan' = [scan EXCEPT ![s].todo = Tail(@)] /\ book' = book
  BY DEF Watch!store_alert
<1>2. /\ scan \in [Scanners -> Scan] /\ table \in Seq(Row)
      /\ scan[s].type \in {"api_drift", "phantom_dep"}
      /\ Len(scan[s].todo) <= scan[s].count
  BY <1>1 DEF WatchInv, WatchShape
<1>3. /\ Head(scan[s].todo) \in Findings /\ Tail(scan[s].todo) \in Seq(Findings)
      /\ Len(Tail(scan[s].todo)) = Len(scan[s].todo) - 1
  BY <1>1, InProgressType, HeadTailProperties
<1>4. Watch!StoredRow(s) \in Row /\ Watch!StoredRow(s).type \in {"api_drift", "phantom_dep"}
  <2>1. scan[s].agent \in Names \cup {None}
    BY <1>2 DEF Scan
  <2> QED BY <1>2, <1>3, <2>1 DEF Watch!StoredRow, Row
<1>5. /\ scan'[s] = [scan[s] EXCEPT !.todo = Tail(@)]
      /\ \A t \in Scanners \ {s} : scan'[t] = scan[t]
  BY <1>1, <1>2
<1>6. /\ scan'[s].pc = "emit" /\ scan'[s].type = scan[s].type
      /\ scan'[s].count = scan[s].count /\ scan'[s].todo = Tail(scan[s].todo)
      /\ scan'[s] \in Scan
  <2>1. scan[s] \in Scan
    BY InProgressType
  <2>2. scan'[s] = [scan[s] EXCEPT !.todo = Tail(scan[s].todo)]
    BY <1>5
  <2>3. /\ scan'[s].pc = scan[s].pc /\ scan'[s].type = scan[s].type
        /\ scan'[s].count = scan[s].count /\ scan'[s].agent = scan[s].agent
        /\ scan'[s].todo = Tail(scan[s].todo)
    BY <2>1, <2>2 DEF Scan
  <2>4. scan'[s] \in Scan
    BY <1>3, <2>1, <2>2 DEF Scan
  <2> QED BY <1>1, <2>3, <2>4
<1>7. scan' \in [Scanners -> Scan]
  BY <1>1, <1>2, <1>6
<1>8. table' \in Seq(Row)
  BY <1>1, <1>2, <1>4, RowAdded
<1>9. WatchShape'
  <2>1. Len(scan'[s].todo) <= scan'[s].count
    BY <1>2, <1>3, <1>6, InProgressType
  <2> QED BY <1>1, <1>2, <1>5, <1>6, <1>7, <1>8, <2>1 DEF WatchInv, WatchShape
<1>10. Advance(s)' = Advance(s) + 1
  <2> DEFINE c == scan[s].count
             l == Len(scan[s].todo)
  <2>1. Advance(s) = c - l /\ c \in Nat /\ l \in Nat
    BY InProgressType DEF Advance
  <2>2. Advance(s)' = c - (l - 1)
    BY <1>3, <1>6 DEF Advance
  <2> HIDE DEF c, l
  <2> QED BY <2>1, <2>2
<1>11. \A t \in Scanners \ {s} : Advance(t)' = Advance(t)
  BY <1>5 DEF Advance
<1>12. IsFiniteSet(Watch!Stored') /\ Cardinality(Watch!Stored') = Cardinality(Watch!Stored) + 1
  BY <1>10, <1>11, InProgressType, OneMoreStored DEF WatchInv
<1>13. Counted'
  <2>1. /\ InReport(table') = InReport(table) + 1 /\ Len(table') = Len(table) + 1
        /\ Len(Only(table', OfType({"api_drift", "phantom_dep"}))) =
              Len(Only(table, OfType({"api_drift", "phantom_dep"}))) + 1
    BY <1>1, <1>2, <1>4, RowAdded
  <2>2. /\ Len(Only(table, OfType({"api_drift", "phantom_dep"}))) \in Nat
        /\ Cardinality(Watch!Stored) \in Nat
        /\ book.returned \in Nat /\ book.partial \in Nat /\ book.denied \in Nat
    BY <1>2, <1>4, OneMoreRow, FS_CardinalityType DEF WatchInv, WatchShape, Book
  <2>3. /\ InReport(table) = book.returned + book.partial + Cardinality(Watch!Stored)
        /\ Len(table) = Len(Only(table, OfType({"api_drift", "phantom_dep"}))) + book.denied
    BY DEF WatchInv, Counted
  <2>4. /\ InReport(table') = book.returned + book.partial + Cardinality(Watch!Stored')
        /\ Len(table') = Len(Only(table', OfType({"api_drift", "phantom_dep"}))) + book.denied
    <3> DEFINE a == InReport(table)
               b == Cardinality(Watch!Stored)
               c == Len(Only(table, OfType({"api_drift", "phantom_dep"})))
               d == Len(table)
               a1 == InReport(table')
               b1 == Cardinality(Watch!Stored')
               c1 == Len(Only(table', OfType({"api_drift", "phantom_dep"})))
               d1 == Len(table')
    <3>1. /\ a1 = a + 1 /\ b1 = b + 1 /\ c1 = c + 1 /\ d1 = d + 1
          /\ a = book.returned + book.partial + b /\ d = c + book.denied
          /\ b \in Nat /\ c \in Nat
          /\ book.returned \in Nat /\ book.partial \in Nat /\ book.denied \in Nat
      BY <1>12, <2>1, <2>2, <2>3
    <3> HIDE DEF a, b, c, d, a1, b1, c1, d1
    <3>2. a1 = book.returned + book.partial + b1 /\ d1 = c1 + book.denied
      BY <3>1
    <3> QED BY <3>2 DEF a1, b1, c1, d1
  <2> QED BY <1>1, <2>4 DEF Counted, InReport
<1> QED BY <1>9, <1>12, <1>13 DEF WatchInv

(* A scan that ends, with all its findings stored or not. *)
LEMMA ScanEndsInv ==
    ASSUME WatchInv, NEW s \in Scanners,
           scan' = [scan EXCEPT ![s] = Watch!NoScan], table' = table,
           book' \in Book, book'.denied = book.denied,
           book'.returned + book'.partial = book.returned + book.partial + Advance(s)
    PROVE  WatchInv'
<1>1. scan \in [Scanners -> Scan]
  BY DEF WatchInv, WatchShape
<1>2. Watch!NoScan \in Scan /\ Len(<<>>) = 0
  BY DEF Watch!NoScan, Scan
<1>3. scan'[s] = Watch!NoScan /\ \A t \in Scanners \ {s} : scan'[t] = scan[t]
  BY <1>1
<1>4. WatchShape'
  BY <1>1, <1>2, <1>3 DEF WatchInv, WatchShape, Watch!NoScan
<1>5. Advance(s)' = 0
  BY <1>2, <1>3 DEF Advance, Watch!NoScan
<1>6. \A t \in Scanners \ {s} : Advance(t)' = Advance(t)
  BY <1>3 DEF Advance
<1>7. /\ IsFiniteSet(Watch!Stored') /\ Cardinality(Watch!Stored') \in Nat
      /\ Cardinality(Watch!Stored) = Cardinality(Watch!Stored') + Advance(s)
  BY <1>5, <1>6, InProgressType, StoredEnds DEF WatchInv
<1>8. Counted'
  <2>1. InReport(table) = book.returned + book.partial + Cardinality(Watch!Stored)
    BY DEF WatchInv, Counted
  <2>2. /\ book.returned \in Nat /\ book.partial \in Nat /\ book'.returned \in Nat
        /\ book'.partial \in Nat
    BY DEF WatchInv, WatchShape, Book
  <2>3. InReport(table) = book'.returned + book'.partial + Cardinality(Watch!Stored')
    BY <1>7, <2>1, <2>2, InProgressType
  <2> QED BY <2>3 DEF WatchInv, Counted, InReport
<1> QED BY <1>4, <1>7, <1>8 DEF WatchInv

LEMMA StoreFailsInv ==
    ASSUME WatchInv, NEW s \in Scanners, Watch!StoreFails(s)
    PROVE  WatchInv'
<1>1. /\ scan' = [scan EXCEPT ![s] = Watch!NoScan] /\ table' = table
      /\ book' = [book EXCEPT !.partial = @ + scan[s].count - Len(scan[s].todo)]
  BY DEF Watch!StoreFails
<1>2. book \in Book
  BY DEF WatchInv, WatchShape
<1>3. /\ book'.returned = book.returned /\ book'.denied = book.denied
      /\ book'.partial = book.partial + scan[s].count - Len(scan[s].todo)
  BY <1>1, <1>2 DEF Book
<1>4. /\ book'.partial = book.partial + Advance(s) /\ book'.partial \in Nat
      /\ book.partial \in Nat /\ book.returned \in Nat
  BY <1>2, <1>3, InProgressType DEF Book, Advance
<1>5. book' \in Book
  BY <1>1, <1>2, <1>3, <1>4 DEF Book
<1>6. book'.returned + book'.partial = book.returned + book.partial + Advance(s)
  BY <1>3, <1>4, InProgressType
<1> QED BY <1>1, <1>3, <1>5, <1>6, ScanEndsInv

LEMMA ScanReturnsInv ==
    ASSUME WatchInv, NEW s \in Scanners, Watch!ScanReturns(s)
    PROVE  WatchInv'
<1>1. /\ scan[s].todo = <<>>
      /\ scan' = [scan EXCEPT ![s] = Watch!NoScan] /\ table' = table
      /\ book' = [book EXCEPT !.returned = @ + scan[s].count]
  BY DEF Watch!ScanReturns
<1>2. book \in Book /\ Len(<<>>) = 0
  BY DEF WatchInv, WatchShape
<1>3. /\ book'.partial = book.partial /\ book'.denied = book.denied
      /\ book'.returned = book.returned + scan[s].count
  BY <1>1, <1>2 DEF Book
<1>4. /\ book'.returned = book.returned + Advance(s) /\ book'.returned \in Nat
      /\ book.partial \in Nat /\ book.returned \in Nat
  BY <1>1, <1>2, <1>3, InProgressType DEF Book, Advance
<1>5. book' \in Book
  BY <1>1, <1>2, <1>3, <1>4 DEF Book
<1>6. book'.returned + book'.partial = book.returned + book.partial + Advance(s)
  BY <1>3, <1>4, InProgressType
<1> QED BY <1>1, <1>3, <1>5, <1>6, ScanEndsInv

LEMMA WatchNext ==
    ASSUME ScansAreLists, WatchInv, [Watch!Next]_(Watch!vars)
    PROVE  WatchInv'
<1>1. CASE UNCHANGED Watch!vars
  BY <1>1, WatchUnchanged DEF Watch!vars
<1>2. ASSUME NEW p \in Pids, NEW r \in Requests,
             \/ Watch!check_fs_access(p, r) \/ Watch!check_network(p, r)
             \/ Watch!check_command(p, r) \/ Watch!check_secret(p, r)
      PROVE  WatchInv'
  BY <1>2, CheckKeepsBooks DEF Watch!check_fs_access, Watch!check_network, Watch!check_command,
     Watch!check_secret, Watch!Kinds
<1>3. ASSUME \/ \E p \in Pids, m \in Manifests : Watch!register(p, m)
             \/ \E n \in Names : Watch!trust(n)
             \/ \E agents \in SUBSET Pids : Watch!start_monitoring(agents)
             \/ Watch!stop_monitoring
      PROVE  UNCHANGED <<table, scan, book>>
  BY <1>3 DEF Watch!register, Watch!trust, Watch!start_monitoring, Watch!stop_monitoring
<1>4. CASE Watch!Next
  BY <1>2, <1>3, <1>4, GhostdepInv, EtchInv, StoreInv, StoreFailsInv, ScanReturnsInv,
     WatchUnchanged DEF Watch!Next
<1> QED BY <1>1, <1>4

(* However many scanners and agents there are, and whatever fails: nobody is
   allowed more than the manifest but by trust, and the report has exactly the
   lines of the numbers that the scans returned, of those that failed half way
   and of those under way; the other rows of the table are the denials. *)
THEOREM GuardCorrect ==
    ASSUME NoManifest, ScansAreLists
    PROVE  ServicesSpec => []GuardSound
<1> DEFINE Inv == part = "guard" => GuardInv /\ WatchInv
<1>1. ServicesInit => Inv
  BY Begins, GuardInit, WatchInit
<1>2. Inv /\ [ServicesNext]_states => Inv'
  BY Moves, GuardNext, WatchNext
<1>3. Inv => GuardSound
  BY CountedIsExact DEF GuardInv, GuardSound, Watch!GuardSound
<1> QED BY <1>1, <1>2, <1>3, PTL DEF ServicesSpec

--------------------------------------------------------------------------------
(* ResourceMonitor and TokenTracker: who is suspended and who is over budget. *)

life == s1
mem == s2
limits == s3
round == s4
suspended == s5
usage == s6
own == s7
culprits == s8
USE DEF life, mem, limits, round, suspended, usage, own, culprits

(* Sizes, limits and amounts are numbers. *)
Numbers ==
    /\ Sizes \subseteq Nat /\ MemoryLimits \subseteq Nat /\ Amounts \subseteq Nat
    /\ Word \in Nat \ {0} /\ Budget \in Nat
    /\ LongWord \in Nat \ {0} /\ Megabyte \in Nat
    /\ None \notin Nat

Sample == [mem : Nat \cup {None}, life : Nat]
Round == [pc : {"sleep", "clone", "signal", "panic", "dead"}, sample : [Pids -> Sample], todo : SUBSET Pids]
Usage == [rows : Nat, tokens : Nat, cost : Nat, wraps : Nat]

Shape ==
    /\ life \in [Pids -> Nat]
    /\ mem \in [Pids -> Nat \cup {None}]
    /\ limits \in [Pids -> Nat \cup {None}]
    /\ round \in Round
    /\ suspended \subseteq Pids
    /\ usage \in [Pids -> Usage]
    /\ own \in [Pids -> Nat]

(* Of a number that has a process there has been a process. *)
Lived == \A p \in Pids : mem[p] # None => life[p] > 0

(* A sample is of a process that had the number, and who is to be suspended was
   over the limit in it, or has a limit that does not fit. *)
Sampled ==
    \A p \in Pids :
        /\ round.sample[p].mem # None => round.sample[p].life \in 1 .. life[p]
        /\ round.pc \in {"signal", "panic"} /\ p \in round.todo =>
              /\ round.sample[p].mem # None
              /\ \E why \in {"over", "overflow"} : <<p, round.sample[p].life, why>> \in culprits

(* The task ends, or is about to, only when a limit did not fit. *)
Doomed ==
    round.pc \in {"panic", "dead"} =>
        \E p \in Pids : \E n \in 1 .. life[p] : <<p, n, "overflow">> \in culprits

(* The sums of a number are those of its processes, and the costs agree with
   them as long as nothing wrapped around. *)
Sums ==
    \A p \in Pids :
        /\ own[p] <= usage[p].tokens
        /\ life[p] <= 1 => own[p] = usage[p].tokens
        /\ life[p] = 0 => own[p] = 0
        /\ usage[p].wraps = 0 => usage[p].cost = usage[p].tokens

NumbersInv == Shape /\ Lived /\ Sampled /\ Doomed /\ Res!SuspendedOver /\ Sums

LEMMA NumbersInit ==
    ASSUME Numbers, Res!Init
    PROVE  NumbersInv
<1>1. Res!NoSample \in [Pids -> Sample]
  BY DEF Res!NoSample, Sample
<1>2. round = Res!Asleep /\ Res!Asleep \in Round
  BY <1>1 DEF Res!Init, Res!Asleep, Round
<1>3. Res!NoUsage \in Usage
  BY DEF Res!NoUsage, Usage
<1>4. Shape
  BY <1>2, <1>3, Numbers DEF Res!Init, Shape
<1>5. Lived /\ Res!SuspendedOver
  BY DEF Res!Init, Lived, Res!SuspendedOver
<1>6. Sampled /\ Doomed
  BY DEF Res!Init, Sampled, Doomed, Res!Asleep, Res!NoSample
<1>7. Sums
  BY DEF Res!Init, Sums, Res!NoUsage
<1> QED BY <1>4, <1>5, <1>6, <1>7 DEF NumbersInv

--------------------------------------------------------------------------------
(* What one part of a step leaves alone *)

LEMMA SumsUnchanged ==
    ASSUME NumbersInv, UNCHANGED <<life, usage, own>>
    PROVE  Sums'
BY DEF NumbersInv, Sums

LEMMA SampledUnchanged ==
    ASSUME NumbersInv, UNCHANGED <<life, round, culprits>>
    PROVE  Sampled' /\ Doomed'
BY DEF NumbersInv, Sampled, Doomed

LEMMA OverUnchanged ==
    ASSUME NumbersInv, UNCHANGED <<life, culprits>>, suspended' \subseteq suspended
    PROVE  Res!SuspendedOver'
BY DEF NumbersInv, Res!SuspendedOver

--------------------------------------------------------------------------------
(* Processes *)

LEMMA StartInv ==
    ASSUME Numbers, NumbersInv, NEW p \in Pids, Res!Start(p)
    PROVE  NumbersInv'
<1>1. PICK n \in Sizes : mem' = [mem EXCEPT ![p] = n]
  BY DEF Res!Start
<1>2. /\ \A q \in Pids : /\ life'[q] = (IF q = p THEN life[q] + 1 ELSE life[q])
                         /\ own'[q] = (IF q = p THEN 0 ELSE own[q])
                         /\ mem'[q] = (IF q = p THEN n ELSE mem[q])
      /\ UNCHANGED <<limits, round, suspended, usage, culprits>>
  BY <1>1 DEF Res!Start, NumbersInv, Shape
<1>3. \A q \in Pids : life[q] \in Nat /\ own[q] \in Nat /\ usage[q] \in Usage
  BY DEF NumbersInv, Shape
<1>4. \A q \in Pids : life[q] <= life'[q] /\ life'[q] \in Nat
  BY <1>2, <1>3
<1>5. Shape'
  <2>1. life' \in [Pids -> Nat] /\ own' \in [Pids -> Nat]
    BY <1>3 DEF Res!Start, NumbersInv, Shape
  <2>2. mem' \in [Pids -> Nat \cup {None}]
    BY <1>1 DEF NumbersInv, Shape, Numbers
  <2> QED BY <1>2, <2>1, <2>2 DEF NumbersInv, Shape
<1>6. Lived'
  BY <1>2, <1>3 DEF NumbersInv, Lived
<1>7. Sampled'
  <2>1. \A q \in Pids : round.sample[q].life \in Nat
    BY DEF NumbersInv, Shape, Round, Sample
  <2>2. \A q \in Pids : \A i \in 1 .. life[q] : i \in 1 .. life'[q]
    BY <1>3, <1>4
  <2> QED BY <1>2, <2>1, <2>2 DEF NumbersInv, Sampled
<1>d. Doomed'
  <2>1. \A q \in Pids : \A i \in 1 .. life[q] : i \in 1 .. life'[q]
    BY <1>3, <1>4
  <2> QED BY <1>2, <2>1 DEF NumbersInv, Doomed
<1>8. Res!SuspendedOver'
  <2>1. \A q \in Pids : \A i \in 1 .. life[q] : i \in 1 .. life'[q]
    BY <1>3, <1>4
  <2>2. suspended \subseteq Pids
    BY DEF NumbersInv, Shape
  <2> QED BY <1>2, <2>1, <2>2 DEF NumbersInv, Res!SuspendedOver
<1>9. Sums'
  <2>1. \A q \in Pids : usage[q].tokens \in Nat
    BY <1>3 DEF Usage
  <2>2. life[p] = 0 => own[p] = usage[p].tokens /\ own[p] = 0
    BY <1>3 DEF NumbersInv, Sums
  <2>3. life'[p] <= 1 => life[p] = 0
    BY <1>2, <1>3
  <2>4. own'[p] = 0 /\ life'[p] # 0
    BY <1>2, <1>3
  <2>5. ASSUME NEW q \in Pids
        PROVE  /\ own'[q] <= usage[q].tokens
               /\ life'[q] <= 1 => own'[q] = usage[q].tokens
               /\ life'[q] = 0 => own'[q] = 0
               /\ usage[q].wraps = 0 => usage[q].cost = usage[q].tokens
    <3>1. CASE q = p
      BY <2>1, <2>2, <2>3, <2>4, <3>1 DEF NumbersInv, Sums
    <3>2. CASE q # p
      BY <1>2, <3>2 DEF NumbersInv, Sums
    <3> QED BY <3>1, <3>2
  <2> QED BY <1>2, <2>5 DEF Sums
<1> QED BY <1>5, <1>6, <1>7, <1>d, <1>8, <1>9 DEF NumbersInv

LEMMA GrowInv ==
    ASSUME Numbers, NumbersInv, NEW p \in Pids, Res!Grow(p)
    PROVE  NumbersInv'
<1>1. PICK n \in Sizes : mem' = [mem EXCEPT ![p] = n]
  BY DEF Res!Grow
<1>2. UNCHANGED <<life, limits, round, suspended, usage, own, culprits>> /\ mem[p] # None
  BY DEF Res!Grow
<1>3. Shape'
  BY <1>1, <1>2 DEF NumbersInv, Shape, Numbers
<1>4. Lived'
  BY <1>1, <1>2 DEF NumbersInv, Lived, Shape
<1> QED BY <1>2, <1>3, <1>4, SumsUnchanged, SampledUnchanged, OverUnchanged DEF NumbersInv

LEMMA ExitInv ==
    ASSUME Numbers, NumbersInv, NEW p \in Pids, Res!Exit(p)
    PROVE  NumbersInv'
<1>1. mem' = [mem EXCEPT ![p] = None] /\ UNCHANGED <<life, limits, round, usage, own, culprits>>
  BY DEF Res!Exit
<1>2. Shape' /\ suspended' \subseteq suspended
  BY <1>1 DEF Res!Exit, NumbersInv, Shape
<1>3. Lived'
  BY <1>1 DEF NumbersInv, Lived, Shape
<1> QED BY <1>1, <1>2, <1>3, SumsUnchanged, SampledUnchanged, OverUnchanged DEF NumbersInv

--------------------------------------------------------------------------------
(* The monitor *)

LEMMA RefreshInv ==
    ASSUME Numbers, NumbersInv, Res!refresh_all
    PROVE  NumbersInv'
<1>1. UNCHANGED <<life, mem, limits, suspended, usage, own, culprits>>
  BY DEF Res!refresh_all
<1> DEFINE now == [p \in Pids |-> [mem |-> mem[p], life |-> life[p]]]
<1>2. round' = [pc |-> "clone", todo |-> {}, sample |-> now]
  BY DEF Res!refresh_all
<1>3. now \in [Pids -> Sample]
  BY DEF NumbersInv, Shape, Sample
<1>4. Shape'
  BY <1>1, <1>2, <1>3 DEF NumbersInv, Shape, Round
<1>5. Sampled'
  <2>1. \A p \in Pids : mem[p] # None => life[p] \in 1 .. life[p]
    BY DEF NumbersInv, Shape, Lived
  <2> QED BY <1>1, <1>2, <2>1 DEF Sampled
<1>6. Lived' /\ Doomed'
  BY <1>1, <1>2 DEF NumbersInv, Lived, Doomed
<1> QED BY <1>1, <1>4, <1>5, <1>6, SumsUnchanged, OverUnchanged DEF NumbersInv

(* A number that fits into a word is not wrapped around. *)
LEMMA Fits ==
    ASSUME NEW w \in Nat \ {0}, NEW n \in Nat, n < w
    PROVE  n % w = n
OBVIOUS

(* Who is compared with the wrong number has a limit that does not fit. *)
LEMMA OverCounts ==
    ASSUME Numbers, NumbersInv, NEW p \in Pids, Res!Over(p)
    PROVE  /\ round.sample[p].mem # None
           /\ \E why \in {"over", "overflow"} : <<p, round.sample[p].life, why>> \in Res!Culprits
<1>1. limits[p] \in Nat /\ round.sample[p].mem \in Nat /\ Res!Watched(p)
  BY DEF Res!Over, Res!Watched, NumbersInv, Shape, Round, Sample
<1>2. limits[p] * Megabyte \in Nat
  BY <1>1 DEF Numbers
<1>3. CASE Res!Overflows(p)
  BY <1>1, <1>3 DEF Res!Culprits, Res!Remembered, Res!Watched
<1>4. CASE ~Res!Overflows(p)
  <2> DEFINE bytes == limits[p] * Megabyte
  <2>1. bytes \in Nat /\ bytes < LongWord
    BY <1>2, <1>4 DEF Res!Overflows, Numbers
  <2>2. bytes % LongWord = bytes
    BY <2>1, Fits DEF Numbers
  <2>3. round.sample[p].mem > limits[p] * Megabyte
    BY <2>2 DEF Res!Over, Res!limit_bytes
  <2> QED BY <1>1, <2>3 DEF Res!Culprits, Res!Remembered, Res!Watched
<1> QED BY <1>3, <1>4

LEMMA CloneInv ==
    ASSUME Numbers, NumbersInv, Res!CloneLimits
    PROVE  NumbersInv'
<1>1. UNCHANGED <<life, mem, limits, suspended, usage, own>> /\ culprits' = culprits \cup Res!Culprits
  BY DEF Res!CloneLimits
<1>2. \E pc \in {"signal", "panic"} : \E go \in SUBSET {p \in Pids : Res!Over(p)} :
          /\ round' = [round EXCEPT !.pc = pc, !.todo = go]
          /\ pc = "panic" => \E p \in Pids : Res!Watched(p) /\ Res!Overflows(p)
  <2>1. CASE round' = [round EXCEPT !.pc = "signal", !.todo = {p \in Pids : Res!Over(p)}]
    BY <2>1
  <2>2. CASE /\ \E p \in Pids : Res!Watched(p) /\ Res!Overflows(p)
             /\ \E first \in SUBSET {p \in Pids : Res!Over(p) /\ ~Res!Overflows(p)} :
                    round' = [round EXCEPT !.pc = "panic", !.todo = first]
    <3>1. PICK first \in SUBSET {p \in Pids : Res!Over(p) /\ ~Res!Overflows(p)} :
                  round' = [round EXCEPT !.pc = "panic", !.todo = first]
      BY <2>2
    <3>2. first \in SUBSET {p \in Pids : Res!Over(p)}
      OBVIOUS
    <3> QED BY <2>2, <3>1, <3>2
  <2> QED BY <2>1, <2>2 DEF Res!CloneLimits
<1>3. PICK pc \in {"signal", "panic"}, go \in SUBSET {p \in Pids : Res!Over(p)} :
          /\ round' = [round EXCEPT !.pc = pc, !.todo = go]
          /\ pc = "panic" => \E p \in Pids : Res!Watched(p) /\ Res!Overflows(p)
  BY <1>2
<1>4. /\ round'.pc = pc /\ round'.sample = round.sample /\ round'.todo = go /\ round' \in Round
  BY <1>3 DEF NumbersInv, Shape, Round
<1>5. Shape' /\ Lived'
  BY <1>1, <1>4 DEF NumbersInv, Shape, Lived
<1>6. Sampled'
  <2>1. \A p \in go : /\ round.sample[p].mem # None
                      /\ \E why \in {"over", "overflow"} : <<p, round.sample[p].life, why>> \in culprits'
    BY <1>1, OverCounts
  <2> QED BY <1>1, <1>4, <2>1 DEF NumbersInv, Sampled
<1>7. Doomed'
  <2>1. ASSUME NEW p \in Pids, Res!Watched(p), Res!Overflows(p)
        PROVE  <<p, round.sample[p].life, "overflow">> \in culprits' /\ round.sample[p].life \in 1 .. life[p]
    BY <1>1, <2>1 DEF Res!Culprits, Res!Remembered, Res!Watched, NumbersInv, Sampled
  <2> QED BY <1>1, <1>3, <1>4, <2>1 DEF Doomed
<1>8. Res!SuspendedOver'
  BY <1>1 DEF NumbersInv, Res!SuspendedOver
<1> QED BY <1>1, <1>5, <1>6, <1>7, <1>8, SumsUnchanged DEF NumbersInv

LEMMA SuspendInv ==
    ASSUME Numbers, NumbersInv, NEW p \in Pids, Res!suspend_process(p)
    PROVE  NumbersInv'
<1>1. /\ UNCHANGED <<life, mem, limits, usage, own, culprits>>
      /\ round.pc \in {"signal", "panic"} /\ p \in round.todo
      /\ suspended' \subseteq suspended \cup {p}
      /\ round' = [round EXCEPT !.todo = @ \ {p}]
  BY DEF Res!suspend_process
<1>2. /\ round'.pc = round.pc /\ round'.sample = round.sample
      /\ round'.todo = round.todo \ {p} /\ round' \in Round
  BY <1>1 DEF NumbersInv, Shape, Round
<1>3. Shape' /\ Lived'
  BY <1>1, <1>2 DEF NumbersInv, Shape, Lived
<1>4. Sampled' /\ Doomed'
  BY <1>1, <1>2 DEF NumbersInv, Sampled, Doomed
<1>5. \E n \in 1 .. life[p], why \in {"over", "overflow"} : <<p, n, why>> \in culprits
  BY <1>1 DEF NumbersInv, Sampled
<1>6. Res!SuspendedOver'
  BY <1>1, <1>5 DEF NumbersInv, Res!SuspendedOver
<1> QED BY <1>1, <1>3, <1>4, <1>6, SumsUnchanged DEF NumbersInv

LEMMA RoundEndsInv ==
    ASSUME Numbers, NumbersInv, Res!RoundEnds \/ Res!TaskPanics
    PROVE  NumbersInv'
<1>1. /\ UNCHANGED <<life, mem, limits, suspended, usage, own, culprits>>
      /\ \/ round' = Res!Asleep
         \/ round.pc = "panic" /\ round' = [Res!Asleep EXCEPT !.pc = "dead"]
  BY DEF Res!RoundEnds, Res!TaskPanics
<1>2. /\ Res!Asleep \in Round
      /\ \A p \in Pids : Res!Asleep.sample[p].mem = None /\ Res!Asleep.pc = "sleep"
  BY DEF Res!Asleep, Res!NoSample, Round, Sample
<1>a. Res!Asleep = [pc |-> "sleep", sample |-> Res!NoSample, todo |-> {}]
  BY DEF Res!Asleep
<1>3. ASSUME round' = Res!Asleep PROVE Shape' /\ Lived' /\ Sampled' /\ Doomed'
  <2>1. Shape' /\ Lived'
    BY <1>1, <1>2, <1>3 DEF NumbersInv, Shape, Lived
  <2>2. Sampled'
    BY <1>1, <1>2, <1>3 DEF NumbersInv, Sampled
  <2>3. Doomed'
    BY <1>a, <1>3 DEF Doomed
  <2> QED BY <2>1, <2>2, <2>3
<1>4. ASSUME round.pc = "panic" /\ round' = [Res!Asleep EXCEPT !.pc = "dead"]
      PROVE  Shape' /\ Lived' /\ Sampled' /\ Doomed'
  <2>1. round' = [pc |-> "dead", sample |-> Res!NoSample, todo |-> {}]
    BY <1>a, <1>4
  <2>2. Res!NoSample \in [Pids -> Sample] /\ \A p \in Pids : Res!NoSample[p].mem = None
    BY DEF Res!NoSample, Sample
  <2>3. round' \in Round
    BY <2>1, <2>2 DEF Round
  <2>4. Shape' /\ Lived'
    BY <1>1, <2>3 DEF NumbersInv, Shape, Lived
  <2>5. Sampled'
    BY <1>1, <2>1, <2>2 DEF NumbersInv, Sampled
  <2>6. Doomed'
    BY <1>1, <1>4 DEF NumbersInv, Doomed
  <2> QED BY <2>4, <2>5, <2>6
<1> QED BY <1>1, <1>3, <1>4, SumsUnchanged, OverUnchanged DEF NumbersInv

--------------------------------------------------------------------------------
(* The tracker *)

LEMMA RecordInv ==
    ASSUME Numbers, NumbersInv, NEW p \in Pids, NEW m \in Amounts, NEW n \in Amounts,
           NEW priced \in BOOLEAN, Res!record(p, m, n, priced)
    PROVE  NumbersInv'
<1>1. UNCHANGED <<life, mem, limits, round, suspended, culprits>> /\ mem[p] # None
  BY DEF Res!record
<1>2. m \in Nat /\ n \in Nat /\ m + n \in Nat /\ (m + n) % Word \in Nat
  BY DEF Numbers
<1>3. usage[p] \in Usage
  BY DEF NumbersInv, Shape
<1>a. PICK cost \in Nat : cost = IF priced THEN (m + n) % Word ELSE 0
  BY <1>2
<1>b. PICK wrap \in Nat : wrap = IF priced /\ m + n < Word THEN 0 ELSE 1
  OBVIOUS
<1> DEFINE new == [usage[p] EXCEPT !.rows = @ + 1, !.tokens = @ + m + n,
                                   !.cost = @ + cost, !.wraps = @ + wrap]
<1>4. usage' = [usage EXCEPT ![p] = new]
  BY <1>a, <1>b DEF Res!record, NumbersInv, Shape
<1>5. new \in Usage
  <2>1. /\ usage[p].rows \in Nat /\ usage[p].tokens \in Nat
        /\ usage[p].cost \in Nat /\ usage[p].wraps \in Nat
    BY <1>3 DEF Usage
  <2>2. /\ usage[p].rows + 1 \in Nat /\ usage[p].tokens + m + n \in Nat
        /\ usage[p].cost + cost \in Nat /\ usage[p].wraps + wrap \in Nat
    BY <1>2, <2>1
  <2> QED BY <1>3, <2>2 DEF Usage
<1>6. usage'[p] = new /\ \A q \in Pids \ {p} : usage'[q] = usage[q]
  BY <1>4 DEF NumbersInv, Shape
<1>7. own' = [own EXCEPT ![p] = @ + m + n] /\ own[p] \in Nat
  BY DEF Res!record, NumbersInv, Shape
<1>8. own'[p] = own[p] + m + n /\ \A q \in Pids \ {p} : own'[q] = own[q]
  BY <1>7 DEF NumbersInv, Shape
<1>9. Shape'
  <2>1. own' \in [Pids -> Nat]
    BY <1>2, <1>7 DEF NumbersInv, Shape
  <2>2. usage' \in [Pids -> Usage]
    BY <1>4, <1>5 DEF NumbersInv, Shape
  <2> QED BY <1>1, <2>1, <2>2 DEF NumbersInv, Shape
<1>10. Sums'
  <2>1. life[p] > 0 /\ life[p] \in Nat
    BY <1>1 DEF NumbersInv, Lived, Shape
  <2>2. /\ new.tokens = usage[p].tokens + m + n
        /\ new.cost = usage[p].cost + cost /\ new.wraps = usage[p].wraps + wrap
    BY <1>3 DEF Usage
  <2>3. usage[p].tokens \in Nat /\ usage[p].wraps \in Nat /\ usage[p].cost \in Nat
    BY <1>3 DEF Usage
  <2>4. new.wraps = 0 => priced /\ m + n < Word /\ usage[p].wraps = 0
    BY <1>b, <2>2, <2>3
  <2>5. m + n < Word => (m + n) % Word = m + n
    BY <1>2, Fits DEF Numbers
  <2>6. usage[p].wraps = 0 => usage[p].cost = usage[p].tokens
    BY DEF NumbersInv, Sums
  <2>7. new.wraps = 0 => new.cost = new.tokens
    BY <1>a, <1>2, <2>2, <2>3, <2>4, <2>5, <2>6
  <2>8. own[p] <= usage[p].tokens /\ (life[p] <= 1 => own[p] = usage[p].tokens)
    BY DEF NumbersInv, Sums
  <2>9. own'[p] <= new.tokens /\ (life[p] <= 1 => own'[p] = new.tokens)
    BY <1>2, <1>7, <1>8, <2>2, <2>3, <2>8
  <2>10. ASSUME NEW q \in Pids
         PROVE  /\ own'[q] <= usage'[q].tokens
                /\ life[q] <= 1 => own'[q] = usage'[q].tokens
                /\ life[q] = 0 => own'[q] = 0
                /\ usage'[q].wraps = 0 => usage'[q].cost = usage'[q].tokens
    <3>1. CASE q = p
      <4>1. usage'[q] = new
        BY <1>6, <3>1
      <4> HIDE DEF new
      <4> QED BY <2>1, <2>7, <2>9, <3>1, <4>1
    <3>2. CASE q # p
      BY <1>6, <1>8, <3>2 DEF NumbersInv, Sums
    <3> QED BY <3>1, <3>2
  <2> QED BY <1>1, <2>10 DEF Sums
<1>11. Lived'
  BY <1>1 DEF NumbersInv, Lived
<1> QED BY <1>1, <1>9, <1>10, <1>11, SampledUnchanged, OverUnchanged DEF NumbersInv

LEMMA NumbersNext ==
    ASSUME Numbers, NumbersInv, [Res!Next]_(Res!vars)
    PROVE  NumbersInv'
<1>1. ASSUME UNCHANGED <<life, mem, round, suspended, usage, own, culprits>>,
             limits' \in [Pids -> Nat \cup {None}]
      PROVE  NumbersInv'
  <2>1. Shape' /\ Lived'
    BY <1>1 DEF NumbersInv, Shape, Lived
  <2> QED BY <1>1, <2>1, SumsUnchanged, SampledUnchanged, OverUnchanged DEF NumbersInv
<1>2. CASE UNCHANGED Res!vars
  BY <1>1, <1>2 DEF Res!vars, NumbersInv, Shape
<1>3. ASSUME NEW p \in Pids, Res!deregister(p) \/ \E n \in MemoryLimits : Res!register(p, n)
      PROVE  NumbersInv'
  <2>1. limits' \in [Pids -> Nat \cup {None}]
    BY <1>3 DEF Res!register, Res!deregister, NumbersInv, Shape, Numbers
  <2> QED BY <1>1, <1>3, <2>1 DEF Res!register, Res!deregister
<1>4. CASE Res!MonitorStep
  BY <1>4, RefreshInv, CloneInv, SuspendInv, RoundEndsInv DEF Res!MonitorStep
<1>5. CASE Res!Next
  BY <1>3, <1>4, <1>5, StartInv, GrowInv, ExitInv, RecordInv DEF Res!Next
<1> QED BY <1>2, <1>5

(* An agent is over budget by its own tokens, or by those of an agent that had
   its number before; and what is recorded costs what it should, unless a sum
   wrapped around or there is no price. *)
LEMMA Budgets ==
    ASSUME Numbers, NumbersInv
    PROVE  Res!BudgetByNumber
<1>1. ASSUME NEW p \in Pids
      PROVE  /\ Res!check_budget(p) => own[p] > Budget \/ life[p] > 1
             /\ own[p] > Budget => Res!check_budget(p)
             /\ usage[p].cost < usage[p].tokens => usage[p].wraps > 0
  <2>1. /\ usage[p].tokens \in Nat /\ usage[p].cost \in Nat /\ usage[p].wraps \in Nat
        /\ own[p] \in Nat /\ life[p] \in Nat /\ Budget \in Nat
    BY <1>1 DEF NumbersInv, Shape, Usage, Numbers
  <2>2. /\ own[p] <= usage[p].tokens /\ (life[p] <= 1 => own[p] = usage[p].tokens)
        /\ usage[p].wraps = 0 => usage[p].cost = usage[p].tokens
    BY <1>1 DEF NumbersInv, Sums
  <2> QED BY <2>1, <2>2 DEF Res!check_budget
<1> QED BY <1>1 DEF Res!BudgetByNumber

(* The monitor suspends a process for what it did itself, or for what a process
   that had its number before did, and so with the budgets; only a limit that does
   not fit into 64 bits suspends anybody else, or ends the monitor. *)
THEOREM NumbersCorrect ==
    ASSUME Numbers
    PROVE  ServicesSpec => []NumbersSound
<1> DEFINE Inv == part = "resources" => NumbersInv
<1>1. ServicesInit => Inv
  BY Begins, NumbersInit
<1>2. Inv /\ [ServicesNext]_states => Inv'
  BY Moves, NumbersNext
<1>3. Inv => NumbersSound
  BY Budgets DEF NumbersInv, NumbersSound, Res!NumbersSound, Doomed, Res!DiesOfOverflow
<1> QED BY <1>1, <1>2, <1>3, PTL DEF ServicesSpec

--------------------------------------------------------------------------------
(* TalonLoader: what the list of plugins shows. *)

records == s1
instances == s2
inside == s3
fresh == s4
USE DEF records, instances, inside, fresh

Ops == {"load", "unload"}
States == {"idle", "loaded"}
PluginRecord == [version : Versions, status : {"Unloaded", "Loaded", "Failed"},
           signature : (Names \cup {None}) \X Versions]
PluginCall == [thread : Threads, op : Ops, name : Names]

(* None is no value of the registry. *)
NoPlugin == None \notin PluginRecord \cup States \cup PluginCall

(* A plugin nobody has installed has not run; in a call there is a plugin. *)
PluginInv ==
    /\ records \in [Names -> PluginRecord \cup {None}]
    /\ instances \in [Names -> States \cup {None}]
    /\ inside \in PluginCall \cup {None}
    /\ \A n \in Names : records[n] = None => instances[n] # "loaded"
    /\ ~Plugin!Free => records[inside.name] # None /\ instances[inside.name] # None
    /\ Plugin!StatusTrue

LEMMA PluginInit ==
    ASSUME NoPlugin, Plugin!Init
    PROVE  PluginInv
BY DEF NoPlugin, Plugin!Init, PluginInv, Plugin!Free, Plugin!StatusTrue, States

LEMMA PluginOperations ==
    ASSUME NEW op \in Ops
    PROVE  /\ Plugin!Status[op] = IF op = "load" THEN "Loaded" ELSE "Unloaded"
           /\ Plugin!State[op] = IF op = "load" THEN "loaded" ELSE "idle"
BY DEF Ops, Plugin!Status, Plugin!State

(* A change of the status of one record. *)
LEMMA SetStatusEffect ==
    ASSUME NoPlugin, PluginInv, NEW n \in Names, records[n] # None,
           NEW s \in {"Unloaded", "Loaded", "Failed"}, Plugin!SetStatus(n, s)
    PROVE  /\ records' \in [Names -> PluginRecord \cup {None}]
           /\ records'[n] # None /\ records'[n].status = s
           /\ \A m \in Names \ {n} : records'[m] = records[m]
<1>1. records[n] \in PluginRecord
  BY DEF PluginInv
<1>2. [records[n] EXCEPT !.status = s] \in PluginRecord
  BY <1>1 DEF PluginRecord
<1>3. [records[n] EXCEPT !.status = s].status = s
  BY <1>1 DEF PluginRecord
<1>4. /\ records' = [records EXCEPT ![n] = [records[n] EXCEPT !.status = s]]
      /\ records'[n] = [records[n] EXCEPT !.status = s]
  BY DEF Plugin!SetStatus, PluginInv
<1> QED BY <1>2, <1>3, <1>4 DEF PluginInv, NoPlugin

LEMMA InstallPlugin ==
    ASSUME NoPlugin, PluginInv, NEW n \in Names, NEW v \in Versions, NEW s \in {n, None},
           Plugin!install(n, v, <<s, v>>)
    PROVE  PluginInv'
<1>1. CASE records' = records
  BY <1>1 DEF PluginInv, Plugin!install, Plugin!Free, Plugin!StatusTrue
<1>2. CASE records' # records
  <2> DEFINE new == [version |-> v, status |-> "Unloaded", signature |-> <<s, v>>]
  <2>1. records[n] = None /\ records' = [records EXCEPT ![n] = new]
    BY <1>2 DEF Plugin!install
  <2>2. new \in PluginRecord
    BY DEF PluginRecord
  <2>3. /\ records' \in [Names -> PluginRecord \cup {None}]
        /\ records'[n] = new /\ \A m \in Names \ {n} : records'[m] = records[m]
    BY <2>1, <2>2 DEF PluginInv
  <2>4. new # None /\ new.status = "Unloaded"
    BY <2>2 DEF NoPlugin
  <2>5. UNCHANGED <<instances, inside, fresh>> /\ Plugin!Free
    BY DEF Plugin!install
  <2>6. instances[n] = None \/ instances[n] = "idle"
    BY <2>1 DEF PluginInv, States
  <2>7. Plugin!StatusTrue'
    BY <2>3, <2>4, <2>5, <2>6 DEF PluginInv, Plugin!StatusTrue
  <2> QED BY <2>3, <2>4, <2>5, <2>7 DEF PluginInv, Plugin!Free
<1> QED BY <1>1, <1>2

LEMMA RegisterPlugin ==
    ASSUME NoPlugin, PluginInv, NEW n \in Names, Plugin!register_instance(n)
    PROVE  PluginInv'
<1>1. /\ instances'[n] = "idle" /\ n \in fresh'
      /\ \A m \in Names \ {n} : instances'[m] = instances[m] /\ (m \in fresh' <=> m \in fresh)
      /\ instances' \in [Names -> States \cup {None}]
  BY DEF Plugin!register_instance, PluginInv, States
<1>2. UNCHANGED <<records, inside>> /\ Plugin!Free
  BY DEF Plugin!register_instance
<1>3. Plugin!StatusTrue'
  BY <1>1, <1>2 DEF PluginInv, Plugin!StatusTrue
<1> QED BY <1>1, <1>2, <1>3 DEF PluginInv, Plugin!Free

LEMMA EnterPlugin ==
    ASSUME NoPlugin, PluginInv, NEW t \in Threads, NEW op \in Ops, NEW n \in Names,
           Plugin!Enter(t, op, n)
    PROVE  PluginInv'
<1>1. UNCHANGED <<instances, fresh>> /\ Plugin!Free /\ records[n] # None
  BY DEF Plugin!Enter
<1>2. CASE instances[n] = None
  <2>1. Plugin!SetStatus(n, Plugin!Status[op]) /\ UNCHANGED inside
    BY <1>2 DEF Plugin!Enter
  <2>2. Plugin!Status[op] \in {"Unloaded", "Loaded", "Failed"}
    BY PluginOperations
  <2>3. /\ records' \in [Names -> PluginRecord \cup {None}] /\ records'[n] # None
        /\ \A m \in Names \ {n} : records'[m] = records[m]
    BY <1>1, <2>1, <2>2, SetStatusEffect
  <2>4. Plugin!StatusTrue'
    BY <1>1, <1>2, <2>3 DEF PluginInv, Plugin!StatusTrue
  <2> QED BY <1>1, <2>1, <2>3, <2>4 DEF PluginInv, Plugin!Free
<1>3. CASE instances[n] # None
  <2>1. inside' = [thread |-> t, op |-> op, name |-> n] /\ UNCHANGED records
    BY <1>3 DEF Plugin!Enter
  <2>2. inside' \in PluginCall /\ inside'.name = n
    BY <2>1 DEF PluginCall
  <2> QED BY <1>1, <1>3, <2>1, <2>2 DEF PluginInv, Plugin!StatusTrue
<1> QED BY <1>2, <1>3

LEMMA LeavePlugin ==
    ASSUME NoPlugin, PluginInv, NEW t \in Threads, Plugin!Leave(t)
    PROVE  PluginInv'
<1>1. inside \in PluginCall /\ inside' = None
  BY DEF Plugin!Leave, PluginInv, Plugin!Free
<1>2. PICK n \in Names, op \in Ops : n = inside.name /\ op = inside.op
  BY <1>1 DEF PluginCall
<1>3. records[n] # None /\ instances[n] # None
  BY <1>2 DEF Plugin!Leave, PluginInv
<1>4. PICK result \in {"ok", "error", "panic"}, state \in {Plugin!State[op], instances[n]} :
          /\ result = "ok" => state = Plugin!State[op]
          /\ instances' = [instances EXCEPT ![n] = state]
          /\ Plugin!SetStatus(n, IF result = "ok" THEN Plugin!Status[op] ELSE "Failed")
          /\ fresh' = IF result = "ok" /\ op = "load" THEN fresh \ {n} ELSE fresh
  BY <1>2 DEF Plugin!Leave
<1>5. state \in States
  BY <1>3, <1>4, PluginOperations DEF PluginInv, States
<1>6. /\ instances' \in [Names -> States \cup {None}] /\ instances'[n] = state
      /\ \A m \in Names \ {n} : instances'[m] = instances[m]
  BY <1>4, <1>5 DEF PluginInv
<1>7. PICK s \in {"Unloaded", "Loaded", "Failed"} :
          s = IF result = "ok" THEN Plugin!Status[op] ELSE "Failed"
  BY PluginOperations
<1>8. /\ records' \in [Names -> PluginRecord \cup {None}]
      /\ records'[n] # None /\ records'[n].status = s
      /\ \A m \in Names \ {n} : records'[m] = records[m]
  BY <1>3, <1>4, <1>7, SetStatusEffect
<1>9. (s = "Unloaded" => state = "idle") /\ (s = "Loaded" => state = "loaded")
  BY <1>4, <1>7, PluginOperations
<1>10. \A m \in Names \ {n} : m \in fresh' <=> m \in fresh
  BY <1>4
<1>11. Plugin!StatusTrue'
  <2>1. ASSUME NEW m \in Names, records'[m] # None, instances'[m] # None
        PROVE  /\ records'[m].status = "Unloaded" => instances'[m] = "idle"
               /\ records'[m].status = "Loaded" => instances'[m] = "loaded" \/ m \in fresh'
    <3>1. CASE m = n
      BY <1>6, <1>8, <1>9, <3>1
    <3>2. CASE m # n
      BY <1>6, <1>8, <1>10, <2>1, <3>2 DEF PluginInv, Plugin!StatusTrue
    <3> QED BY <3>1, <3>2
  <2> QED BY <2>1 DEF Plugin!StatusTrue
<1>12. \A m \in Names : records'[m] = None => instances'[m] # "loaded"
  BY <1>6, <1>8 DEF PluginInv
<1> QED BY <1>1, <1>6, <1>8, <1>11, <1>12 DEF PluginInv, Plugin!Free

LEMMA PluginNext ==
    ASSUME NoPlugin, PluginInv, [Plugin!Next]_(Plugin!vars)
    PROVE  PluginInv'
<1>1. CASE UNCHANGED Plugin!vars
  BY <1>1 DEF Plugin!vars, PluginInv, Plugin!Free, Plugin!StatusTrue
<1>2. CASE Plugin!Next
  BY <1>2, InstallPlugin, RegisterPlugin, EnterPlugin, LeavePlugin DEF Plugin!Next, Ops
<1> QED BY <1>1, <1>2

--------------------------------------------------------------------------------
(* Verifier and `hawk verify`: what a report says of a session. *)

session_actions == s1
op == s2
verification_reports == s3
cleaned == s4
USE DEF session_actions, op, verification_reports, cleaned

Action == [type : ActionTypes, fields : SUBSET Fields]
Claimed == [action_type : ActionTypes, resource : Action \cup {None}]
Verifying == [pc : {"idle", "claimed"}, claims : Seq(Claimed)]

(* A verifier that has claims has some, and as long as nothing is removed each
   of them is that of an action which is still in the log. *)
InLog ==
    \A v \in Verifiers : op[v] # Aud!Idle =>
        /\ op[v].pc = "claimed" /\ op[v].claims # <<>>
        /\ v \notin cleaned =>
              \A i \in DOMAIN op[v].claims :
                  \E j \in DOMAIN session_actions : op[v].claims[i] = Aud!Claim(session_actions[j])

AuditInv ==
    /\ session_actions \in Seq(Action)
    /\ op \in [Verifiers -> Verifying]
    /\ InLog
    /\ Aud!OwnClaims /\ Aud!StatusHonest

LEMMA AuditInit ==
    ASSUME Aud!Init
    PROVE  AuditInv
<1>1. <<>> \in Seq(Action) /\ <<>> \in Seq(Claimed)
  OBVIOUS
<1>2. Aud!Idle \in Verifying
  BY <1>1 DEF Aud!Idle, Verifying
<1>3. op \in [Verifiers -> Verifying] /\ InLog
  BY <1>2 DEF Aud!Init, InLog
<1> QED BY <1>1, <1>3 DEF Aud!Init, AuditInv, Aud!OwnClaims, Aud!StatusHonest

LEMMA ClaimType ==
    ASSUME NEW a \in Action
    PROVE  Aud!Claim(a) \in Claimed
BY DEF Aud!Claim, Action, Claimed

(* Whoever is not named in the step has the claims it had. *)
LEMMA LoadClaimsInv ==
    ASSUME AuditInv, NEW v \in Verifiers, Aud!LoadClaims(v)
    PROVE  AuditInv'
<1> DEFINE claims == [i \in DOMAIN session_actions |-> Aud!Claim(session_actions[i])]
<1>1. /\ op' = [op EXCEPT ![v] = [pc |-> "claimed", claims |-> claims]]
      /\ cleaned' = cleaned \ {v} /\ session_actions # <<>>
      /\ UNCHANGED <<session_actions, verification_reports>>
  BY DEF Aud!LoadClaims
<1>2. /\ Len(session_actions) \in Nat /\ DOMAIN session_actions = 1 .. Len(session_actions)
      /\ \A i \in 1 .. Len(session_actions) : session_actions[i] \in Action
      /\ Len(session_actions) # 0
  BY <1>1, LenProperties, ElementOfSeq, EmptySeq DEF AuditInv
<1>3. claims \in Seq(Claimed) /\ claims # <<>>
  <2>1. claims \in [1 .. Len(session_actions) -> Claimed]
    BY <1>2, ClaimType
  <2>2. claims \in Seq(Claimed)
    BY <1>2, <2>1, SeqDef
  <2>3. 1 \in DOMAIN claims
    BY <1>2
  <2> QED BY <2>2, <2>3, EmptySeq
<1>4. \A i \in DOMAIN claims : i \in DOMAIN session_actions /\ claims[i] = Aud!Claim(session_actions[i])
  OBVIOUS
<1> HIDE DEF claims
<1>5. op' \in [Verifiers -> Verifying]
  BY <1>1, <1>3 DEF AuditInv, Verifying
<1>6. /\ op'[v] = [pc |-> "claimed", claims |-> claims]
      /\ \A w \in Verifiers \ {v} : op'[w] = op[w]
  BY <1>1 DEF AuditInv
<1>7. InLog'
  <2>1. ASSUME NEW w \in Verifiers, op'[w] # Aud!Idle
        PROVE  /\ op'[w].pc = "claimed" /\ op'[w].claims # <<>>
               /\ w \notin cleaned' =>
                     \A i \in DOMAIN op'[w].claims :
                         \E j \in DOMAIN session_actions :
                             op'[w].claims[i] = Aud!Claim(session_actions[j])
    <3>1. CASE w = v
      BY <1>3, <1>4, <1>6, <3>1
    <3>2. CASE w # v
      BY <1>1, <1>6, <2>1, <3>2 DEF AuditInv, InLog
    <3> QED BY <3>1, <3>2
  <2>2. Aud!Idle' = Aud!Idle
    BY DEF Aud!Idle
  <2>3. session_actions' = session_actions
    BY <1>1
  <2> QED BY <2>1, <2>3 DEF InLog, Aud!Idle
<1> QED BY <1>1, <1>5, <1>7 DEF AuditInv, Aud!OwnClaims, Aud!StatusHonest

(* A claim on an action of the log passes, unless it states no resource. *)
LEMMA OwnClaimPasses ==
    ASSUME NEW evidence \in Seq(Action), NEW j \in DOMAIN evidence,
           NEW claim, claim = Aud!Claim(evidence[j]), claim.resource # None
    PROVE  Aud!verify_claim(claim, evidence) = "Pass"
<1> DEFINE a == evidence[j]
<1>1. a \in Action /\ evidence # <<>>
  BY LenProperties, ElementOfSeq, EmptySeq
<1> HIDE DEF a
<1>2. /\ claim.action_type = a.type
      /\ claim.resource = IF Aud!extract_resource(a.type, a.fields) THEN a ELSE None
  BY DEF Aud!Claim, a
<1>3. claim.resource = a /\ a.fields \cap Aud!Keys(a.type) # {}
  BY <1>2 DEF Aud!extract_resource
<1>4. Aud!Keys(a.type) \subseteq {"resource", "path", "url", "command"}
  BY DEF Aud!Keys
<1>5. Aud!action_matches_resource(a, claim.resource)
  BY <1>3, <1>4 DEF Aud!action_matches_resource
<1> QED BY <1>1, <1>2, <1>5 DEF Aud!verify_claim, a

LEMMA VerifyInv ==
    ASSUME AuditInv, NEW v \in Verifiers, Aud!VerifySession(v)
    PROVE  AuditInv'
<1> DEFINE claims == op[v].claims
           verdicts == {Aud!verify_claim(claims[i], session_actions) : i \in DOMAIN claims}
           report == verification_reports'.last
<1>1. /\ op[v].pc = "claimed" /\ op' = [op EXCEPT ![v] = Aud!Idle]
      /\ UNCHANGED <<session_actions, cleaned>>
      /\ report = [own |-> claims # <<>>, unstated |-> \E i \in DOMAIN claims : claims[i].resource = None,
                   verdicts |-> verdicts, status |-> Aud!derive_status(verdicts),
                   raced |-> v \in cleaned, agrees |-> TRUE]
  BY DEF Aud!VerifySession, Aud!store_report_full
<1>2. op \in [Verifiers -> Verifying] /\ Aud!Idle \in Verifying
  <2>1. <<>> \in Seq(Claimed)
    OBVIOUS
  <2> QED BY <2>1 DEF AuditInv, Aud!Idle, Verifying
<1>3. op' \in [Verifiers -> Verifying] /\ InLog'
  BY <1>1, <1>2 DEF AuditInv, InLog, Aud!Idle
<1>4. /\ claims # <<>> /\ claims \in Seq(Claimed)
      /\ v \notin cleaned => \A i \in DOMAIN claims :
            \E j \in DOMAIN session_actions : claims[i] = Aud!Claim(session_actions[j])
  <2>1. op[v] # Aud!Idle
    BY <1>1 DEF Aud!Idle
  <2> QED BY <1>2, <2>1 DEF AuditInv, InLog, Verifying
<1>5. Aud!derive_status(verdicts) = "Verified" => verdicts = {"Pass"}
  BY DEF Aud!derive_status
<1>6. verdicts = {"Pass"} => Aud!derive_status(verdicts) = "Verified"
  BY DEF Aud!derive_status
<1>7. ASSUME v \notin cleaned, \A i \in DOMAIN claims : claims[i].resource # None
      PROVE  verdicts = {"Pass"}
  <2>1. \A i \in DOMAIN claims : Aud!verify_claim(claims[i], session_actions) = "Pass"
    BY <1>4, <1>7, OwnClaimPasses DEF AuditInv
  <2>2. DOMAIN claims # {}
    <3>1. Len(claims) # 0 /\ Len(claims) \in Nat /\ DOMAIN claims = 1 .. Len(claims)
      BY <1>4, EmptySeq, LenProperties
    <3> HIDE DEF claims
    <3>2. 1 \in 1 .. Len(claims)
      BY <3>1
    <3> QED BY <3>1, <3>2
  <2> QED BY <2>1, <2>2
<1> HIDE DEF verdicts, claims, report
<1>8. Aud!OwnClaims'
  <2>1. /\ report.status = Aud!derive_status(verdicts)
        /\ v \in cleaned => report.raced
        /\ (\E i \in DOMAIN claims : claims[i].resource = None) => report.unstated
    BY <1>1
  <2>2. report.status # "Verified" => report.raced \/ report.unstated
    BY <1>6, <1>7, <2>1
  <2> QED BY <2>2 DEF Aud!OwnClaims, report
<1>9. Aud!StatusHonest'
  BY <1>1, <1>5 DEF Aud!StatusHonest, report
<1> QED BY <1>1, <1>3, <1>8, <1>9 DEF AuditInv

LEMMA ClaimcheckInv ==
    ASSUME AuditInv, NEW v \in Verifiers, Aud!VerifyWithClaimcheck(v)
    PROVE  AuditInv'
<1>1. PICK results \in SUBSET Checks, summary \in Aud!Summaries :
          Aud!store_report_full(<<>>, {Aud!Verdict[r] : r \in results},
                                Aud!summary_status(summary), FALSE, Aud!Agrees(summary, results))
  BY DEF Aud!VerifyWithClaimcheck
<1> DEFINE verdicts == {Aud!Verdict[r] : r \in results}
           report == verification_reports'.last
<1>2. UNCHANGED <<session_actions, op, cleaned>>
  BY DEF Aud!VerifyWithClaimcheck
<1>3. /\ ~report.own /\ report.verdicts = verdicts
      /\ report.status = Aud!summary_status(summary) /\ report.agrees = Aud!Agrees(summary, results)
  BY <1>1 DEF Aud!store_report_full
<1>4. ASSUME Aud!summary_status(summary) = "Verified", Aud!Agrees(summary, results)
      PROVE  "Pass" \in verdicts /\ "Fail" \notin verdicts
  <2>1. "FAIL" \notin results /\ "PASS" \in results
    BY <1>4 DEF Aud!summary_status, Aud!Agrees
  <2>2. Aud!Verdict["PASS"] = "Pass"
    BY <2>1 DEF Aud!Verdict
  <2>3. \A r \in results : Aud!Verdict[r] # "Fail"
    BY <2>1 DEF Aud!Verdict
  <2> QED BY <2>1, <2>2, <2>3
<1> HIDE DEF verdicts, report
<1>5. Aud!OwnClaims' /\ Aud!StatusHonest'
  BY <1>3, <1>4 DEF Aud!OwnClaims, Aud!StatusHonest, report
<1> QED BY <1>2, <1>5 DEF AuditInv, InLog, Aud!Idle

LEMMA RecordedInv ==
    ASSUME AuditInv, NEW t \in ActionTypes, NEW fields \in SUBSET Fields, Aud!Record(t, fields)
    PROVE  AuditInv'
<1> DEFINE a == [type |-> t, fields |-> fields]
<1>1. session_actions' = Append(session_actions, a) /\ UNCHANGED <<op, verification_reports, cleaned>>
  BY DEF Aud!Record
<1>2. a \in Action /\ session_actions \in Seq(Action)
  BY DEF Action, AuditInv
<1> HIDE DEF a
<1>3. /\ session_actions' \in Seq(Action)
      /\ \A j \in DOMAIN session_actions :
            j \in DOMAIN session_actions' /\ session_actions'[j] = session_actions[j]
  BY <1>1, <1>2, AppendProperties, LenProperties
<1>4. InLog'
  <2>1. \A c : (\E j \in DOMAIN session_actions : c = Aud!Claim(session_actions[j])) =>
                  \E j \in DOMAIN session_actions' : c = Aud!Claim(session_actions'[j])
    BY <1>3
  <2> QED BY <1>1, <2>1 DEF AuditInv, InLog, Aud!Idle
<1> QED BY <1>1, <1>3, <1>4 DEF AuditInv, Aud!OwnClaims, Aud!StatusHonest

LEMMA CleanedInv ==
    ASSUME AuditInv, NEW n \in 1 .. Len(session_actions), Aud!Cleanup(n)
    PROVE  AuditInv'
<1>1. /\ session_actions' = SubSeq(session_actions, n + 1, Len(session_actions))
      /\ cleaned' = cleaned \cup {v \in Verifiers : op[v] # Aud!Idle}
      /\ UNCHANGED <<op, verification_reports>>
  BY DEF Aud!Cleanup
<1>2. session_actions' \in Seq(Action)
  <2>1. /\ session_actions \in Seq(Action) /\ Len(session_actions) \in Nat
        /\ n + 1 \in 1 .. Len(session_actions) + 1
    BY LenProperties DEF AuditInv
  <2> QED BY <1>1, <2>1, SubSeqProperties
<1>3. \A v \in Verifiers : op'[v] # Aud!Idle => v \in cleaned'
  BY <1>1
<1>4. InLog'
  BY <1>1, <1>3 DEF AuditInv, InLog, Aud!Idle
<1> QED BY <1>1, <1>2, <1>4 DEF AuditInv, Aud!OwnClaims, Aud!StatusHonest

LEMMA AuditNext ==
    ASSUME AuditInv, [Aud!Next]_(Aud!vars)
    PROVE  AuditInv'
<1>1. CASE UNCHANGED Aud!vars
  BY <1>1 DEF Aud!vars, AuditInv, InLog, Aud!OwnClaims, Aud!StatusHonest, Aud!Idle
<1>2. CASE Aud!Next
  BY <1>2, LoadClaimsInv, VerifyInv, ClaimcheckInv, RecordedInv, CleanedInv DEF Aud!Next
<1> QED BY <1>1, <1>2

(* For any verifiers, actions and payloads, and however recordings and clean-ups
   come between the two reads: an agent whose log was left alone is not told
   that its own claims are unverified if they all state a resource, and no
   report is better than its verdicts. *)
THEOREM AuditCorrect == ServicesSpec => []AuditSound
<1> DEFINE Inv == part = "audit" => AuditInv
<1>1. ServicesInit => Inv
  BY Begins, AuditInit
<1>2. Inv /\ [ServicesNext]_states => Inv'
  BY Moves, AuditNext
<1>3. Inv => AuditSound
  BY DEF AuditInv, AuditSound, Aud!AuditSound
<1> QED BY <1>1, <1>2, <1>3, PTL DEF ServicesSpec

--------------------------------------------------------------------------------
(* HawkClient: who handles what, and in which order. *)

handlers == s1
holder == s2
poisoned == s3
thread == s4
inbox == s5
memory == s6
sent == s7
registered == s8
handled == s9
subscriptions == s10
USE DEF handlers, holder, poisoned, thread, inbox, memory, sent, registered, handled, subscriptions

(* None is not a thread. *)
NoThread == None \notin Threads

Message == [method : Methods, by : Threads, id : Nat]
Locals == [pc : {"idle", "send", "lock", "handler", "stuck", "panicked"},
           op : {"none", "register", "dispatch"}, method : Methods \cup {None},
           by : Threads \cup {None}, id : Nat, to : Seq(Threads)]
Handling == [thread : Threads, by : Threads, id : Nat, method : Methods, handler : Threads,
             end : {"running", "returned", "panicked"}]

(* The message that a thread has taken and waits for the registry with. *)
Of(x) == [method |-> x.method, by |-> x.by, id |-> x.id]
Pending(l) == l.pc = "lock" /\ l.op = "dispatch"
Named(l) ==
    /\ l.pc \in {"lock", "send"} => l.method \in Methods
    /\ Pending(l) => Of(l) \in Message
    /\ l.pc = "send" => Distinct(l.to)

ClientShape ==
    /\ handlers \in [Methods -> Threads \cup {None}]
    /\ thread \in [Threads -> Locals]
    /\ subscriptions \in Seq(Threads) /\ Distinct(subscriptions)
    /\ inbox \in [Threads -> Seq(Message)]
    /\ sent \in Nat
    /\ registered \in Seq(Threads \X Methods)
    /\ handled \in Seq(Handling)
    /\ \A t \in Threads : Named(thread[t])

(* What a thread has handled, and what it has to handle yet. *)
Taken(t) == IF Pending(thread[t]) THEN {Of(thread[t])} ELSE {}
Held(t) == Taken(t) \cup ToSet(inbox[t])
Past(t) == {Of(handled[i]) : i \in {j \in DOMAIN handled : handled[j].thread = t}}

(* Of the messages of one publisher, an earlier one and a later one. *)
Before == {p \in Message \X Message : p[1].by = p[2].by => p[1].id < p[2].id}

(* Numbered are given in order, and a message that is still on its way to a thread
   comes after all of its publisher's that the thread has had. *)
Numbered ==
    \A t \in Threads :
        /\ thread[t].pc = "send" => thread[t].id <= sent
        /\ \A x \in Past(t) \cup Held(t) : x.id <= sent
Coming ==
    \A p, t \in Threads : \A x \in Past(t) \cup Held(t) :
        thread[p].pc = "send" /\ t \in ToSet(thread[p].to) /\ x.by = p => x.id < thread[p].id

(* A thread has its messages in their order, after all that it has handled. *)
InLine ==
    \A t \in Threads :
        /\ Ordered(inbox[t], Before)
        /\ \A x \in Taken(t), y \in ToSet(inbox[t]) : <<x, y>> \in Before
        /\ \A x \in Past(t), y \in Held(t) : <<x, y>> \in Before
InOrder ==
    \A i, j \in DOMAIN handled :
        i < j /\ handled[i].thread = handled[j].thread => <<Of(handled[i]), Of(handled[j])>> \in Before

(* A method's handler is that of the first to register one. *)
Foremost(q, t, m) ==
    \E k \in DOMAIN q : q[k] = <<t, m>> /\ (\A j \in 1 .. k - 1 : q[j][2] # m)
Settled ==
    /\ \A i \in DOMAIN handled : handlers[handled[i].method] = handled[i].handler
    /\ \A m \in Methods :
          IF handlers[m] = None THEN \A k \in DOMAIN registered : registered[k][2] # m
          ELSE Foremost(registered, handlers[m], m)

(* Whoever runs a handler has the mutex, and it is poisoned by one that panics. *)
Exclusive ==
    /\ \A t \in Threads : thread[t].pc \in {"handler", "stuck"} => holder = t
    /\ \A i \in DOMAIN handled :
          /\ handled[i].end # "returned" => i = Len(handled)
          /\ handled[i].end = "running" => holder = handled[i].thread
          /\ handled[i].end = "panicked" => poisoned

BusPart == Numbered /\ Coming /\ InLine /\ InOrder
ClientInv == ClientShape /\ BusPart /\ Settled /\ Exclusive

LEMMA ClientInvHandles ==
    ASSUME NoThread, ClientInv
    PROVE  Sdk!ClientSound
<1>1. \A i \in DOMAIN handled : handled[i] \in Handling
  BY LenProperties, ElementOfSeq DEF ClientInv, ClientShape
<1>2. ASSUME NEW i \in DOMAIN handled, NEW j \in DOMAIN handled,
             i < j, handled[i].thread = handled[j].thread, handled[i].by = handled[j].by
      PROVE  handled[i].id < handled[j].id
  <2>1. <<Of(handled[i]), Of(handled[j])>> \in Before
    BY <1>2 DEF ClientInv, BusPart, InOrder
  <2> QED BY <1>2, <2>1 DEF Before, Of
<1>3. ASSUME NEW i \in DOMAIN handled PROVE Foremost(registered, handled[i].handler, handled[i].method)
  <2>1. /\ handlers[handled[i].method] = handled[i].handler
        /\ handled[i].method \in Methods /\ handled[i].handler # None
    BY <1>1 DEF ClientInv, Settled, Handling, NoThread
  <2> QED BY <2>1 DEF ClientInv, Settled
<1>4. \A i \in DOMAIN handled : handled[i].end # "returned" => i = Len(handled)
  BY DEF ClientInv, Exclusive
<1> QED BY <1>2, <1>3, <1>4 DEF Sdk!ClientSound, Foremost

LEMMA ClientInit ==
    ASSUME Sdk!connect
    PROVE  ClientInv
<1>1. /\ <<>> \in Seq(Handling) /\ <<>> \in Seq(Message) /\ <<>> \in Seq(Threads)
      /\ <<>> \in Seq(Threads \X Methods) /\ DOMAIN <<>> = {}
  OBVIOUS
<1>2. Sdk!Idle \in Locals /\ Sdk!Idle.pc = "idle" /\ Named(Sdk!Idle)
  BY <1>1 DEF Sdk!Idle, Locals, Named, Pending
<1>3. ClientShape
  BY <1>1, <1>2 DEF Sdk!connect, ClientShape, Distinct
<1>4. /\ handled = <<>> /\ registered = <<>>
      /\ \A t \in Threads : inbox[t] = <<>> /\ thread[t].pc = "idle"
  BY <1>2 DEF Sdk!connect
<1>5. \A t \in Threads : Held(t) = {} /\ Past(t) = {} /\ Taken(t) = {}
  BY <1>1, <1>4, ToSetEmpty DEF Held, Past, Taken, Pending
<1>6. BusPart
  BY <1>1, <1>4, <1>5 DEF BusPart, Numbered, Coming, InLine, InOrder, Ordered
<1>7. Settled
  BY <1>1, <1>4 DEF Settled, Sdk!connect
<1>8. Exclusive
  BY <1>1, <1>4 DEF Exclusive
<1> QED BY <1>3, <1>6, <1>7, <1>8 DEF ClientInv

--------------------------------------------------------------------------------
(* Steps of a thread that get and publish nothing *)

(* What a step may do to the history without adding to it: to say how a handler
   ended. *)
SameHandled ==
    /\ handled' \in Seq(Handling) /\ DOMAIN handled' = DOMAIN handled
    /\ \A i \in DOMAIN handled :
          /\ Of(handled'[i]) = Of(handled[i])
          /\ handled'[i].thread = handled[i].thread /\ handled'[i].handler = handled[i].handler
          /\ handled'[i].method = handled[i].method

(* No thread has anything new, and none publishes anything new. *)
LEMMA NothingNew ==
    ASSUME BusPart, SameHandled, UNCHANGED <<inbox, sent>>,
           \A t \in Threads :
              /\ Taken(t)' \subseteq Taken(t)
              /\ thread'[t].pc = "send" =>
                    thread[t].pc = "send" /\ thread'[t].id = thread[t].id /\ thread'[t].to = thread[t].to
    PROVE  BusPart'
<1>1. ASSUME NEW t \in Threads
      PROVE  Past(t)' = Past(t) /\ Held(t)' \subseteq Held(t)
  BY DEF SameHandled, Past, Held
<1>2. Numbered'
  BY <1>1 DEF BusPart, Numbered
<1>3. Coming'
  BY <1>1 DEF BusPart, Coming
<1>4. InLine'
  BY <1>1 DEF BusPart, InLine
<1>5. InOrder'
  BY DEF BusPart, InOrder, SameHandled
<1> QED BY <1>2, <1>3, <1>4, <1>5 DEF BusPart

(* A step that moves one thread, of which no message is pending then. *)
LEMMA MovedBus ==
    ASSUME ClientInv, NEW t \in Threads, NEW l \in Locals, ~Pending(l), l.pc # "send",
           thread' = [thread EXCEPT ![t] = l], UNCHANGED <<inbox, sent>>, SameHandled
    PROVE  /\ BusPart'
           /\ thread' \in [Threads -> Locals] /\ thread'[t] = l
           /\ \A u \in Threads : u # t => thread'[u] = thread[u]
<1>1. /\ thread'[t] = l /\ \A u \in Threads : u # t => thread'[u] = thread[u]
      /\ thread' \in [Threads -> Locals]
  BY DEF ClientInv, ClientShape
<1>2. \A u \in Threads : Taken(u)' \subseteq Taken(u)
  BY <1>1 DEF Taken
<1> QED BY <1>1, <1>2, NothingNew DEF ClientInv

LEMMA HandledSame ==
    ASSUME ClientInv, handled' = handled
    PROVE  SameHandled
BY DEF ClientInv, ClientShape, SameHandled

LEMMA ClientUnchanged ==
    ASSUME ClientInv,
           UNCHANGED <<handlers, holder, poisoned, thread, inbox, sent, registered, handled, subscriptions>>
    PROVE  ClientInv'
<1>1. SameHandled /\ \A t \in Threads : Taken(t)' = Taken(t)
  BY HandledSame DEF Taken
<1>2. BusPart'
  BY <1>1, NothingNew DEF ClientInv
<1>3. ClientShape'
  BY DEF ClientInv, ClientShape
<1>4. Settled' /\ Exclusive'
  BY DEF ClientInv, Settled, Exclusive
<1> QED BY <1>2, <1>3, <1>4 DEF ClientInv

LEMMA IdleThread ==
    /\ Sdk!Idle \in Locals /\ Sdk!Idle.pc = "idle"
    /\ \A m \in Methods \cup {None} :
          LET l == [Sdk!Idle EXCEPT !.pc = "lock", !.op = "register", !.method = m]
          IN  l \in Locals /\ l.pc = "lock" /\ l.op = "register" /\ l.method = m
    /\ [Sdk!Idle EXCEPT !.pc = "panicked"] \in Locals /\ [Sdk!Idle EXCEPT !.pc = "panicked"].pc = "panicked"
<1>1. <<>> \in Seq(Threads)
  OBVIOUS
<1> QED BY <1>1 DEF Sdk!Idle, Locals

(* The registry is as it was. *)
LEMMA MovedInv ==
    ASSUME ClientInv, NEW t \in Threads, NEW l \in Locals, ~Pending(l), l.pc # "send", Named(l),
           thread' = [thread EXCEPT ![t] = l],
           l.pc \in {"handler", "stuck"} => thread[t].pc \in {"handler", "stuck"},
           UNCHANGED <<handlers, holder, poisoned, inbox, sent, registered, handled, subscriptions>>
    PROVE  ClientInv'
<1>1. SameHandled
  BY HandledSame
<1>2. /\ BusPart' /\ thread' \in [Threads -> Locals] /\ thread'[t] = l
      /\ \A u \in Threads : u # t => thread'[u] = thread[u]
  BY <1>1, MovedBus
<1>3. ClientShape'
  BY <1>2 DEF ClientInv, ClientShape, Named, Pending, Of
<1>4. Settled'
  BY DEF ClientInv, Settled
<1>5. Exclusive'
  BY <1>2 DEF ClientInv, Exclusive
<1> QED BY <1>2, <1>3, <1>4, <1>5 DEF ClientInv

(* Whoever registers first stays the first. *)
LEMMA RegisterInv ==
    ASSUME NoThread, ClientInv, NEW t \in Threads, Sdk!Register(t)
    PROVE  ClientInv'
<1> DEFINE m == thread[t].method
           x == <<t, m>>
           n == Len(registered)
<1>1. /\ thread[t].pc = "lock" /\ thread' = [thread EXCEPT ![t] = Sdk!Idle]
      /\ registered' = Append(registered, x)
      /\ handlers' = IF handlers[m] # None THEN handlers ELSE [handlers EXCEPT ![m] = t]
      /\ UNCHANGED <<holder, poisoned, inbox, sent, handled, subscriptions>>
  BY DEF Sdk!Register, Sdk!At, Sdk!Goto, Sdk!NotBus
<1>2. m \in Methods /\ x \in Threads \X Methods
  BY <1>1 DEF ClientInv, ClientShape, Named
<1>3. Sdk!Idle \in Locals /\ Sdk!Idle.pc = "idle" /\ ~Pending(Sdk!Idle) /\ Named(Sdk!Idle)
  BY IdleThread DEF Pending, Named
<1>4. SameHandled
  BY <1>1, HandledSame
<1>5. /\ BusPart' /\ thread' \in [Threads -> Locals] /\ thread'[t] = Sdk!Idle
      /\ \A u \in Threads : u # t => thread'[u] = thread[u]
  BY <1>1, <1>3, <1>4, MovedBus
<1>6. /\ registered \in Seq(Threads \X Methods) /\ n \in Nat /\ DOMAIN registered = 1 .. n
      /\ registered' \in Seq(Threads \X Methods) /\ DOMAIN registered' = 1 .. n + 1
      /\ registered'[n + 1] = x /\ \A k \in 1 .. n : registered'[k] = registered[k]
  BY <1>1, <1>2, AppendProperties, LenProperties DEF ClientInv, ClientShape
<1>7. handlers \in [Methods -> Threads \cup {None}] /\ handlers' \in [Methods -> Threads \cup {None}]
  BY <1>1, <1>2 DEF ClientInv, ClientShape
<1>8. ClientShape'
  BY <1>1, <1>3, <1>5, <1>6, <1>7 DEF ClientInv, ClientShape, Named, Pending, Of
<1>9. ASSUME NEW u, NEW k \in Methods, Foremost(registered, u, k) PROVE Foremost(registered', u, k)
  <2>1. PICK i \in 1 .. n : registered[i] = <<u, k>> /\ \A j \in 1 .. i - 1 : registered[j][2] # k
    BY <1>6, <1>9 DEF Foremost
  <2>2. i \in 1 .. n + 1 /\ \A j \in 1 .. i - 1 : j \in 1 .. n
    BY <1>6
  <2> QED BY <1>6, <2>1, <2>2 DEF Foremost
<1>10. ASSUME NEW k \in Methods
       PROVE  IF handlers'[k] = None THEN \A i \in DOMAIN registered' : registered'[i][2] # k
              ELSE Foremost(registered', handlers'[k], k)
  <2>1. CASE handlers[k] # None
    <3>1. Foremost(registered, handlers[k], k) /\ handlers'[k] = handlers[k]
      BY <1>1, <1>2, <1>7, <2>1 DEF ClientInv, Settled
    <3>2. Foremost(registered', handlers[k], k)
      BY <1>9, <3>1
    <3> QED BY <2>1, <3>1, <3>2 DEF Foremost
  <2>2. CASE handlers[k] = None /\ k # m
    <3>1. handlers'[k] = None /\ \A i \in 1 .. n : registered[i][2] # k
      BY <1>1, <1>6, <1>7, <2>2 DEF ClientInv, Settled
    <3>2. \A i \in 1 .. n + 1 : i \in 1 .. n \/ i = n + 1
      BY <1>6
    <3> QED BY <1>6, <2>2, <3>1, <3>2
  <2>3. CASE handlers[k] = None /\ k = m
    <3>1. handlers'[k] = t /\ t # None /\ \A i \in 1 .. n : registered[i][2] # k
      BY <1>1, <1>2, <1>6, <1>7, <2>3 DEF ClientInv, Settled, NoThread
    <3>2. n + 1 \in 1 .. n + 1 /\ \A j \in 1 .. (n + 1) - 1 : j \in 1 .. n
      BY <1>6
    <3>3. Foremost(registered', t, k)
      BY <1>6, <2>3, <3>1, <3>2 DEF Foremost
    <3> QED BY <3>1, <3>3 DEF Foremost
  <2> QED BY <2>1, <2>2, <2>3
<1>11. \A i \in DOMAIN handled : handlers'[handled[i].method] = handled[i].handler
  <2>1. ASSUME NEW i \in DOMAIN handled
        PROVE  handlers'[handled[i].method] = handled[i].handler
    <3>1. handled[i] \in Handling
      BY LenProperties, ElementOfSeq DEF ClientInv, ClientShape
    <3>2. handlers[handled[i].method] = handled[i].handler /\ handled[i].handler # None
      BY <3>1 DEF ClientInv, Settled, Handling, NoThread
    <3> QED BY <1>1, <1>2, <1>7, <3>1, <3>2 DEF Handling
  <2> QED BY <2>1
<1>12. Settled'
  BY <1>1, <1>10, <1>11 DEF Settled
<1>13. Exclusive'
  BY <1>1, <1>3, <1>5 DEF ClientInv, Exclusive
<1> QED BY <1>5, <1>8, <1>12, <1>13 DEF ClientInv

LEMMA RegistryInv ==
    ASSUME NoThread, ClientInv, NEW t \in Threads,
           (\E m \in Methods : Sdk!register_handler(t, m)) \/ Sdk!Unwrap(t)
    PROVE  ClientInv'
<1>1. ASSUME NEW m \in Methods, Sdk!register_handler(t, m) PROVE ClientInv'
  <2> DEFINE l == [Sdk!Idle EXCEPT !.pc = "lock", !.op = "register", !.method = m]
  <2>1. /\ thread' = [thread EXCEPT ![t] = l]
        /\ UNCHANGED <<handlers, holder, poisoned, inbox, sent, registered, handled, subscriptions>>
    BY <1>1 DEF Sdk!register_handler, Sdk!Goto, Sdk!NotBus
  <2>2. l \in Locals /\ l.pc = "lock" /\ l.op = "register" /\ l.method = m
    BY IdleThread
  <2> HIDE DEF l
  <2>3. ~Pending(l) /\ Named(l)
    BY <2>2 DEF Pending, Named
  <2> QED BY <2>1, <2>2, <2>3, MovedInv
<1>2. CASE Sdk!Unwrap(t)
  <2> DEFINE l == [Sdk!Idle EXCEPT !.pc = "panicked"]
  <2>1. /\ thread' = [thread EXCEPT ![t] = l]
        /\ UNCHANGED <<handlers, holder, poisoned, inbox, sent, registered, handled, subscriptions>>
    BY <1>2 DEF Sdk!Unwrap, Sdk!Goto, Sdk!NotBus
  <2>2. l \in Locals /\ l.pc = "panicked"
    BY IdleThread
  <2> HIDE DEF l
  <2>3. ~Pending(l) /\ Named(l)
    BY <2>2 DEF Pending, Named
  <2> QED BY <2>1, <2>2, <2>3, MovedInv
<1> QED BY <1>1, <1>2

(* A handler that ends was the only one, and its message the last one. *)
LEMMA EndsInv ==
    ASSUME NoThread, ClientInv, NEW t \in Threads, thread[t].pc = "handler",
           NEW end \in {"returned", "panicked"}, NEW l \in Locals, l.pc \in {"idle", "panicked"},
           thread' = [thread EXCEPT ![t] = l], Sdk!Ends(t, end), holder' = None,
           poisoned' = (IF end = "panicked" THEN TRUE ELSE poisoned),
           UNCHANGED <<handlers, inbox, sent, registered, subscriptions>>
    PROVE  ClientInv'
<1> DEFINE Ended(i) == handled[i].thread = t /\ handled[i].end = "running"
           n == Len(handled)
<1>1. /\ handled \in Seq(Handling) /\ n \in Nat /\ DOMAIN handled = 1 .. n
      /\ \A i \in 1 .. n : handled[i] \in Handling
  BY LenProperties, ElementOfSeq DEF ClientInv, ClientShape
<1>2. handled' = [i \in 1 .. n |-> IF Ended(i) THEN [handled[i] EXCEPT !.end = end] ELSE handled[i]]
  BY <1>1 DEF Sdk!Ends
<1>3. ASSUME NEW i \in 1 .. n
      PROVE  /\ handled'[i] \in Handling /\ Of(handled'[i]) = Of(handled[i])
             /\ handled'[i].thread = handled[i].thread /\ handled'[i].handler = handled[i].handler
             /\ handled'[i].method = handled[i].method
             /\ handled'[i].end = IF Ended(i) THEN end ELSE handled[i].end
  <2> DEFINE e == handled[i]
  <2>1. e \in Handling
    BY <1>1
  <2>2. handled'[i] = IF Ended(i) THEN [e EXCEPT !.end = end] ELSE e
    BY <1>2
  <2> HIDE DEF e
  <2>3. LET f == [e EXCEPT !.end = end]
        IN  /\ f \in Handling /\ Of(f) = Of(e) /\ f.thread = e.thread /\ f.handler = e.handler
            /\ f.method = e.method /\ f.end = end
    BY <2>1 DEF Handling, Of
  <2> QED BY <2>1, <2>2, <2>3 DEF e
<1>4. handled' \in Seq(Handling) /\ DOMAIN handled' = 1 .. n /\ Len(handled') = n
  <2>1. handled' \in [1 .. n -> Handling] /\ DOMAIN handled' = 1 .. n
    BY <1>2, <1>3
  <2>2. handled' \in Seq(Handling)
    BY <1>1, <2>1, SeqDef
  <2> QED BY <1>1, <2>1, <2>2, LenProperties
<1>5. SameHandled
  BY <1>1, <1>3, <1>4 DEF SameHandled
<1>6. ~Pending(l) /\ l.pc # "send" /\ Named(l)
  BY DEF Pending, Named
<1>7. /\ BusPart' /\ thread' \in [Threads -> Locals] /\ thread'[t] = l
      /\ \A u \in Threads : u # t => thread'[u] = thread[u]
  BY <1>5, <1>6, MovedBus
<1>8. ClientShape'
  BY <1>4, <1>6, <1>7 DEF ClientInv, ClientShape, Named, Pending, Of
<1>9. Settled'
  BY <1>1, <1>3, <1>4 DEF ClientInv, Settled
<1>10. holder = t
  BY DEF ClientInv, Exclusive
<1>11. \A u \in Threads : thread'[u].pc \notin {"handler", "stuck"}
  BY <1>7, <1>10 DEF ClientInv, Exclusive
<1>12. ASSUME NEW i \in 1 .. n
       PROVE  /\ handled'[i].end # "returned" => i = n
              /\ handled'[i].end # "running"
              /\ handled'[i].end = "panicked" => poisoned'
  BY <1>1, <1>3, <1>10 DEF ClientInv, Exclusive
<1>13. Exclusive'
  BY <1>4, <1>11, <1>12 DEF Exclusive
<1> QED BY <1>7, <1>8, <1>9, <1>13 DEF ClientInv

LEMMA HandlerEndsInv ==
    ASSUME NoThread, ClientInv, NEW t \in Threads,
           Sdk!HandlerReturns(t) \/ Sdk!HandlerPanics(t) \/ Sdk!HandlerReenters(t)
    PROVE  ClientInv'
<1>1. thread[t].pc = "handler"
  BY DEF Sdk!HandlerReturns, Sdk!HandlerPanics, Sdk!HandlerReenters, Sdk!At
<1>2. CASE Sdk!HandlerReturns(t)
  <2>1. /\ thread' = [thread EXCEPT ![t] = Sdk!Idle] /\ Sdk!Ends(t, "returned") /\ holder' = None
        /\ UNCHANGED <<handlers, poisoned, inbox, sent, registered, subscriptions>>
    BY <1>2 DEF Sdk!HandlerReturns, Sdk!Goto, Sdk!NotBus
  <2> QED BY <1>1, <2>1, IdleThread, EndsInv
<1>3. CASE Sdk!HandlerPanics(t)
  <2> DEFINE l == [Sdk!Idle EXCEPT !.pc = "panicked"]
  <2>1. /\ thread' = [thread EXCEPT ![t] = l] /\ Sdk!Ends(t, "panicked") /\ holder' = None
        /\ poisoned' = TRUE /\ UNCHANGED <<handlers, inbox, sent, registered, subscriptions>>
    BY <1>3 DEF Sdk!HandlerPanics, Sdk!Goto, Sdk!NotBus
  <2>2. l \in Locals /\ l.pc = "panicked"
    BY IdleThread
  <2> HIDE DEF l
  <2> QED BY <1>1, <2>1, <2>2, EndsInv
<1>4. CASE Sdk!HandlerReenters(t)
  <2> DEFINE l == [thread[t] EXCEPT !.pc = "stuck"]
  <2>1. /\ thread' = [thread EXCEPT ![t] = l]
        /\ UNCHANGED <<handlers, holder, poisoned, inbox, sent, registered, handled, subscriptions>>
    BY <1>4 DEF Sdk!HandlerReenters, Sdk!Goto, Sdk!NotBus
  <2>2. thread[t] \in Locals
    BY DEF ClientInv, ClientShape
  <2>3. l \in Locals /\ l.pc = "stuck"
    BY <2>2 DEF Locals
  <2> HIDE DEF l
  <2>4. ~Pending(l) /\ Named(l)
    BY <2>3 DEF Pending, Named
  <2> QED BY <1>1, <2>1, <2>3, <2>4, MovedInv
<1> QED BY <1>2, <1>3, <1>4

--------------------------------------------------------------------------------
(* The steps that bring something new *)

LEMMA SubscribeInv ==
    ASSUME NoThread, ClientInv, NEW t \in Threads, Sdk!subscribe(t)
    PROVE  ClientInv'
<1>1. /\ subscriptions' = Append(subscriptions, t) /\ t \notin Sdk!Range(subscriptions)
      /\ UNCHANGED <<handlers, holder, poisoned, thread, inbox, sent, registered, handled>>
  BY DEF Sdk!subscribe
<1>2. t \notin ToSet(subscriptions)
  BY <1>1 DEF Sdk!Range, ToSet
<1>3. subscriptions' \in Seq(Threads) /\ Distinct(subscriptions')
  BY <1>1, <1>2, AppendProperties, DistinctAppend DEF ClientInv, ClientShape
<1>4. ClientShape'
  BY <1>1, <1>3 DEF ClientInv, ClientShape
<1>5. SameHandled /\ \A u \in Threads : Taken(u)' = Taken(u)
  BY <1>1, HandledSame DEF Taken
<1>6. BusPart'
  BY <1>1, <1>5, NothingNew DEF ClientInv
<1>7. Settled' /\ Exclusive'
  BY <1>1 DEF ClientInv, Settled, Exclusive
<1> QED BY <1>4, <1>6, <1>7 DEF ClientInv

(* A message that is published has a number above all others. *)
LEMMA PublishInv ==
    ASSUME NoThread, ClientInv, NEW t \in Threads, NEW version, NEW method \in Methods \cup {None},
           Sdk!publish(t, version, method)
    PROVE  ClientInv'
<1> DEFINE l == [Sdk!Idle EXCEPT !.pc = "send", !.method = method, !.by = t, !.id = sent + 1,
                                 !.to = subscriptions]
<1>1. /\ sent' = sent + 1 /\ sent \in Nat /\ thread[t].pc = "idle"
      /\ UNCHANGED <<handlers, holder, poisoned, inbox, registered, handled, subscriptions>>
      /\ UNCHANGED thread \/ (method # None /\ thread' = [thread EXCEPT ![t] = l])
  BY DEF Sdk!publish, Sdk!Goto, Sdk!At, ClientInv, ClientShape
<1>2. l \in Locals /\ l.pc = "send" /\ l.method = method /\ l.id = sent + 1 /\ l.to = subscriptions
  <2>1. subscriptions \in Seq(Threads) /\ sent + 1 \in Nat
    BY <1>1 DEF ClientInv, ClientShape
  <2> QED BY <2>1, IdleThread DEF Locals, Sdk!Idle
<1> HIDE DEF l
<1>3. /\ thread' \in [Threads -> Locals]
      /\ \A u \in Threads : thread'[u] = thread[u] \/ (u = t /\ thread'[u] = l /\ method # None)
  BY <1>1, <1>2 DEF ClientInv, ClientShape
<1>4. ~Pending(l) /\ (method # None => Named(l)) /\ ~Pending(thread[t])
  <2>1. Distinct(l.to)
    BY <1>2 DEF ClientInv, ClientShape
  <2> QED BY <1>1, <1>2, <2>1 DEF Pending, Named
<1>5. ClientShape'
  <2>1. sent' \in Nat
    BY <1>1
  <2>2. ASSUME NEW u \in Threads
        PROVE  Named(thread'[u])
    BY <1>2, <1>3, <1>4 DEF ClientInv, ClientShape
  <2> QED BY <1>1, <1>3, <2>1, <2>2 DEF ClientInv, ClientShape, Named, Pending, Of
<1>6. ASSUME NEW u \in Threads
      PROVE  /\ Taken(u)' = Taken(u) /\ Held(u)' = Held(u) /\ Past(u)' = Past(u)
             /\ \A x \in Past(u) \cup Held(u) : x.id \in Nat /\ x.id <= sent
  <2>1. Taken(u)' = Taken(u)
    BY <1>3, <1>4 DEF Taken
  <2>2. Held(u)' = Held(u) /\ Past(u)' = Past(u)
    BY <1>1, <2>1 DEF Held, Past
  <2>3. \A x \in Past(u) \cup Held(u) : x \in Message
    <3>1. \A i \in DOMAIN handled : Of(handled[i]) \in Message
      <4>1. \A i \in DOMAIN handled : handled[i] \in Handling
        BY LenProperties, ElementOfSeq DEF ClientInv, ClientShape
      <4> QED BY <4>1 DEF Handling, Of, Message
    <3>2. ToSet(inbox[u]) \subseteq Message
      BY ToSetType DEF ClientInv, ClientShape
    <3>3. Taken(u) \subseteq Message
      BY DEF Taken, ClientInv, ClientShape, Named
    <3> QED BY <3>1, <3>2, <3>3 DEF Past, Held
  <2> QED BY <2>1, <2>2, <2>3 DEF Message, ClientInv, BusPart, Numbered
<1>7. Numbered'
  <2>1. ASSUME NEW u \in Threads, thread'[u].pc = "send" PROVE thread'[u].id <= sent + 1
    <3>1. CASE thread'[u] = thread[u]
      <4>1. thread[u].id <= sent /\ thread[u].id \in Nat
        BY <2>1, <3>1 DEF ClientInv, BusPart, Numbered, ClientShape, Locals
      <4> QED BY <1>1, <3>1, <4>1
    <3>2. CASE thread'[u] = l
      BY <1>1, <1>2, <3>2
    <3> QED BY <1>3, <3>1, <3>2
  <2>2. \A u \in Threads : \A x \in Past(u) \cup Held(u) : x.id <= sent + 1
    BY <1>1, <1>6
  <2> QED BY <1>1, <1>6, <2>1, <2>2 DEF Numbered
<1>8. Coming'
  <2> SUFFICES ASSUME NEW p \in Threads, NEW u \in Threads, NEW x \in Past(u) \cup Held(u),
                      thread'[p].pc = "send", u \in ToSet(thread'[p].to), x.by = p
               PROVE  x.id < thread'[p].id
    BY <1>6 DEF Coming
  <2>1. CASE thread'[p] = thread[p]
    BY <2>1 DEF ClientInv, BusPart, Coming
  <2>2. CASE thread'[p] = l
    BY <1>1, <1>2, <1>6, <2>2
  <2> QED BY <1>3, <2>1, <2>2
<1>9. InLine' /\ InOrder'
  BY <1>1, <1>6 DEF ClientInv, BusPart, InLine, InOrder
<1>10. Settled'
  BY <1>1 DEF ClientInv, Settled
<1>11. Exclusive'
  <2>1. \A u \in Threads : thread'[u].pc \in {"handler", "stuck"} => thread'[u] = thread[u]
    BY <1>2, <1>3
  <2> QED BY <1>1, <2>1 DEF ClientInv, Exclusive
<1> QED BY <1>5, <1>7, <1>8, <1>9, <1>10, <1>11 DEF ClientInv, BusPart

LEMMA OrderedTail ==
    ASSUME NEW T, NEW s \in Seq(T), s # <<>>, NEW R, Ordered(s, R)
    PROVE  /\ Ordered(Tail(s), R)
           /\ \A y \in ToSet(Tail(s)) : <<Head(s), y>> \in R
<1> DEFINE n == Len(s)
<1>1. /\ n \in Nat \ {0} /\ DOMAIN s = 1 .. n /\ Head(s) = s[1]
      /\ DOMAIN Tail(s) = 1 .. n - 1 /\ \A i \in 1 .. n - 1 : Tail(s)[i] = s[i + 1]
  BY EmptySeq, HeadTailProperties, LenProperties
<1> HIDE DEF n
<1>2. \A i, j \in 1 .. n : i < j => <<s[i], s[j]>> \in R
  BY <1>1 DEF Ordered
<1>3. ASSUME NEW i \in 1 .. n - 1, NEW j \in 1 .. n - 1, i < j
      PROVE  <<Tail(s)[i], Tail(s)[j]>> \in R
  <2>1. i + 1 \in 1 .. n /\ j + 1 \in 1 .. n /\ i + 1 < j + 1
    BY <1>1, <1>3
  <2> QED BY <1>1, <1>2, <2>1
<1>4. ASSUME NEW i \in 1 .. n - 1 PROVE <<Head(s), Tail(s)[i]>> \in R
  <2>1. 1 \in 1 .. n /\ i + 1 \in 1 .. n /\ 1 < i + 1
    BY <1>1
  <2> QED BY <1>1, <1>2, <2>1
<1> QED BY <1>1, <1>3, <1>4 DEF Ordered, ToSet

(* The first message of the receiver becomes the one that is pending: the thread
   has the same ones, in the same order. *)
LEMMA ReceiveInv ==
    ASSUME NoThread, ClientInv, NEW t \in Threads, Sdk!Receive(t)
    PROVE  ClientInv'
<1> DEFINE q == inbox[t]
           x == Head(q)
           l == [pc |-> "lock", op |-> "dispatch", method |-> x.method, by |-> x.by, id |-> x.id, to |-> <<>>]
<1>1. /\ thread[t].pc = "idle" /\ q # <<>> /\ inbox' = [inbox EXCEPT ![t] = Tail(q)]
      /\ thread' = [thread EXCEPT ![t] = l]
      /\ UNCHANGED <<handlers, holder, poisoned, sent, registered, handled, subscriptions>>
  BY DEF Sdk!Receive, Sdk!At, Sdk!Goto
<1>2. q \in Seq(Message)
  BY DEF ClientInv, ClientShape
<1>3. /\ x \in Message /\ Tail(q) \in Seq(Message)
      /\ ToSet(q) = {x} \cup ToSet(Tail(q))
  BY <1>1, <1>2, HeadTailProperties, ToSetTail
<1>4. /\ l \in Locals /\ l.pc = "lock" /\ l.op = "dispatch" /\ l.method \in Methods /\ Of(l) = x
  <2>1. <<>> \in Seq(Threads)
    OBVIOUS
  <2> QED BY <1>3, <2>1 DEF Locals, Message, Of
<1> HIDE DEF l, x
<1>5. Pending(l) /\ Named(l) /\ ~Pending(thread[t])
  BY <1>1, <1>3, <1>4 DEF Pending, Named
<1>6. /\ thread' \in [Threads -> Locals] /\ thread'[t] = l /\ inbox' \in [Threads -> Seq(Message)]
      /\ inbox'[t] = Tail(q)
      /\ \A u \in Threads : u # t => thread'[u] = thread[u] /\ inbox'[u] = inbox[u]
  BY <1>1, <1>3, <1>4 DEF ClientInv, ClientShape
<1>7. ClientShape'
  <2>1. ASSUME NEW u \in Threads
        PROVE  Named(thread'[u])
    BY <1>4, <1>5, <1>6 DEF ClientInv, ClientShape
  <2> QED BY <1>1, <1>6, <2>1 DEF ClientInv, ClientShape, Named, Pending, Of
<1>8. ASSUME NEW u \in Threads
      PROVE  /\ Held(u)' = Held(u) /\ Past(u)' = Past(u)
             /\ thread'[u].pc = "send" => thread'[u] = thread[u]
  <2>1. Past(u)' = Past(u)
    BY <1>1 DEF Past
  <2>2. CASE u = t
    <3>1. Taken(t)' = {x} /\ Taken(t) = {}
      BY <1>4, <1>5, <1>6 DEF Taken
    <3> QED BY <1>3, <1>4, <1>6, <2>1, <2>2, <3>1 DEF Held
  <2>3. CASE u # t
    BY <1>6, <2>1, <2>3 DEF Held, Taken
  <2> QED BY <2>2, <2>3
<1>9. Numbered' /\ Coming'
  BY <1>1, <1>8 DEF ClientInv, BusPart, Numbered, Coming
<1>10. InLine'
  <2>1. Taken(t)' = {x}
    BY <1>4, <1>5, <1>6 DEF Taken
  <2>2. Ordered(q, Before)
    BY DEF ClientInv, BusPart, InLine
  <2>3. /\ Ordered(inbox'[t], Before)
        /\ \A y \in ToSet(inbox'[t]) : <<x, y>> \in Before
    BY <1>1, <1>2, <1>6, <2>2, OrderedTail DEF x
  <2>4. ASSUME NEW u \in Threads
        PROVE  /\ Ordered(inbox'[u], Before)
               /\ \A y \in Taken(u)', z \in ToSet(inbox'[u]) : <<y, z>> \in Before
    <3>1. CASE u = t
      BY <2>1, <2>3, <3>1
    <3>2. CASE u # t
      BY <1>6, <3>2 DEF ClientInv, BusPart, InLine, Taken
    <3> QED BY <3>1, <3>2
  <2>5. \A u \in Threads : \A y \in Past(u)', z \in Held(u)' : <<y, z>> \in Before
    BY <1>8 DEF ClientInv, BusPart, InLine
  <2> QED BY <2>4, <2>5 DEF InLine
<1>11. InOrder' /\ Settled'
  BY <1>1 DEF ClientInv, BusPart, InOrder, Settled
<1>12. Exclusive'
  BY <1>1, <1>4, <1>6 DEF ClientInv, Exclusive
<1> QED BY <1>7, <1>9, <1>10, <1>11, <1>12 DEF ClientInv, BusPart

(* What goes to a receiver comes after all that its thread has had of the
   publisher. *)
LEMMA SendInv ==
    ASSUME NoThread, ClientInv, NEW t \in Threads, Sdk!Send(t)
    PROVE  ClientInv'
<1> DEFINE k == thread[t]
           x == [method |-> k.method, by |-> t, id |-> k.id]
           l == [k EXCEPT !.to = Tail(@)]
           r == Head(k.to)
<1>1. /\ k \in Locals /\ k.pc = "send" /\ k.method \in Methods /\ k.id \in Nat
      /\ k.to \in Seq(Threads) /\ Distinct(k.to)
      /\ UNCHANGED <<handlers, holder, poisoned, sent, registered, handled, subscriptions>>
  <2>1. k \in Locals /\ Named(k)
    BY DEF ClientInv, ClientShape
  <2> QED BY <2>1 DEF Sdk!Send, Sdk!At, Named, Locals
<1>2. CASE k.to = <<>>
  <2>1. thread' = [thread EXCEPT ![t] = Sdk!Idle] /\ inbox' = inbox
    BY <1>2 DEF Sdk!Send, Sdk!Goto
  <2>2. Sdk!Idle \in Locals /\ Sdk!Idle.pc = "idle" /\ ~Pending(Sdk!Idle) /\ Named(Sdk!Idle)
    BY IdleThread DEF Pending, Named
  <2> QED BY <1>1, <2>1, <2>2, MovedInv
<1>3. CASE k.to # <<>>
  <2>1. /\ inbox' = [inbox EXCEPT ![r] = Append(@, x)]
        /\ thread' = [thread EXCEPT ![t] = l]
    BY <1>3 DEF Sdk!Send, Sdk!Goto
  <2>2. /\ r \in Threads /\ Tail(k.to) \in Seq(Threads) /\ Distinct(Tail(k.to))
        /\ r \notin ToSet(Tail(k.to)) /\ ToSet(k.to) = {r} \cup ToSet(Tail(k.to))
    BY <1>1, <1>3, HeadTailProperties, DistinctTail, ToSetTail
  <2>3. /\ l \in Locals /\ l.pc = "send" /\ l.method = k.method /\ l.id = k.id /\ l.to = Tail(k.to)
        /\ x \in Message /\ x.by = t /\ x.id = k.id
    BY <1>1, <2>2 DEF Locals, Message
  <2> HIDE DEF l, x
  <2>4. ~Pending(l) /\ Named(l) /\ ~Pending(k)
    BY <1>1, <2>2, <2>3 DEF Pending, Named
  <2>5. inbox[r] \in Seq(Message) /\ Append(inbox[r], x) \in Seq(Message)
    BY <2>2, <2>3, AppendProperties DEF ClientInv, ClientShape
  <2>6. /\ thread' \in [Threads -> Locals] /\ thread'[t] = l
        /\ \A u \in Threads : u # t => thread'[u] = thread[u]
        /\ inbox' \in [Threads -> Seq(Message)] /\ inbox'[r] = Append(inbox[r], x)
        /\ \A u \in Threads : u # r => inbox'[u] = inbox[u]
    BY <2>1, <2>2, <2>3, <2>5 DEF ClientInv, ClientShape
  <2>7. ClientShape'
    <3>1. ASSUME NEW u \in Threads
          PROVE  Named(thread'[u])
      BY <1>1, <2>2, <2>3, <2>4, <2>6 DEF ClientInv, ClientShape
    <3> QED BY <1>1, <2>6, <3>1 DEF ClientInv, ClientShape, Named, Pending, Of
  <2>8. ASSUME NEW u \in Threads
        PROVE  /\ Taken(u)' = Taken(u) /\ Past(u)' = Past(u)
               /\ Held(u)' = IF u = r THEN Held(u) \cup {x} ELSE Held(u)
    <3>1. Taken(u)' = Taken(u) /\ Past(u)' = Past(u)
      BY <1>1, <2>4, <2>6 DEF Taken, Past
    <3>2. ToSet(inbox'[r]) = ToSet(inbox[r]) \cup {x}
      BY <2>3, <2>5, <2>6, ToSetAppend
    <3> QED BY <2>6, <3>1, <3>2 DEF Held
  <2>9. ASSUME NEW y \in Past(r) \cup Held(r) PROVE <<y, x>> \in Before
    <3>1. r \in ToSet(k.to)
      BY <2>2
    <3>2. y.by = t => y.id < k.id
      BY <1>1, <2>2, <3>1 DEF ClientInv, BusPart, Coming
    <3>3. y \in Message
      <4>1. \A i \in DOMAIN handled : Of(handled[i]) \in Message
        <5>1. \A i \in DOMAIN handled : handled[i] \in Handling
          BY LenProperties, ElementOfSeq DEF ClientInv, ClientShape
        <5> QED BY <5>1 DEF Handling, Of, Message
      <4>2. ToSet(inbox[r]) \subseteq Message
        BY <2>5, ToSetType
      <4>3. Taken(r) \subseteq Message
        BY <2>2 DEF Taken, ClientInv, ClientShape, Named
      <4> QED BY <4>1, <4>2, <4>3 DEF Past, Held
    <3> QED BY <2>3, <3>2, <3>3 DEF Before
  <2>10. Numbered'
    <3>1. k.id <= sent
      BY <1>1 DEF ClientInv, BusPart, Numbered
    <3>2. ASSUME NEW u \in Threads, thread'[u].pc = "send" PROVE thread'[u].id <= sent
      BY <2>3, <2>6, <3>1, <3>2 DEF ClientInv, BusPart, Numbered
    <3>3. ASSUME NEW u \in Threads, NEW y \in Past(u)' \cup Held(u)' PROVE y.id <= sent
      BY <2>3, <2>8, <3>1, <3>3 DEF ClientInv, BusPart, Numbered
    <3> QED BY <1>1, <3>2, <3>3 DEF Numbered
  <2>11. Coming'
    <3> SUFFICES ASSUME NEW p \in Threads, NEW u \in Threads, NEW y \in Past(u)' \cup Held(u)',
                        thread'[p].pc = "send", u \in ToSet(thread'[p].to), y.by = p
                 PROVE  y.id < thread'[p].id
      BY DEF Coming
    <3>1. /\ thread[p].pc = "send" /\ u \in ToSet(thread[p].to) /\ thread'[p].id = thread[p].id
          /\ p = t => u # r
      BY <1>1, <2>2, <2>3, <2>6
    <3>2. y \in Past(u) \cup Held(u)
      BY <2>3, <2>8, <3>1
    <3> QED BY <3>1, <3>2 DEF ClientInv, BusPart, Coming
  <2>12. InLine'
    <3>1. ASSUME NEW u \in Threads
          PROVE  /\ Ordered(inbox'[u], Before)
                 /\ \A y \in Taken(u)', z \in ToSet(inbox'[u]) : <<y, z>> \in Before
                 /\ \A y \in Past(u)', z \in Held(u)' : <<y, z>> \in Before
      <4>1. /\ Ordered(inbox[u], Before)
            /\ \A y \in Taken(u), z \in ToSet(inbox[u]) : <<y, z>> \in Before
            /\ \A y \in Past(u), z \in Held(u) : <<y, z>> \in Before
        BY DEF ClientInv, BusPart, InLine
      <4>2. CASE u = r
        <5>1. \A y \in ToSet(inbox[r]) : <<y, x>> \in Before
          BY <2>9 DEF Held
        <5>2. Ordered(inbox'[r], Before) /\ ToSet(inbox'[r]) = ToSet(inbox[r]) \cup {x}
          BY <2>3, <2>5, <2>6, <4>1, <4>2, <5>1, OrderedAppend, ToSetAppend
        <5>3. \A y \in Taken(r) : <<y, x>> \in Before
          BY <2>9 DEF Held
        <5> QED BY <2>8, <2>9, <4>1, <4>2, <5>2, <5>3
      <4>3. CASE u # r
        BY <2>6, <2>8, <4>1, <4>3
      <4> QED BY <4>2, <4>3
    <3> QED BY <3>1 DEF InLine
  <2>13. InOrder' /\ Settled'
    BY <1>1 DEF ClientInv, BusPart, InOrder, Settled
  <2>14. Exclusive'
    BY <1>1, <2>3, <2>6 DEF ClientInv, Exclusive
  <2> QED BY <2>7, <2>10, <2>11, <2>12, <2>13, <2>14 DEF ClientInv, BusPart
<1> QED BY <1>2, <1>3

(* A message that is handled comes after all that its thread has handled, and
   nothing else is being handled. *)
LEMMA HandleInv ==
    ASSUME NoThread, ClientInv, NEW t \in Threads, Sdk!Dispatch(t),
           handlers[thread[t].method] # None
    PROVE  ClientInv'
<1> DEFINE k == thread[t]
           h == handlers[k.method]
           l == [k EXCEPT !.pc = "handler"]
           e == [thread |-> t, by |-> k.by, id |-> k.id, method |-> k.method, handler |-> h, end |-> "running"]
           n == Len(handled)
<1>1. /\ k.pc = "lock" /\ k.op = "dispatch" /\ holder = None /\ ~poisoned /\ holder' = t
      /\ thread' = [thread EXCEPT ![t] = l] /\ handled' = Append(handled, e)
      /\ UNCHANGED <<handlers, poisoned, inbox, sent, registered, subscriptions>>
  BY DEF Sdk!Dispatch, Sdk!At, Sdk!Goto, Sdk!NotBus
<1>2. /\ k \in Locals /\ Pending(k) /\ Of(k) \in Message /\ k.method \in Methods
      /\ h \in Threads
  <2>1. k \in Locals /\ Pending(k) /\ Named(k)
    BY <1>1 DEF ClientInv, ClientShape, Pending
  <2>2. k.method \in Methods /\ Of(k) \in Message
    BY <1>1, <2>1 DEF Named
  <2> QED BY <2>1, <2>2 DEF ClientInv, ClientShape
<1>3. /\ e \in Handling /\ Of(e) = Of(k) /\ e.thread = t /\ e.handler = h /\ e.method = k.method
      /\ e.end = "running"
  BY <1>2 DEF Handling, Of, Message
<1>4. l \in Locals /\ l.pc = "handler" /\ ~Pending(l) /\ Named(l)
  BY <1>2 DEF Locals, Pending, Named
<1> HIDE DEF l, e
<1>5. /\ thread' \in [Threads -> Locals] /\ thread'[t] = l
      /\ \A u \in Threads : u # t => thread'[u] = thread[u]
  BY <1>1, <1>4 DEF ClientInv, ClientShape
<1>6. /\ n \in Nat /\ DOMAIN handled = 1 .. n /\ DOMAIN handled' = 1 .. n + 1
      /\ Len(handled') = n + 1 /\ handled' \in Seq(Handling)
      /\ handled'[n + 1] = e /\ \A i \in 1 .. n : handled'[i] = handled[i]
      /\ \A i \in 1 .. n + 1 : i \in 1 .. n \/ i = n + 1
  <2>1. handled \in Seq(Handling)
    BY DEF ClientInv, ClientShape
  <2> QED BY <1>1, <1>3, <2>1, AppendProperties, LenProperties
<1>7. ClientShape'
  <2>1. ASSUME NEW u \in Threads
        PROVE  Named(thread'[u])
    BY <1>4, <1>5 DEF ClientInv, ClientShape
  <2> QED BY <1>1, <1>5, <1>6, <2>1 DEF ClientInv, ClientShape, Named, Pending, Of
<1>8. ASSUME NEW u \in Threads
      PROVE  /\ Past(u)' = IF u = t THEN Past(u) \cup {Of(k)} ELSE Past(u)
             /\ Taken(u)' = IF u = t THEN {} ELSE Taken(u)
  <2>1. {i \in DOMAIN handled' : handled'[i].thread = u}
          = {i \in DOMAIN handled : handled[i].thread = u} \cup (IF u = t THEN {n + 1} ELSE {})
    BY <1>3, <1>6
  <2>2. Past(u)' = {Of(handled'[i]) : i \in {j \in DOMAIN handled : handled[j].thread = u}}
                     \cup (IF u = t THEN {Of(e)} ELSE {})
    BY <1>6, <2>1 DEF Past
  <2>3. Past(u)' = IF u = t THEN Past(u) \cup {Of(k)} ELSE Past(u)
    BY <1>3, <1>6, <2>2 DEF Past
  <2>4. Taken(u)' = IF u = t THEN {} ELSE Taken(u)
    BY <1>4, <1>5 DEF Taken
  <2> QED BY <2>3, <2>4
<1>9. Taken(t) = {Of(k)}
  BY <1>2 DEF Taken
<1>10. \A u \in Threads : /\ Held(u)' \subseteq Held(u)
                          /\ Past(u)' \cup Held(u)' \subseteq Past(u) \cup Held(u)
                          /\ thread'[u].pc = "send" => thread'[u] = thread[u]
  BY <1>1, <1>4, <1>5, <1>8, <1>9 DEF Held
<1>11. Numbered' /\ Coming'
  BY <1>1, <1>10 DEF ClientInv, BusPart, Numbered, Coming
<1>12. InLine'
  <2>1. ASSUME NEW u \in Threads
        PROVE  /\ Ordered(inbox'[u], Before)
               /\ \A y \in Taken(u)', z \in ToSet(inbox'[u]) : <<y, z>> \in Before
               /\ \A y \in Past(u)', z \in Held(u)' : <<y, z>> \in Before
    <3>1. /\ Ordered(inbox[u], Before)
          /\ \A y \in Taken(u), z \in ToSet(inbox[u]) : <<y, z>> \in Before
          /\ \A y \in Past(u), z \in Held(u) : <<y, z>> \in Before
      BY DEF ClientInv, BusPart, InLine
    <3>2. CASE u = t
      <4>1. Taken(t)' = {} /\ Held(t)' = ToSet(inbox[t]) /\ Past(t)' = Past(t) \cup {Of(k)}
        BY <1>1, <1>8 DEF Held
      <4> QED BY <1>1, <1>9, <3>1, <3>2, <4>1 DEF Held
    <3>3. CASE u # t
      BY <1>1, <1>8, <3>1, <3>3 DEF Held
    <3> QED BY <3>2, <3>3
  <2> QED BY <2>1 DEF InLine
<1>13. InOrder'
  <2>1. ASSUME NEW i \in 1 .. n + 1, NEW j \in 1 .. n + 1, i < j, handled'[i].thread = handled'[j].thread
        PROVE  <<Of(handled'[i]), Of(handled'[j])>> \in Before
    <3>1. i \in 1 .. n
      BY <1>6, <2>1
    <3>2. CASE j \in 1 .. n
      BY <1>6, <2>1, <3>1, <3>2 DEF ClientInv, BusPart, InOrder
    <3>3. CASE j = n + 1
      <4>1. Of(handled[i]) \in Past(t) /\ Of(k) \in Held(t)
        BY <1>3, <1>6, <1>9, <2>1, <3>1, <3>3 DEF Past, Held
      <4>2. <<Of(handled[i]), Of(k)>> \in Before
        BY <4>1 DEF ClientInv, BusPart, InLine
      <4> QED BY <1>3, <1>6, <3>1, <3>3, <4>2
    <3> QED BY <1>6, <3>2, <3>3
  <2> QED BY <1>6, <2>1 DEF InOrder
<1>14. Settled'
  <2>1. \A i \in DOMAIN handled' : handlers[handled'[i].method] = handled'[i].handler
    BY <1>3, <1>6 DEF ClientInv, Settled
  <2> QED BY <1>1, <2>1 DEF ClientInv, Settled
<1>15. Exclusive'
  <2>1. \A i \in 1 .. n : handled[i].end = "returned"
    <3>1. ASSUME NEW i \in 1 .. n PROVE handled[i].end = "returned"
      <4>1. handled[i] \in Handling
        BY <1>6, LenProperties, ElementOfSeq DEF ClientInv, ClientShape
      <4>2. handled[i].end # "running" /\ handled[i].end # "panicked"
        BY <1>1, <1>6, <4>1 DEF ClientInv, Exclusive, Handling, NoThread
      <4> QED BY <4>1, <4>2 DEF Handling
    <3> QED BY <3>1
  <2>2. \A u \in Threads : thread'[u].pc \in {"handler", "stuck"} => u = t
    BY <1>1, <1>5 DEF ClientInv, Exclusive, NoThread
  <2> QED BY <1>1, <1>3, <1>6, <2>1, <2>2 DEF Exclusive
<1> QED BY <1>7, <1>11, <1>12, <1>13, <1>14, <1>15 DEF ClientInv, BusPart

LEMMA DispatchInv ==
    ASSUME NoThread, ClientInv, NEW t \in Threads, Sdk!Dispatch(t)
    PROVE  ClientInv'
<1>1. CASE handlers[thread[t].method] # None
  BY <1>1, HandleInv
<1>2. CASE handlers[thread[t].method] = None
  <2>1. /\ thread' = [thread EXCEPT ![t] = Sdk!Idle]
        /\ UNCHANGED <<handlers, holder, poisoned, inbox, sent, registered, handled, subscriptions>>
    BY <1>2 DEF Sdk!Dispatch, Sdk!Goto, Sdk!NotBus
  <2>2. Sdk!Idle \in Locals /\ Sdk!Idle.pc = "idle" /\ ~Pending(Sdk!Idle) /\ Named(Sdk!Idle)
    BY IdleThread DEF Pending, Named
  <2> QED BY <2>1, <2>2, MovedInv
<1> QED BY <1>1, <1>2

LEMMA ClientNext ==
    ASSUME NoThread, ClientInv, [Sdk!Next]_(Sdk!vars)
    PROVE  ClientInv'
<1>1. CASE UNCHANGED Sdk!vars
  BY <1>1, ClientUnchanged DEF Sdk!vars
<1>2. ASSUME NEW t \in Threads, Sdk!ThreadStep(t) PROVE ClientInv'
  BY <1>2, SendInv, ReceiveInv, RegistryInv, RegisterInv, DispatchInv, HandlerEndsInv DEF Sdk!ThreadStep
<1>3. ASSUME NEW t \in Threads, Sdk!memory_set(t, Sdk!Agent("1"), <<"k">>, "v") PROVE ClientInv'
  BY <1>3, ClientUnchanged DEF Sdk!memory_set
<1>4. CASE Sdk!Next
  BY <1>2, <1>3, <1>4, PublishInv, RegistryInv, SubscribeInv DEF Sdk!Next
<1> QED BY <1>1, <1>4

(* For any threads, methods and messages, and whichever handlers panic or call
   their client: every receiver handles the messages of a publisher once and in
   their order, all meet the first handler registered for their method, and none is
   handled while another is, or after a handler that panicked or called its client. *)
THEOREM ClientCorrect ==
    ASSUME NoThread
    PROVE  ServicesSpec => []ClientSound
<1> DEFINE Inv == part = "client" => ClientInv
<1>1. ServicesInit => Inv
  BY Begins, ClientInit
<1>2. Inv /\ [ServicesNext]_states => Inv'
  BY Moves, ClientNext
<1>3. Inv => ClientSound
  BY ClientInvHandles DEF ClientSound
<1> QED BY <1>1, <1>2, <1>3, PTL DEF ServicesSpec

--------------------------------------------------------------------------------
(* ConfigEngine: what sets leave of the files. *)

file == s1
settings == s2
context == s3
sets == s4
asked == s5
clash == s6
broken == s7
USE DEF file, settings, context, sets, asked, clash, broken

Modes == {"standard", "air-gapped", "bad"}
SetTo == {"info", "warn", "30", "7"} \cup Modes
Scalar == [type : {"string", "number"}, val : SetTo]
Document == [Set!Keys -> Scalar \cup {None}]
Setting == [pc : {"idle", "read", "truncate", "write"}, scope : Set!Scopes \cup {None},
            key : Set!Keys \cup {None}, val : SetTo \cup {None}, doc : Document]

(* None is no value, no scalar and no document. *)
NoSetting == None \notin Modes \cup Scalar \cup Document

(* A file that is missing says as much as one that is empty. *)
Whole(f) == IF f = None THEN Set!Empty ELSE f
Mode(doc) == IF doc["mode"] = None THEN "standard" ELSE doc["mode"].val

(* The document of a layer parses, unless a set broke it, and has the mode that
   was set. *)
Layer(scope, doc) ==
    /\ ~broken => Set!Parses(doc)
    /\ scope = "global" => Mode(doc) = IF asked = None THEN "standard" ELSE asked

(* As long as sets come one after the other: the file that nobody is writing is
   as it was left, and so is what a set that is writing has read. *)
Undisturbed ==
    /\ \A v, w \in Setters : settings[v].pc # "idle" /\ settings[w].pc # "idle" => v = w
    /\ \A w \in Setters :
          /\ settings[w].pc = "truncate" => settings[w].doc = Whole(file[settings[w].scope])
          /\ settings[w].pc = "write" => Layer(settings[w].scope, settings[w].doc)
    /\ \A scope \in Set!Scopes :
          (\A w \in Setters : settings[w].pc = "write" => settings[w].scope # scope)
              => Layer(scope, Whole(file[scope]))

SettingsShape ==
    /\ file \in [Set!Scopes -> Document \cup {None}]
    /\ settings \in [Setters -> Setting]
    /\ asked \in Modes \cup {None}
    /\ \A w \in Setters : settings[w].pc # "idle" =>
          /\ settings[w].scope \in Set!Scopes /\ settings[w].key \in Set!Keys
          /\ settings[w].val \in Set!Inputs[settings[w].key]

SettingsInv == SettingsShape /\ (~clash => Undisturbed)

LEMMA Documents ==
    ASSUME NoSetting
    PROVE  /\ Set!Empty \in Document /\ Set!Parses(Set!Empty) /\ Mode(Set!Empty) = "standard"
           /\ Set!Written \in Document /\ Set!Parses(Set!Written) /\ Mode(Set!Written) = "standard"
           /\ Set!NoCall \in Setting /\ Set!NoCall.pc = "idle"
<1>1. Set!Empty \in Document /\ \A k \in Set!Keys : Set!Empty[k] = None
  BY DEF Set!Empty, Document
<1>2. Set!Parses(Set!Empty) /\ Mode(Set!Empty) = "standard"
  BY <1>1 DEF Set!Parses, Set!WellFormed, Set!validate, Mode, Set!Keys
<1>3. Set!Written \in Document
  BY DEF Set!Written, Set!Text, Set!Number, Document, Scalar, SetTo, Modes, Set!Keys
<1>4. Set!Parses(Set!Written)
  <2>1. /\ Set!Written["log_level"] = Set!Text("info")
        /\ Set!Written["retention_days"] = Set!Number("30")
        /\ Set!Written["mode"] = Set!Text("standard")
    BY DEF Set!Written
  <2>2. \A v : /\ Set!Text(v).type = "string" /\ Set!Text(v).val = v
              /\ Set!Number(v).type = "number" /\ Set!Number(v).val = v
    BY DEF Set!Text, Set!Number
  <2>3. \A k \in Set!Keys : Set!Written[k] # None
    BY <1>3, <2>1 DEF NoSetting, Set!Keys, Set!Text, Set!Number, Scalar, SetTo, Modes
  <2>4. \A k \in Set!Keys : Set!Written[k].type = Set!Types[k] /\ Set!Written[k].val # "bad"
    BY <2>1, <2>2 DEF Set!Keys, Set!Types
  <2> QED BY <2>3, <2>4 DEF Set!Parses, Set!WellFormed, Set!validate
<1>5. Mode(Set!Written) = "standard"
  BY <1>3 DEF Mode, Set!Written, Set!Text, NoSetting, Scalar, SetTo, Modes
<1>6. Set!NoCall \in Setting /\ Set!NoCall.pc = "idle"
  BY <1>1 DEF Set!NoCall, Setting
<1> QED BY <1>1, <1>2, <1>3, <1>4, <1>5, <1>6

(* A set of a valid string, of a section that is complete, leaves a file that
   parses. *)
LEMMA KeyApplied ==
    ASSUME NoSetting, NEW doc \in Document, NEW k \in Set!Keys, NEW v \in Set!Inputs[k]
    PROVE  /\ Set!apply_key(doc, k, v) \in Document
           /\ Mode(Set!apply_key(doc, k, v)) = IF k = "mode" THEN v ELSE Mode(doc)
           /\ /\ Set!Parses(doc) /\ k # "retention_days" /\ v # "bad"
              /\ Set!Section[k] = "core" =>
                    \E j \in Set!Keys : Set!Section[j] = "core" /\ doc[j] # None
              => Set!Parses(Set!apply_key(doc, k, v))
<1> DEFINE new == Set!apply_key(doc, k, v)
<1>1. v \in SetTo /\ (k = "mode" => v \in Modes)
  BY DEF Set!Inputs, Set!Keys, SetTo, Modes
<1>2. /\ Set!Text(v) \in Scalar /\ Set!Text(v).type = "string" /\ Set!Text(v).val = v
      /\ Set!Text(v) # None
  BY <1>1 DEF Set!Text, Scalar, NoSetting
<1>3. /\ new \in Document /\ new[k] = Set!Text(v)
      /\ \A j \in Set!Keys : j # k => new[j] = doc[j]
  BY <1>2 DEF Set!apply_key, Document
<1> HIDE DEF new
<1>4. Mode(new) = IF k = "mode" THEN v ELSE Mode(doc)
  BY <1>2, <1>3 DEF Mode, Set!Keys
<1>5. ASSUME Set!Parses(doc), k # "retention_days", v # "bad",
             Set!Section[k] = "core" =>
                 \E j \in Set!Keys : Set!Section[j] = "core" /\ doc[j] # None
      PROVE  Set!Parses(new)
  <2>1. k \in {"log_level", "mode"} /\ Set!Types[k] = "string"
    BY <1>5 DEF Set!Keys, Set!Types
  <2>2. \A j \in Set!Keys : doc[j] # None => doc[j].type = Set!Types[j]
    BY <1>5 DEF Set!Parses, Set!WellFormed
  <2>3. \A j \in Set!Keys : new[j] # None => new[j].type = Set!Types[j]
    BY <1>2, <1>3, <2>1, <2>2
  <2>4. Set!validate(new)
    BY <1>2, <1>3, <1>5 DEF Set!Parses, Set!validate
  <2>5. k = "log_level" => doc["retention_days"] # None
    BY <1>5 DEF Set!Parses, Set!WellFormed, Set!Section, Set!Keys
  <2>6. ASSUME NEW i \in Set!Keys, NEW j \in Set!Keys, Set!Section[j] = Set!Section[i],
               new[j] # None
        PROVE  new[i] # None
    <3>1. CASE i = k
      BY <1>2, <1>3, <3>1
    <3>2. CASE i # k /\ j # k
      BY <1>3, <1>5, <2>6, <3>2 DEF Set!Parses, Set!WellFormed
    <3>3. CASE i # k /\ j = k
      BY <1>3, <2>1, <2>5, <2>6, <3>3 DEF Set!Section, Set!Keys
    <3> QED BY <3>1, <3>2, <3>3
  <2> QED BY <2>3, <2>4, <2>6 DEF Set!Parses, Set!WellFormed
<1> QED BY <1>3, <1>4, <1>5 DEF new

LEMMA SettingsInit ==
    ASSUME NoSetting, Set!Init
    PROVE  SettingsInv
<1>1. SettingsShape
  BY Documents DEF Set!Init, SettingsShape
<1>2. \A scope \in Set!Scopes : Whole(file[scope]) = Set!Empty
  BY DEF Set!Init, Whole
<1>3. Undisturbed
  BY <1>2, Documents DEF Set!Init, Undisturbed, Layer
<1> QED BY <1>1, <1>3 DEF SettingsInv

(* What a layer is judged by: whether a set broke a file, and the mode. *)
LEMMA SameLayers ==
    ASSUME broken' = broken, asked' = asked
    PROVE  \A scope, doc : Layer(scope, doc) => Layer(scope, doc)'
BY DEF Layer

LEMMA EditInv ==
    ASSUME NoSetting, SettingsInv, NEW scope \in Set!Scopes, Set!Edit(scope)
    PROVE  SettingsInv'
<1>1. /\ \A w \in Setters : settings[w].pc = "idle"
      /\ file' = [file EXCEPT ![scope] = Set!Written]
      /\ asked' = IF scope = "global" THEN "standard" ELSE asked
      /\ broken' = (broken /\ \E s \in Set!Scopes \ {scope} : ~Set!load_optional(s))
      /\ UNCHANGED <<settings, clash>>
  BY DEF Set!Edit, Set!Busy, Set!At
<1>2. SettingsShape'
  BY <1>1, Documents DEF SettingsInv, SettingsShape, Modes
<1>3. file'[scope] = Set!Written /\ \A s \in Set!Scopes : s # scope => file'[s] = file[s]
  BY <1>1 DEF SettingsInv, SettingsShape
<1>4. ASSUME ~clash PROVE Undisturbed'
  <2>1. \A s \in Set!Scopes : Layer(s, Whole(file[s]))
    BY <1>1, <1>4 DEF SettingsInv, Undisturbed
  <2>2. Whole(file'[scope]) = Set!Written
    BY <1>3, Documents DEF Whole, NoSetting
  <2>3. Layer(scope, Whole(file[scope]))'
    BY <1>1, <2>2, Documents DEF Layer, NoSetting, Modes
  <2>4. ASSUME NEW s \in Set!Scopes, s # scope PROVE Layer(s, Whole(file[s]))'
    <3>1. Set!load_optional(s) => Set!Parses(Whole(file[s]))
      BY Documents DEF Set!load_optional, Whole
    <3>2. ~broken' => Set!Parses(Whole(file[s]))
      BY <1>1, <2>1, <2>4, <3>1 DEF Layer
    <3>3. s = "global" => asked' = asked
      BY <1>1, <2>4
    <3>4. Whole(file'[s]) = Whole(file[s])
      BY <1>3, <2>4
    <3> QED BY <2>1, <3>2, <3>3, <3>4 DEF Layer
  <2> QED BY <1>1, <2>3, <2>4 DEF Undisturbed
<1> QED BY <1>1, <1>2, <1>4 DEF SettingsInv

LEMMA SetBegins ==
    ASSUME NoSetting, SettingsInv, NEW w \in Setters, NEW scope \in Set!Scopes,
           NEW k \in Set!Keys, NEW v \in Set!Inputs[k], Set!SetLoad(w, scope, k, v)
    PROVE  SettingsInv'
<1> DEFINE c == [Set!NoCall EXCEPT !.pc = "read", !.scope = scope, !.key = k, !.val = v]
<1>1. /\ settings[w].pc = "idle" /\ settings' = [settings EXCEPT ![w] = c]
      /\ clash' = (clash \/ \E u \in Setters : settings[u].pc # "idle")
      /\ UNCHANGED <<file, asked, broken>>
  BY DEF Set!SetLoad, Set!Busy, Set!At, Set!UnchangedHistory
<1>2. v \in SetTo
  BY DEF Set!Inputs, Set!Keys, SetTo, Modes
<1>3. c \in Setting /\ c.pc = "read" /\ c.scope = scope /\ c.key = k /\ c.val = v
  BY <1>2, Documents DEF Setting
<1> HIDE DEF c
<1>4. SettingsShape'
  BY <1>1, <1>3 DEF SettingsInv, SettingsShape
<1>5. settings'[w] = c /\ \A u \in Setters : u # w => settings'[u] = settings[u]
  BY <1>1 DEF SettingsInv, SettingsShape
<1>6. ASSUME ~clash' PROVE Undisturbed'
  BY <1>1, <1>3, <1>5, <1>6, SameLayers DEF SettingsInv, Undisturbed
<1> QED BY <1>4, <1>6 DEF SettingsInv

LEMMA SetReads ==
    ASSUME NoSetting, SettingsInv, NEW w \in Setters, Set!SetRead(w)
    PROVE  SettingsInv'
<1> DEFINE doc == Whole(file[settings[w].scope])
           c == [settings[w] EXCEPT !.pc = "truncate", !.doc = doc]
<1>1. /\ settings[w].pc = "read" /\ settings' = [settings EXCEPT ![w] = c]
      /\ UNCHANGED <<file, asked, clash, broken>>
  BY DEF Set!SetRead, Set!At, Set!UnchangedHistory, Whole
<1>2. settings[w] \in Setting /\ settings[w].scope \in Set!Scopes
  BY <1>1 DEF SettingsInv, SettingsShape
<1>3. doc \in Document
  BY <1>2, Documents DEF SettingsInv, SettingsShape, Whole
<1>4. /\ c \in Setting /\ c.pc = "truncate" /\ c.doc = doc
      /\ c.scope = settings[w].scope /\ c.key = settings[w].key /\ c.val = settings[w].val
  BY <1>2, <1>3 DEF Setting
<1> HIDE DEF c
<1>5. settings'[w] = c /\ \A u \in Setters : u # w => settings'[u] = settings[u]
  BY <1>1 DEF SettingsInv, SettingsShape
<1>6. SettingsShape'
  BY <1>1, <1>4, <1>5 DEF SettingsInv, SettingsShape
<1>7. ASSUME ~clash' PROVE Undisturbed'
  BY <1>1, <1>4, <1>5, <1>7, SameLayers DEF SettingsInv, Undisturbed
<1> QED BY <1>6, <1>7 DEF SettingsInv

LEMMA SetTruncates ==
    ASSUME NoSetting, SettingsInv, NEW w \in Setters, Set!SetTruncate(w)
    PROVE  SettingsInv'
<1> DEFINE c == [settings[w] EXCEPT !.pc = "write"]
           scope == settings[w].scope
<1>1. /\ settings[w].pc = "truncate" /\ settings' = [settings EXCEPT ![w] = c]
      /\ file' = [file EXCEPT ![scope] = Set!Empty]
      /\ UNCHANGED <<asked, clash, broken>>
  BY DEF Set!SetTruncate, Set!At, Set!UnchangedHistory
<1>2. settings[w] \in Setting /\ scope \in Set!Scopes
  BY <1>1 DEF SettingsInv, SettingsShape
<1>3. /\ c \in Setting /\ c.pc = "write" /\ c.doc = settings[w].doc
      /\ c.scope = scope /\ c.key = settings[w].key /\ c.val = settings[w].val
  BY <1>2 DEF Setting
<1> HIDE DEF c
<1>4. /\ settings'[w] = c /\ \A u \in Setters : u # w => settings'[u] = settings[u]
      /\ \A s \in Set!Scopes : s # scope => file'[s] = file[s]
  BY <1>1 DEF SettingsInv, SettingsShape
<1>5. SettingsShape'
  BY <1>1, <1>2, <1>3, <1>4, Documents DEF SettingsInv, SettingsShape
<1>6. ASSUME ~clash' PROVE Undisturbed'
  <2>1. \A u \in Setters : u # w => settings[u].pc = "idle"
    BY <1>1, <1>6 DEF SettingsInv, Undisturbed
  <2>2. Layer(scope, settings[w].doc)
    BY <1>1, <1>2, <1>6, <2>1 DEF SettingsInv, Undisturbed
  <2>3. ASSUME NEW s \in Set!Scopes, s # scope PROVE Layer(s, Whole(file[s]))'
    BY <1>1, <1>4, <1>6, <2>1, <2>3, SameLayers DEF SettingsInv, Undisturbed
  <2> QED BY <1>1, <1>3, <1>4, <2>1, <2>2, <2>3, SameLayers DEF Undisturbed
<1> QED BY <1>5, <1>6 DEF SettingsInv

LEMMA SetWrites ==
    ASSUME NoSetting, SettingsInv, NEW w \in Setters, Set!SetWrite(w)
    PROVE  SettingsInv'
<1> DEFINE c == settings[w]
           new == Set!apply_key(c.doc, c.key, c.val)
<1>1. /\ c.pc = "write" /\ settings' = [settings EXCEPT ![w] = Set!NoCall]
      /\ file' = [file EXCEPT ![c.scope] = new]
      /\ asked' = IF c.scope = "global" /\ c.key = "mode" THEN c.val ELSE asked
      /\ broken' = (\/ broken \/ c.key = "retention_days" \/ c.val = "bad"
                    \/ Set!Section[c.key] = "core"
                       /\ \A k \in Set!Keys : Set!Section[k] = "core" => c.doc[k] = None)
      /\ UNCHANGED clash
  BY DEF Set!SetWrite, Set!At
<1>2. c \in Setting /\ c.scope \in Set!Scopes /\ c.key \in Set!Keys /\ c.val \in Set!Inputs[c.key]
  BY <1>1 DEF SettingsInv, SettingsShape
<1>3. c.doc \in Document /\ (c.key = "mode" => c.val \in Modes)
  BY <1>2 DEF Setting, Set!Inputs, Modes
<1>4. /\ new \in Document
      /\ Mode(new) = IF c.key = "mode" THEN c.val ELSE Mode(c.doc)
      /\ ~broken' /\ Set!Parses(c.doc) => Set!Parses(new)
  BY <1>1, <1>2, <1>3, KeyApplied
<1> HIDE DEF new
<1>5. /\ settings'[w] = Set!NoCall /\ \A u \in Setters : u # w => settings'[u] = settings[u]
      /\ file'[c.scope] = new /\ \A s \in Set!Scopes : s # c.scope => file'[s] = file[s]
  BY <1>1, <1>2 DEF SettingsInv, SettingsShape
<1>6. SettingsShape'
  BY <1>1, <1>2, <1>3, <1>4, <1>5, Documents DEF SettingsInv, SettingsShape
<1>7. ASSUME ~clash' PROVE Undisturbed'
  <2>1. \A u \in Setters : u # w => settings[u].pc = "idle"
    BY <1>1, <1>7 DEF SettingsInv, Undisturbed
  <2>2. Layer(c.scope, c.doc)
    BY <1>1, <1>7 DEF SettingsInv, Undisturbed
  <2>3. Whole(file'[c.scope]) = new
    BY <1>4, <1>5 DEF Whole, NoSetting
  <2>4. ASSUME NEW s \in Set!Scopes, s = c.scope PROVE Layer(s, Whole(file[s]))'
    <3>1. ~broken' => Set!Parses(new)
      BY <1>1, <1>4, <2>2 DEF Layer
    <3>2. c.key = "mode" => c.val # None
      BY <1>3 DEF NoSetting
    <3>3. s = "global" => Mode(new) = IF asked' = None THEN "standard" ELSE asked'
      BY <1>1, <1>4, <2>2, <2>4, <3>2 DEF Layer
    <3> QED BY <2>3, <2>4, <3>1, <3>3 DEF Layer
  <2>5. ASSUME NEW s \in Set!Scopes, s # c.scope PROVE Layer(s, Whole(file[s]))'
    <3>1. Layer(s, Whole(file[s]))
      BY <1>1, <1>7, <2>1, <2>5 DEF SettingsInv, Undisturbed
    <3>2. (s = "global" => asked' = asked) /\ (~broken' => ~broken)
      BY <1>1, <2>5
    <3> QED BY <1>5, <2>5, <3>1, <3>2 DEF Layer
  <2>6. \A u \in Setters : settings'[u].pc = "idle"
    BY <1>5, <2>1, Documents
  <2>7. \A s \in Set!Scopes : Layer(s, Whole(file[s]))'
    BY <2>4, <2>5
  <2> QED BY <2>6, <2>7 DEF Undisturbed
<1> QED BY <1>6, <1>7 DEF SettingsInv

LEMMA SetDiesInv ==
    ASSUME NoSetting, SettingsInv, NEW w \in Setters, Set!SetDies(w)
    PROVE  SettingsInv'
<1>1. /\ settings[w].pc # "idle" /\ settings' = [settings EXCEPT ![w] = Set!NoCall]
      /\ clash' = (clash \/ settings[w].pc = "write") /\ UNCHANGED <<file, asked, broken>>
  BY DEF Set!SetDies, Set!At, Set!UnchangedHistory
<1>2. settings'[w] = Set!NoCall /\ \A u \in Setters : u # w => settings'[u] = settings[u]
  BY <1>1 DEF SettingsInv, SettingsShape
<1>3. SettingsShape'
  BY <1>1, <1>2, Documents DEF SettingsInv, SettingsShape
<1>4. ASSUME ~clash' PROVE Undisturbed'
  <2>1. \A u \in Setters : settings'[u].pc = "idle" /\ settings[u].pc # "write"
    BY <1>1, <1>2, <1>4, Documents DEF SettingsInv, Undisturbed
  <2> QED BY <1>1, <1>4, <2>1, SameLayers DEF SettingsInv, Undisturbed
<1> QED BY <1>3, <1>4 DEF SettingsInv

LEMMA SettingsNext ==
    ASSUME NoSetting, SettingsInv, [Set!Next]_(Set!vars)
    PROVE  SettingsInv'
<1>1. ASSUME UNCHANGED <<file, settings, asked, clash, broken>> PROVE SettingsInv'
  BY <1>1, SameLayers DEF SettingsInv, SettingsShape, Undisturbed
<1>2. CASE UNCHANGED Set!vars
  BY <1>1, <1>2 DEF Set!vars
<1>3. CASE Set!initialize \/ Set!DaemonEnds
  BY <1>1, <1>3 DEF Set!initialize, Set!DaemonEnds, Set!UnchangedHistory
<1>4. CASE Set!Next
  BY <1>3, <1>4, EditInv, SetBegins, SetReads, SetTruncates, SetWrites, SetDiesInv DEF Set!Next
<1> QED BY <1>2, <1>4

LEMMA SettingsHold ==
    ASSUME NoSetting, SettingsInv
    PROVE  Set!LoadsUnlessSet /\ Set!ModeKept
<1>1. ASSUME NEW scope \in Set!Scopes, Set!Parses(Whole(file[scope]))
      PROVE  Set!load_optional(scope)
  BY <1>1 DEF Whole, Set!load_optional
<1>2. Set!LoadsUnlessSet
  BY <1>1 DEF SettingsInv, Undisturbed, Layer, Set!LoadsUnlessSet, Set!load, Set!Busy, Set!At
<1>3. ASSUME ~clash, \A w \in Setters : settings[w].pc # "write"
      PROVE  Set!merged.mode = IF asked = None THEN "standard" ELSE asked
  <2>1. "global" \in Set!Scopes /\ file["global"] \in Document \cup {None}
    BY DEF Set!Scopes, SettingsInv, SettingsShape
  <2>2. Mode(Whole(file["global"])) = IF asked = None THEN "standard" ELSE asked
    BY <1>3, <2>1 DEF SettingsInv, Undisturbed, Layer
  <2>3. "mode" \in Set!Keys /\ Set!Default["mode"] = "standard"
    BY DEF Set!Keys, Set!Default
  <2>4. CASE file["global"] = None
    <3>1. Set!merged.mode = "standard"
      BY <2>3, <2>4 DEF Set!merged, Set!Default
    <3> QED BY <2>2, <2>4, <3>1, Documents DEF Whole
  <2>5. CASE file["global"] # None
    BY <2>2, <2>3, <2>5 DEF Whole, Mode, Set!merged, Set!parse
  <2> QED BY <2>4, <2>5
<1>4. Set!ModeKept
  BY <1>3 DEF Set!ModeKept, Set!At
<1> QED BY <1>2, <1>4

(* The manifest parser. *)

doc == s1
accepted == s2      \* manifest
USE DEF doc, accepted

(* None is no text, no limit and no number. *)
NoField == None \notin Man!Texts \cup Man!Limits \cup Man!Privacy \cup Nat

(* The manifest is what the parser makes of a document. *)
ManifestInv == accepted = {} \/ \E d \in Man!Documents : accepted = Man!parse(d)

LEMMA ManifestNext ==
    ASSUME ManifestInv, [Man!Next]_(Man!vars)
    PROVE  ManifestInv'
BY DEF ManifestInv, Man!Next, Man!vars

LEMMA ManifestWritten ==
    ASSUME NoField, ManifestInv
    PROVE  Man!WrittenBack
<1> SUFFICES ASSUME NEW m \in accepted, NEW d \in Man!to_toml(m) PROVE Man!parse(d) = {m}
  BY DEF Man!WrittenBack
<1>1. PICK e \in Man!Documents : accepted = Man!parse(e)
  BY DEF ManifestInv
<1>2. m = Man!Defaulted(e) /\ Man!Readable(e) /\ Man!validate(m)
  BY <1>1 DEF Man!parse
<1>3. d = Man!FieldsOf(m)
  BY DEF Man!to_toml
<1> DEFINE r == m.resources
<1>4. r = (IF Man!Given(e) THEN Man!Stated(e) ELSE Man!Resources) /\ m.privacy # None
      /\ m.name # None /\ m.version # None
  BY <1>2 DEF Man!Defaulted, Man!Readable, NoField, Man!Privacy
<1>5. r = <<r[1], r[2], r[3]>> /\ r[1] # None /\ r[2] # None /\ r[3] # None /\ r[1] <= 255
  <2>1. CASE Man!Given(e)
    BY <1>2, <1>4, <2>1 DEF Man!Readable, Man!Stated
  <2>2. CASE ~ Man!Given(e)
    BY <1>4, <2>2 DEF Man!Resources, NoField, Man!Limits
  <2> QED BY <2>1, <2>2
<1> HIDE DEF r
<1>6. /\ d.name = m.name /\ d.version = m.version /\ d.endpoint = m.endpoint
      /\ d.privacy = m.privacy /\ d.cpu = r[1] /\ d.memory = r[2] /\ d.fds = r[3]
  BY <1>3 DEF Man!FieldsOf, r
<1>7. Man!Stated(d) = r
  BY <1>5, <1>6 DEF Man!Stated
<1>8. Man!Given(d) /\ Man!Readable(d)
  BY <1>4, <1>5, <1>6, <1>7 DEF Man!Given, Man!Readable
<1>9. Man!Defaulted(d) = m
  <2>1. Man!Defaulted(d) = [name |-> m.name, version |-> m.version, endpoint |-> m.endpoint,
                            resources |-> r, privacy |-> m.privacy]
    BY <1>4, <1>6, <1>7, <1>8 DEF Man!Defaulted
  <2>2. m = [name |-> m.name, version |-> m.version, endpoint |-> m.endpoint,
             resources |-> m.resources, privacy |-> m.privacy]
    BY <1>2 DEF Man!Defaulted
  <2> QED BY <2>1, <2>2 DEF r
<1> QED BY <1>2, <1>8, <1>9 DEF Man!parse

(* For any number of processes that set keys or die while they do: configuration
   stops loading only after a set that reported success, and the mode that was
   set is the mode a daemon starts in.  And of any document: a manifest that is
   accepted is written to a document that is parsed to the same. *)
THEOREM SettingsCorrect ==
    ASSUME NoSetting, NoField
    PROVE  ServicesSpec => []SettingsSound
<1> DEFINE Inv == /\ part = "settings" => SettingsInv
                  /\ part = "manifest" => ManifestInv
<1>1. ServicesInit => Inv
  BY Begins, SettingsInit DEF Man!Init, ManifestInv
<1>2. Inv /\ [ServicesNext]_states => Inv'
  BY Moves, SettingsNext, ManifestNext
<1>3. Inv => SettingsSound
  BY SettingsHold, ManifestWritten DEF SettingsSound
<1> QED BY <1>1, <1>2, <1>3, PTL DEF ServicesSpec

--------------------------------------------------------------------------------
(* PatternDetector: what the rows say, and what the user said of them. *)

patterns == s1
action_log == s2
todo == s3
existing == s4
ids == s5
raced == s7
USE DEF patterns, action_log, todo, existing, ids, raced

Decisions == {"Accepted", "Declined"}
Recorded == UNION {ToSet(Trace[d]) : d \in Detectors}

(* What a process does is a sequence, and None is neither an id nor a decision. *)
TracesAreLists ==
    /\ \A d \in Detectors : Trace[d] \in Seq(Recorded)
    /\ None \notin Nat \cup Decisions /\ MaxId \in Nat

Pattern == [action_sequence : Pat!Sequences, occurrence_count : Nat,
            status : {"Detected"} \cup Decisions, expired : BOOLEAN]
Pair == Pat!Sequences \X Nat

PatternShape ==
    /\ ids \in 0 .. MaxId /\ DOMAIN patterns \subseteq 1 .. ids
    /\ patterns \in [DOMAIN patterns -> Pattern]
    /\ action_log \in [Detectors -> Nat]
    /\ \A d \in Detectors : action_log[d] <= Len(Trace[d])
    /\ todo \in [Detectors -> Seq(Pair)]
    /\ existing \in [Detectors -> SUBSET (Nat \cup {None})]
    /\ \A d \in Detectors : existing[d] # {} =>
          todo[d] # <<>> /\ (existing[d] = {None} \/ \E i \in 1 .. ids : existing[d] = {i})
    /\ decision \in [1 .. MaxId -> Decisions \cup {None}]

(* A process upserts what it has recorded. *)
Repeated(d, seq, count) == count >= 5 /\ Pat!Count(Pat!Log(d), seq) >= count
Repeats == \A d \in Detectors : \A p \in ToSet(todo[d]) : Repeated(d, p[1], p[2])
RowsTrue ==
    \A i \in DOMAIN patterns : \E d \in Detectors :
        Repeated(d, patterns[i].action_sequence, patterns[i].occurrence_count)

(* The row a process has found, as long as it is there, is that of its sequence. *)
Upserts(d, s) == existing[d] # {} /\ Head(todo[d])[1] = s
Looked ==
    \A d \in Detectors, i \in DOMAIN patterns :
        existing[d] = {i} => Head(todo[d])[1] = patterns[i].action_sequence

(* A row has the status that the user gave it; of an id that is not given out there
   is no decision. *)
Status(d) == IF d = None THEN "Detected" ELSE d
Heard ==
    /\ \A i \in DOMAIN patterns : patterns[i].status = Status(decision[i])
    /\ \A i \in 1 .. MaxId : i > ids => decision[i] = None

(* A sequence that processes do not race for, and that no look-up missed, has one
   row, and whoever has found no row will insert it. *)
Decided(s) ==
    /\ \A d, e \in Detectors : Upserts(d, s) /\ Upserts(e, s) => d = e
    /\ \A d \in Detectors : Upserts(d, s) /\ existing[d] = {None} => Pat!Rows(s) = {}
    /\ \A i, j \in Pat!Rows(s) : i = j

PatternInv ==
    /\ PatternShape /\ Repeats /\ RowsTrue /\ Looked /\ Heard
    /\ \A s \in Pat!Sequences \ raced : Decided(s)

LEMMA PatternOperators ==
    /\ \A S : Pat!Cardinality(S) = Cardinality(S)
    /\ \A f, S : Pat!Restrict(f, S) = [x \in S |-> f[x]]
    /\ \A S, T : Pat!Bijection(S, T) \subseteq [S -> T]
<1>1. \A S : Pat!Cardinality(S) = Cardinality(S)
  BY DEF Pat!Cardinality, Cardinality
<1> QED BY <1>1 DEF Pat!Restrict, Pat!Bijection, Pat!Injection

(* How often a sequence is in a log is a number. *)
LEMMA CountType ==
    ASSUME NEW T, NEW log \in Seq(T), NEW seq, Len(seq) \in Nat
    PROVE  Pat!Count(log, seq) \in Nat
<1> DEFINE A == {i \in 0 .. (Len(log) - Len(seq)) : SubSeq(log, i + 1, i + Len(seq)) = seq}
<1>1. IsFiniteSet(A)
  <2>1. Len(log) - Len(seq) \in Int /\ 0 \in Int
    BY LenProperties
  <2>2. IsFiniteSet(0 .. (Len(log) - Len(seq)))
    BY <2>1, FS_Interval
  <2> QED BY <2>2, FS_Subset
<1>2. Cardinality(A) \in Nat
  BY <1>1, FS_CardinalityType
<1> QED BY <1>2, PatternOperators DEF Pat!Count

LEMMA WindowType ==
    ASSUME TracesAreLists, NEW d \in Detectors, NEW n \in 0 .. Len(Trace[d]), NEW k \in Nat,
           NEW seq \in Pat!Windows(SubSeq(Trace[d], 1, n), k)
    PROVE  /\ seq \in Seq(Recorded) /\ Len(seq) = k
           /\ seq \in Pat!Windows(Trace[d], k)
<1>1. Trace[d] \in Seq(Recorded) /\ Len(Trace[d]) \in Nat
  BY LenProperties DEF TracesAreLists
<1>2. Len(SubSeq(Trace[d], 1, n)) = n
  BY <1>1, PrefixWindow
<1>3. PICK i \in 0 .. (n - k) : seq = SubSeq(SubSeq(Trace[d], 1, n), i + 1, i + k)
  BY <1>2 DEF Pat!Windows
<1>4. i \in Nat /\ i + k <= n
  BY <1>1, <1>3
<1>5. /\ seq = SubSeq(Trace[d], i + 1, i + k) /\ seq \in Seq(Recorded) /\ Len(seq) = k
  BY <1>1, <1>3, <1>4, PrefixWindow
<1>6. i \in 0 .. (Len(Trace[d]) - k)
  BY <1>1, <1>4
<1> QED BY <1>5, <1>6 DEF Pat!Windows

LEMMA SequenceType ==
    ASSUME TracesAreLists, NEW seq \in Pat!Sequences
    PROVE  seq \in Seq(Recorded) /\ Len(seq) \in Nat
<1>0. PICK d \in Detectors : \E k \in 3 .. Len(Trace[d]) : seq \in Pat!Windows(Trace[d], k)
  BY DEF Pat!Sequences
<1>1. PICK k \in 3 .. Len(Trace[d]) : seq \in Pat!Windows(Trace[d], k)
  BY <1>0
<1>2. Trace[d] \in Seq(Recorded) /\ Len(Trace[d]) \in Nat /\ k \in Nat
  BY <1>1, LenProperties DEF TracesAreLists
<1>3. SubSeq(Trace[d], 1, Len(Trace[d])) = Trace[d] /\ Len(Trace[d]) \in 0 .. Len(Trace[d])
  BY <1>2, SubSeqFull
<1>4. seq \in Pat!Windows(SubSeq(Trace[d], 1, Len(Trace[d])), k)
  BY <1>1, <1>3
<1> QED BY <1>2, <1>3, <1>4, WindowType

(* A sequence is in a longer log at least as often. *)
LEMMA CountGrows ==
    ASSUME TracesAreLists, NEW d \in Detectors, NEW n \in Nat, n + 1 <= Len(Trace[d]),
           NEW seq \in Pat!Sequences
    PROVE  Pat!Count(SubSeq(Trace[d], 1, n + 1), seq) >= Pat!Count(SubSeq(Trace[d], 1, n), seq)
<1> DEFINE k == Len(seq)
           less == SubSeq(Trace[d], 1, n)
           more == SubSeq(Trace[d], 1, n + 1)
           A == {i \in 0 .. (n - k) : SubSeq(less, i + 1, i + k) = seq}
           B == {i \in 0 .. (n + 1 - k) : SubSeq(more, i + 1, i + k) = seq}
<1>1. /\ Trace[d] \in Seq(Recorded) /\ Len(Trace[d]) \in Nat /\ k \in Nat
      /\ n \in 0 .. Len(Trace[d]) /\ n + 1 \in 0 .. Len(Trace[d])
  BY LenProperties, SequenceType DEF TracesAreLists
<1>2. Len(less) = n /\ Len(more) = n + 1
  BY <1>1, PrefixWindow
<1>3. Pat!Count(less, seq) = Cardinality(A) /\ Pat!Count(more, seq) = Cardinality(B)
  <2> HIDE DEF less, more
  <2>1. \A log : Pat!Count(log, seq) =
            Cardinality({i \in 0 .. (Len(log) - k) : SubSeq(log, i + 1, i + k) = seq})
    BY PatternOperators DEF Pat!Count
  <2>2. A = {i \in 0 .. (Len(less) - k) : SubSeq(less, i + 1, i + k) = seq}
    BY <1>2
  <2>3. B = {i \in 0 .. (Len(more) - k) : SubSeq(more, i + 1, i + k) = seq}
    BY <1>2
  <2> HIDE DEF A, B
  <2> QED BY <2>1, <2>2, <2>3
<1>4. A \subseteq B
  <2> SUFFICES ASSUME NEW i \in 0 .. (n - k), SubSeq(less, i + 1, i + k) = seq
               PROVE  i \in 0 .. (n + 1 - k) /\ SubSeq(more, i + 1, i + k) = seq
    OBVIOUS
  <2>1. i \in Nat /\ i + k <= n /\ i + k <= n + 1 /\ i \in 0 .. (n + 1 - k)
    BY <1>1
  <2>2. SubSeq(less, i + 1, i + k) = SubSeq(Trace[d], i + 1, i + k)
    BY <1>1, <2>1, PrefixWindow
  <2>3. SubSeq(more, i + 1, i + k) = SubSeq(Trace[d], i + 1, i + k)
    BY <1>1, <2>1, PrefixWindow
  <2> QED BY <2>1, <2>2, <2>3
<1>5. IsFiniteSet(B)
  <2>1. 0 \in Int /\ n + 1 - k \in Int
    BY <1>1
  <2>2. IsFiniteSet(0 .. (n + 1 - k))
    BY <2>1, FS_Interval
  <2> QED BY <2>2, FS_Subset
<1>6. Cardinality(A) <= Cardinality(B) /\ Cardinality(A) \in Nat /\ Cardinality(B) \in Nat
  BY <1>4, <1>5, FS_Subset, FS_CardinalityType
<1> QED BY <1>3, <1>6

LEMMA ImageFinite ==
    ASSUME NEW S, IsFiniteSet(S), NEW f
    PROVE  IsFiniteSet({f[x] : x \in S})
<1> DEFINE T == {f[x] : x \in S}
           g == [x \in S |-> f[x]]
<1>1. g \in Surjection(S, T)
  BY DEF Surjection
<1> QED BY <1>1, FS_Surjection

(* What a process finds is a finite number of repeated sequences. *)
Pairs(log) == UNION {Pat!Found(log, k) : k \in 3 .. Len(log)}

LEMMA PairsFinite ==
    ASSUME NEW T, NEW log \in Seq(T)
    PROVE  IsFiniteSet(Pairs(log))
<1> DEFINE n == Len(log)
           D == (0 .. n) \X (3 .. n)
           w(x) == SubSeq(log, x[1] + 1, x[1] + x[2])
           g == [x \in D |-> <<w(x), Pat!Count(log, w(x))>>]
<1>1. n \in Nat
  BY LenProperties
<1>2. IsFiniteSet(D)
  <2>1. IsFiniteSet(0 .. n) /\ IsFiniteSet(3 .. n)
    BY <1>1, FS_Interval
  <2> QED BY <2>1, FS_Product
<1>3. Pairs(log) \subseteq {g[x] : x \in D}
  <2> SUFFICES ASSUME NEW p \in Pairs(log)
               PROVE  \E x \in D : p = g[x]
    OBVIOUS
  <2>1. PICK k \in 3 .. n : p \in Pat!Found(log, k)
    BY DEF Pairs
  <2>2. PICK seq \in Pat!Windows(log, k) : p = <<seq, Pat!Count(log, seq)>>
    BY <2>1 DEF Pat!Found
  <2>3. PICK i \in 0 .. (n - k) : seq = SubSeq(log, i + 1, i + k)
    BY <2>2 DEF Pat!Windows
  <2>4. <<i, k>> \in D
    BY <1>1, <2>1, <2>3
  <2>5. g[<<i, k>>] = <<w(<<i, k>>), Pat!Count(log, w(<<i, k>>))>> /\ w(<<i, k>>) = seq
    BY <2>3, <2>4
  <2> QED BY <2>2, <2>4, <2>5
<1> HIDE DEF D, g
<1>4. IsFiniteSet({g[x] : x \in D})
  BY <1>2, ImageFinite
<1> QED BY <1>3, <1>4, FS_Subset

LEMMA PairsRepeat ==
    ASSUME TracesAreLists, PatternShape, NEW d \in Detectors, NEW p \in Pairs(Pat!Log(d))
    PROVE  p \in Pair /\ Repeated(d, p[1], p[2])
<1> DEFINE n == action_log[d]
           log == Pat!Log(d)
<1>1. /\ Trace[d] \in Seq(Recorded) /\ Len(Trace[d]) \in Nat /\ n \in 0 .. Len(Trace[d])
      /\ log = SubSeq(Trace[d], 1, n)
  BY LenProperties DEF TracesAreLists, PatternShape, Pat!Log
<1>2. log \in Seq(Recorded) /\ Len(log) = n
  BY <1>1, PrefixWindow
<1> HIDE DEF log
<1>3. PICK k \in 3 .. n : p \in Pat!Found(log, k)
  BY <1>2 DEF Pairs, log
<1>4. PICK seq \in Pat!Windows(log, k) : p = <<seq, Pat!Count(log, seq)>> /\ Pat!Count(log, seq) >= 5
  BY <1>3 DEF Pat!Found
<1>5. k \in Nat /\ k \in 3 .. Len(Trace[d])
  BY <1>1, <1>3
<1>6. Len(seq) = k /\ seq \in Pat!Windows(Trace[d], k)
  BY <1>1, <1>4, <1>5, WindowType
<1>7. seq \in Pat!Sequences
  BY <1>5, <1>6 DEF Pat!Sequences
<1>8. Pat!Count(log, seq) \in Nat
  BY <1>2, <1>5, <1>6, CountType
<1>9. Pat!Count(log, seq) >= Pat!Count(log, seq)
  BY <1>8
<1> QED BY <1>4, <1>7, <1>8, <1>9 DEF Pair, Repeated, log

--------------------------------------------------------------------------------

LEMMA PatternInit ==
    ASSUME TracesAreLists, Pat!Init
    PROVE  PatternInv
<1>1. /\ DOMAIN patterns = {} /\ ids = 0 /\ \A s : Pat!Rows(s) = {}
      /\ \A d \in Detectors : todo[d] = <<>> /\ existing[d] = {} /\ action_log[d] = 0
      /\ decision = [i \in 1 .. MaxId |-> None]
  BY DEF Pat!Init, Pat!Rows
<1>2. <<>> \in Seq(Pair) /\ ToSet(<<>>) = {}
  BY ToSetEmpty
<1>3. \A d \in Detectors : action_log[d] <= Len(Trace[d])
  BY <1>1, LenProperties DEF TracesAreLists
<1>4. patterns \in [DOMAIN patterns -> Pattern]
  BY <1>1 DEF Pat!Init
<1>5. PatternShape
  <2>1. MaxId \in Nat
    BY DEF TracesAreLists
  <2> QED BY <1>1, <1>2, <1>3, <1>4, <2>1 DEF PatternShape, Pat!Init
<1> QED BY <1>1, <1>2, <1>5 DEF PatternInv, Repeats, RowsTrue, Looked, Heard, Decided, Upserts

(* What is true of a log is true of a longer one. *)
LEMMA RecordsInv ==
    ASSUME TracesAreLists, PatternInv, NEW d \in Detectors, Pat!RecordAction(d)
    PROVE  PatternInv'
<1>1. /\ action_log[d] < Len(Trace[d])
      /\ action_log' = [action_log EXCEPT ![d] = @ + 1]
      /\ UNCHANGED <<patterns, todo, existing, ids, decision, raced>>
  BY DEF Pat!RecordAction
<1>2. /\ action_log[d] \in Nat /\ Len(Trace[d]) \in Nat
      /\ action_log'[d] = action_log[d] + 1
      /\ \A e \in Detectors : e # d => action_log'[e] = action_log[e]
      /\ action_log' \in [Detectors -> Nat]
  BY <1>1, LenProperties DEF PatternInv, PatternShape, TracesAreLists
<1>3. PatternShape'
  <2>1. \A e \in Detectors : action_log'[e] <= Len(Trace[e])
    BY <1>1, <1>2 DEF PatternInv, PatternShape
  <2> QED BY <1>1, <1>2, <2>1 DEF PatternInv, PatternShape
<1>4. ASSUME NEW e \in Detectors, NEW seq \in Pat!Sequences, NEW n \in Nat, Repeated(e, seq, n)
      PROVE  Repeated(e, seq, n)'
  <2>1. CASE e # d
    BY <1>2, <1>4, <2>1 DEF Repeated, Pat!Log
  <2>2. CASE e = d
    <3> DEFINE k == action_log[d]
    <3>1. k + 1 <= Len(Trace[d]) /\ k \in Nat /\ k \in 0 .. Len(Trace[d])
          /\ k + 1 \in 0 .. Len(Trace[d])
      BY <1>1, <1>2
    <3>2. Pat!Count(SubSeq(Trace[d], 1, k + 1), seq) >= Pat!Count(SubSeq(Trace[d], 1, k), seq)
      BY <3>1, CountGrows
    <3>3. SubSeq(Trace[d], 1, k) \in Seq(Recorded) /\ SubSeq(Trace[d], 1, k + 1) \in Seq(Recorded)
      BY <3>1, PrefixWindow DEF TracesAreLists
    <3>4. /\ Pat!Count(SubSeq(Trace[d], 1, k + 1), seq) \in Nat
          /\ Pat!Count(SubSeq(Trace[d], 1, k), seq) \in Nat
      BY <3>3, CountType, SequenceType
    <3>5. /\ Pat!Log(d) = SubSeq(Trace[d], 1, k)
          /\ Pat!Log(d)' = SubSeq(Trace[d], 1, k + 1)
      BY <1>2 DEF Pat!Log
    <3> HIDE DEF k
    <3>6. Pat!Count(Pat!Log(d), seq) >= n /\ n >= 5
      BY <1>4, <2>2 DEF Repeated
    <3>7. Pat!Count(Pat!Log(d)', seq) >= n
      BY <3>2, <3>4, <3>5, <3>6
    <3>8. Pat!Count(Pat!Log(d), seq)' = Pat!Count(Pat!Log(d)', seq)
      BY DEF Pat!Count
    <3> QED BY <2>2, <3>6, <3>7, <3>8 DEF Repeated
  <2> QED BY <2>1, <2>2
<1>5. Repeats'
  <2> SUFFICES ASSUME NEW e \in Detectors, NEW p \in ToSet(todo[e])
               PROVE  Repeated(e, p[1], p[2])'
    BY <1>1 DEF Repeats
  <2>1. p \in Pair
    BY ToSetType DEF PatternInv, PatternShape
  <2> QED BY <1>4, <2>1 DEF PatternInv, Repeats, Pair
<1>6. RowsTrue'
  <2>1. \A i \in DOMAIN patterns : patterns[i].action_sequence \in Pat!Sequences
                                 /\ patterns[i].occurrence_count \in Nat
    BY DEF PatternInv, PatternShape, Pattern
  <2> QED BY <1>1, <1>4, <2>1 DEF PatternInv, RowsTrue
<1>7. Looked' /\ Heard' /\ \A s \in Pat!Sequences \ raced' : Decided(s)'
  BY <1>1 DEF PatternInv, Looked, Heard, Decided, Upserts, Pat!Rows
<1> QED BY <1>1, <1>3, <1>5, <1>6, <1>7 DEF PatternInv

LEMMA DetectsInv ==
    ASSUME TracesAreLists, PatternInv, NEW d \in Detectors, Pat!DetectPatterns(d)
    PROVE  PatternInv'
<1> DEFINE pairs == Pairs(Pat!Log(d))
           kept == {p \in pairs : ~\E q \in pairs : q # p /\ Len(q[1]) <= Len(p[1])
                                      /\ q[2] >= p[2] /\ Pat!is_subsequence(p[1], q[1])}
<1>1. PICK order \in Pat!Bijection(1 .. Pat!Cardinality(kept), kept) :
          todo' = [todo EXCEPT ![d] = order]
  BY DEF Pat!DetectPatterns, Pairs
<1>2. todo[d] = <<>> /\ UNCHANGED <<patterns, action_log, existing, ids, decision, raced>>
  BY DEF Pat!DetectPatterns
<1>3. existing[d] = {}
  BY <1>2 DEF PatternInv, PatternShape
<1>4. IsFiniteSet(kept) /\ kept \subseteq pairs
  <2>1. Pat!Log(d) \in Seq(Recorded)
    BY PrefixWindow, LenProperties, Pat!Log(d) = SubSeq(Trace[d], 1, action_log[d])
       DEF PatternInv, PatternShape, TracesAreLists, Pat!Log
  <2>2. IsFiniteSet(pairs)
    BY <2>1, PairsFinite
  <2> QED BY <2>2, FS_Subset
<1> HIDE DEF kept
<1>5. Cardinality(kept) \in Nat
  BY <1>4, FS_CardinalityType
<1>6. order \in [1 .. Cardinality(kept) -> kept]
  BY PatternOperators
<1>7. order \in Seq(kept)
  BY <1>5, <1>6
<1>8. kept \subseteq Pair /\ \A p \in kept : Repeated(d, p[1], p[2])
  BY <1>4, PairsRepeat DEF PatternInv
<1>9. order \in Seq(Pair) /\ ToSet(order) \subseteq kept
  BY <1>7, <1>8, ToSetType
<1>10. todo'[d] = order /\ \A e \in Detectors : e # d => todo'[e] = todo[e]
  BY <1>1 DEF PatternInv, PatternShape
<1>11. PatternShape'
  <2>1. todo' \in [Detectors -> Seq(Pair)]
    BY <1>1, <1>9 DEF PatternInv, PatternShape
  <2> QED BY <1>2, <1>3, <1>10, <2>1 DEF PatternInv, PatternShape
<1>12. \A e, s, n : Repeated(e, s, n)' = Repeated(e, s, n)
  BY <1>2 DEF Repeated, Pat!Log, Pat!Count
<1>13. Repeats'
  <2> SUFFICES ASSUME NEW e \in Detectors, NEW p \in ToSet(todo'[e])
               PROVE  Repeated(e, p[1], p[2])
    BY <1>12 DEF Repeats
  <2>1. CASE e = d
    BY <1>8, <1>9, <1>10, <2>1
  <2>2. CASE e # d
    BY <1>10, <2>2 DEF PatternInv, Repeats
  <2> QED BY <2>1, <2>2
<1>14. RowsTrue' /\ Heard'
  BY <1>2, <1>12 DEF PatternInv, RowsTrue, Heard
<1>15. \A e \in Detectors : existing'[e] # {} => todo'[e] = todo[e]
  BY <1>2, <1>3, <1>10
<1>16. Looked'
  BY <1>2, <1>15 DEF PatternInv, Looked
<1>17. \A e \in Detectors : \A s : Upserts(e, s)' <=> Upserts(e, s)
  BY <1>2, <1>15 DEF Upserts
<1>18. \A s \in Pat!Sequences \ raced' : Decided(s)'
  BY <1>2, <1>17 DEF PatternInv, Decided, Pat!Rows
<1> QED BY <1>11, <1>13, <1>14, <1>16, <1>18 DEF PatternInv

LEMMA SelectInv ==
    ASSUME TracesAreLists, PatternInv, NEW d \in Detectors, Pat!Select(d)
    PROVE  PatternInv'
<1> DEFINE seq == Head(todo[d])[1]
<1>1. PICK found \in {None} \cup Pat!Rows(seq) :
          /\ existing' = [existing EXCEPT ![d] = {found}]
          /\ raced' = IF Pat!Racing(d, seq) \/ (found = None /\ Pat!Rows(seq) # {})
                      THEN raced \cup {seq} ELSE raced
  BY DEF Pat!Select
<1>2. /\ todo[d] # <<>> /\ existing[d] = {}
      /\ raced' = raced \/ raced' = raced \cup {seq}
      /\ Pat!Racing(d, seq) => seq \in raced'
      /\ found = None /\ Pat!Rows(seq) # {} => seq \in raced'
      /\ UNCHANGED <<patterns, action_log, todo, ids, decision>>
  BY <1>1 DEF Pat!Select
<1>3. /\ Pat!Rows(seq) \subseteq DOMAIN patterns /\ DOMAIN patterns \subseteq 1 .. ids
      /\ ids \in Nat /\ None \notin DOMAIN patterns
  <2>1. Pat!Rows(seq) \subseteq DOMAIN patterns /\ DOMAIN patterns \subseteq 1 .. ids /\ ids \in Nat
    BY DEF Pat!Rows, PatternInv, PatternShape
  <2>2. None \notin Nat /\ 1 .. ids \subseteq Nat
    BY <2>1 DEF TracesAreLists
  <2> QED BY <2>1, <2>2
<1>4. /\ existing'[d] = {found} /\ \A e \in Detectors : e # d => existing'[e] = existing[e]
      /\ existing' \in [Detectors -> SUBSET (Nat \cup {None})]
  BY <1>1, <1>3 DEF PatternInv, PatternShape
<1>5. found = None \/ found \in 1 .. ids
  BY <1>1, <1>3
<1>6. PatternShape'
  BY <1>2, <1>4, <1>5 DEF PatternInv, PatternShape
<1>7. Repeats' /\ RowsTrue'
  <2>1. \A e, s, n : Repeated(e, s, n)' <=> Repeated(e, s, n)
    BY <1>2 DEF Repeated, Pat!Log, Pat!Count
  <2> QED BY <1>2, <2>1 DEF PatternInv, Repeats, RowsTrue
<1>h. Heard'
  BY <1>2 DEF PatternInv, Heard
<1>8. Looked'
  <2> SUFFICES ASSUME NEW e \in Detectors, NEW i \in DOMAIN patterns, existing'[e] = {i}
               PROVE  Head(todo[e])[1] = patterns[i].action_sequence
    BY <1>2 DEF Looked
  <2>1. CASE e # d
    BY <1>4, <2>1 DEF PatternInv, Looked
  <2>2. CASE e = d
    <3>1. found = i /\ i # None
      <4>1. {found} = {i}
        BY <1>4, <2>2
      <4> QED BY <1>3, <4>1
    <3>2. i \in Pat!Rows(seq)
      BY <1>1, <3>1
    <3> QED BY <2>2, <3>2 DEF Pat!Rows
  <2> QED BY <2>1, <2>2
<1>9. ASSUME NEW s \in Pat!Sequences \ raced' PROVE Decided(s)'
  <2>1. Decided(s) /\ s \notin raced
    BY <1>2 DEF PatternInv
  <2>2. Pat!Rows(s)' = Pat!Rows(s)
    BY <1>2 DEF Pat!Rows
  <2>3. \A e \in Detectors : e # d => Upserts(e, s)' = Upserts(e, s)
    BY <1>2, <1>4 DEF Upserts
  <2>4. Upserts(d, s)' => s = seq
    BY <1>2 DEF Upserts
  <2>5. Upserts(d, s)' => \A e \in Detectors : Upserts(e, s)' => e = d
    BY <1>2, <1>9, <2>3, <2>4 DEF Upserts, Pat!Racing
  <2>6. \A a, b \in Detectors : Upserts(a, s)' /\ Upserts(b, s)' => a = b
    BY <2>1, <2>3, <2>5 DEF Decided
  <2>7. ASSUME NEW e \in Detectors, Upserts(e, s)', existing'[e] = {None}
        PROVE  Pat!Rows(s) = {}
    <3>1. CASE e # d
      BY <1>4, <2>1, <2>3, <2>7, <3>1 DEF Decided
    <3>2. CASE e = d
      <4>1. found = None /\ s = seq
        <5>1. {found} = {None}
          BY <1>4, <2>7, <3>2
        <5> QED BY <2>4, <2>7, <3>2, <5>1
      <4> QED BY <1>2, <1>9, <4>1
    <3> QED BY <3>1, <3>2
  <2> QED BY <1>2, <2>1, <2>2, <2>6, <2>7 DEF Decided
<1> QED BY <1>6, <1>7, <1>h, <1>8, <1>9 DEF PatternInv

(* The pair is done with: what is left of todo, and of the races. *)
LEMMA PairDone ==
    ASSUME TracesAreLists, PatternInv, NEW d \in Detectors, existing[d] # {},
           todo' = [todo EXCEPT ![d] = Tail(@)], existing' = [existing EXCEPT ![d] = {}],
           UNCHANGED <<action_log, decision, raced>>
    PROVE  /\ todo' \in [Detectors -> Seq(Pair)]
           /\ existing' \in [Detectors -> SUBSET (Nat \cup {None})]
           /\ Repeats' /\ existing'[d] = {}
           /\ \A e \in Detectors : e # d => existing'[e] = existing[e] /\ todo'[e] = todo[e]
           /\ \A s : ~Upserts(d, s)' /\ \A e \in Detectors : e # d => (Upserts(e, s)' <=> Upserts(e, s))
           /\ \A e \in Detectors : \A s, n : Repeated(e, s, n)' <=> Repeated(e, s, n)
           /\ Head(todo[d]) \in Pair /\ Repeated(d, Head(todo[d])[1], Head(todo[d])[2])
<1>1. todo[d] \in Seq(Pair) /\ todo[d] # <<>>
  BY DEF PatternInv, PatternShape
<1>2. /\ Tail(todo[d]) \in Seq(Pair) /\ Head(todo[d]) \in Pair
      /\ ToSet(todo[d]) = {Head(todo[d])} \cup ToSet(Tail(todo[d]))
  BY <1>1, HeadTailProperties, ToSetTail
<1>3. /\ todo' \in [Detectors -> Seq(Pair)] /\ todo'[d] = Tail(todo[d])
      /\ existing' \in [Detectors -> SUBSET (Nat \cup {None})] /\ existing'[d] = {}
      /\ \A e \in Detectors : e # d => existing'[e] = existing[e] /\ todo'[e] = todo[e]
  BY <1>2 DEF PatternInv, PatternShape
<1>4. \A e, s, n : Repeated(e, s, n)' <=> Repeated(e, s, n)
  BY DEF Repeated, Pat!Log, Pat!Count
<1>5. \A e \in Detectors : ToSet(todo'[e]) \subseteq ToSet(todo[e])
  BY <1>2, <1>3
<1>6. Repeats'
  BY <1>4, <1>5 DEF PatternInv, Repeats
<1>7. Repeated(d, Head(todo[d])[1], Head(todo[d])[2])
  BY <1>2 DEF PatternInv, Repeats
<1> QED BY <1>2, <1>3, <1>4, <1>6, <1>7 DEF Upserts

LEMMA InsertInv ==
    ASSUME TracesAreLists, PatternInv, NEW d \in Detectors, Pat!Write(d), existing[d] = {None}
    PROVE  PatternInv'
<1> DEFINE seq == Head(todo[d])[1]
           count == Head(todo[d])[2]
           new == ids + 1
           row == [action_sequence |-> seq, occurrence_count |-> count,
                   status |-> "Detected", expired |-> FALSE]
<1>1. /\ ids' = new /\ ids < MaxId
      /\ patterns' = [i \in DOMAIN patterns \cup {new} |-> IF i = new THEN row ELSE patterns[i]]
      /\ todo' = [todo EXCEPT ![d] = Tail(@)] /\ existing' = [existing EXCEPT ![d] = {}]
      /\ UNCHANGED <<action_log, decision, raced>>
  BY DEF Pat!Write
<1>2. /\ Head(todo[d]) \in Pair /\ Repeated(d, seq, count)
      /\ todo' \in [Detectors -> Seq(Pair)]
      /\ existing' \in [Detectors -> SUBSET (Nat \cup {None})]
      /\ Repeats' /\ existing'[d] = {}
      /\ \A e \in Detectors : e # d => existing'[e] = existing[e] /\ todo'[e] = todo[e]
      /\ \A e \in Detectors : \A s, n : Repeated(e, s, n)' <=> Repeated(e, s, n)
  BY <1>1, PairDone
<1>3. \A s : ~Upserts(d, s)' /\ \A e \in Detectors : e # d => (Upserts(e, s)' <=> Upserts(e, s))
  BY <1>1, PairDone
<1>4. row \in Pattern /\ row.action_sequence = seq /\ row.occurrence_count = count
      /\ row.status = "Detected"
  BY <1>2 DEF Pattern, Pair
<1>5. /\ ids \in Nat /\ new \in Nat /\ new \notin DOMAIN patterns
      /\ DOMAIN patterns \subseteq 1 .. ids /\ patterns \in [DOMAIN patterns -> Pattern]
      /\ new \in 1 .. MaxId /\ new \in 0 .. MaxId
  BY <1>1 DEF PatternInv, PatternShape, TracesAreLists
<1>6. /\ DOMAIN patterns' = DOMAIN patterns \cup {new} /\ patterns'[new] = row
      /\ \A i \in DOMAIN patterns : patterns'[i] = patterns[i]
  BY <1>1, <1>5
<1> HIDE DEF row
<1>7. PatternShape'
  <2>1. DOMAIN patterns' \subseteq 1 .. ids' /\ patterns' \in [DOMAIN patterns' -> Pattern]
    BY <1>1, <1>4, <1>5, <1>6
  <2>2. \A e \in Detectors : existing'[e] # {} =>
            todo'[e] # <<>> /\ (existing'[e] = {None} \/ \E i \in 1 .. ids' : existing'[e] = {i})
    <3>1. 1 .. ids \subseteq 1 .. ids'
      BY <1>1, <1>5
    <3> QED BY <1>2, <3>1 DEF PatternInv, PatternShape
  <2> QED BY <1>1, <1>2, <1>5, <2>1, <2>2 DEF PatternInv, PatternShape
<1>8. RowsTrue'
  <2> SUFFICES ASSUME NEW i \in DOMAIN patterns'
               PROVE  \E e \in Detectors : Repeated(e, patterns'[i].action_sequence,
                                                       patterns'[i].occurrence_count)
    BY <1>2 DEF RowsTrue
  <2> QED BY <1>2, <1>4, <1>6 DEF PatternInv, RowsTrue
<1>9. Looked'
  <2> SUFFICES ASSUME NEW e \in Detectors, NEW i \in DOMAIN patterns', existing'[e] = {i}
               PROVE  Head(todo'[e])[1] = patterns'[i].action_sequence
    BY DEF Looked
  <2>1. e # d /\ existing[e] = {i} /\ todo'[e] = todo[e]
    BY <1>2
  <2>2. i # new
    <3>1. new \notin 1 .. ids /\ new # None
      BY <1>5 DEF TracesAreLists
    <3>2. {i} = {None} \/ \E j \in 1 .. ids : {i} = {j}
      BY <2>1 DEF PatternInv, PatternShape
    <3> QED BY <3>1, <3>2
  <2> QED BY <1>6, <2>1, <2>2 DEF PatternInv, Looked
<1>10. ASSUME NEW s \in Pat!Sequences \ raced' PROVE Decided(s)'
  <2>1. Decided(s)
    BY <1>1, <1>10 DEF PatternInv
  <2>2. Pat!Rows(s)' = Pat!Rows(s) \cup (IF s = seq THEN {new} ELSE {})
    BY <1>4, <1>6 DEF Pat!Rows
  <2>3. \A a, b \in Detectors : Upserts(a, s)' /\ Upserts(b, s)' => a = b
    BY <1>3, <2>1 DEF Decided
  <2>4. CASE s = seq
    <3>1. Upserts(d, s) /\ Pat!Rows(s) = {}
      BY <2>1, <2>4 DEF Decided, Upserts
    <3>2. \A e \in Detectors : ~Upserts(e, s)'
      BY <1>3, <2>1, <3>1 DEF Decided
    <3> QED BY <1>1, <2>2, <2>4, <3>1, <3>2 DEF Decided
  <2>5. CASE s # seq
    <3>1. Pat!Rows(s)' = Pat!Rows(s)
      BY <2>2, <2>5
    <3>2. \A i \in Pat!Rows(s) : patterns'[i] = patterns[i]
      BY <1>6 DEF Pat!Rows
    <3>3. \A e \in Detectors : Upserts(e, s)' /\ existing'[e] = {None} =>
              Upserts(e, s) /\ existing[e] = {None}
      BY <1>2, <1>3
    <3> QED BY <1>1, <2>1, <2>3, <3>1, <3>2, <3>3 DEF Decided
  <2> QED BY <2>4, <2>5
<1>11. Heard'
  <2>1. decision[new] = None /\ Status(None) = "Detected"
    BY <1>5 DEF PatternInv, Heard, Status
  <2>2. \A i \in DOMAIN patterns' : patterns'[i].status = Status(decision[i])
    BY <1>4, <1>6, <2>1 DEF PatternInv, Heard
  <2>3. \A i \in 1 .. MaxId : i > new => i > ids
    BY <1>5
  <2> QED BY <1>1, <2>2, <2>3 DEF PatternInv, Heard
<1> QED BY <1>2, <1>7, <1>8, <1>9, <1>10, <1>11 DEF PatternInv

(* Steps that leave the rows' sequences and the processes where they are. *)
LEMMA UpdateInv ==
    ASSUME TracesAreLists, PatternInv, NEW d \in Detectors, Pat!Write(d), existing[d] # {None}
    PROVE  PatternInv'
<1> DEFINE seq == Head(todo[d])[1]
           count == Head(todo[d])[2]
<1>1. /\ patterns' = [i \in DOMAIN patterns |->
                IF i \in existing[d] THEN [patterns[i] EXCEPT !.occurrence_count = count] ELSE patterns[i]]
      /\ existing[d] # {} /\ ids' = ids
      /\ todo' = [todo EXCEPT ![d] = Tail(@)] /\ existing' = [existing EXCEPT ![d] = {}]
      /\ UNCHANGED <<action_log, decision, raced>>
  BY DEF Pat!Write
<1>2. /\ Head(todo[d]) \in Pair /\ Repeated(d, seq, count)
      /\ todo' \in [Detectors -> Seq(Pair)]
      /\ existing' \in [Detectors -> SUBSET (Nat \cup {None})]
      /\ Repeats' /\ existing'[d] = {}
      /\ \A e \in Detectors : e # d => existing'[e] = existing[e] /\ todo'[e] = todo[e]
      /\ \A e \in Detectors : \A s, n : Repeated(e, s, n)' <=> Repeated(e, s, n)
  BY <1>1, PairDone
<1>3. \A s : ~Upserts(d, s)' /\ \A e \in Detectors : e # d => (Upserts(e, s)' <=> Upserts(e, s))
  BY <1>1, PairDone
<1>4. patterns \in [DOMAIN patterns -> Pattern]
  BY DEF PatternInv, PatternShape
<1>5. DOMAIN patterns' = DOMAIN patterns
  BY <1>1
<1>6. ASSUME NEW i \in DOMAIN patterns
      PROVE  /\ patterns'[i] \in Pattern
             /\ patterns'[i].action_sequence = patterns[i].action_sequence
             /\ patterns'[i].status = patterns[i].status
             /\ patterns'[i].occurrence_count =
                   IF i \in existing[d] THEN count ELSE patterns[i].occurrence_count
  <2> DEFINE row == patterns[i]
  <2>1. row \in Pattern /\ count \in Nat
    BY <1>2, <1>4, <1>6 DEF Pair
  <2>2. CASE i \in existing[d]
    <3>1. patterns'[i] = [row EXCEPT !.occurrence_count = count]
      BY <1>1, <1>6, <2>2
    <3> QED BY <2>1, <2>2, <3>1 DEF Pattern
  <2>3. CASE i \notin existing[d]
    BY <1>1, <1>6, <2>1, <2>3
  <2> QED BY <2>2, <2>3
<1>7. PatternShape'
  <2>1. patterns' \in [DOMAIN patterns' -> Pattern]
    BY <1>1, <1>5, <1>6
  <2> QED BY <1>1, <1>2, <1>5, <2>1 DEF PatternInv, PatternShape
<1>8. RowsTrue'
  <2> SUFFICES ASSUME NEW i \in DOMAIN patterns
               PROVE  \E e \in Detectors : Repeated(e, patterns'[i].action_sequence,
                                                       patterns'[i].occurrence_count)
    BY <1>2, <1>5 DEF RowsTrue
  <2>1. CASE i \in existing[d]
    <3>1. existing[d] = {i}
      BY <1>1, <2>1 DEF PatternInv, PatternShape
    <3>2. patterns[i].action_sequence = seq
      BY <3>1 DEF PatternInv, Looked
    <3> QED BY <1>2, <1>6, <2>1, <3>2
  <2>2. CASE i \notin existing[d]
    BY <1>6, <2>2 DEF PatternInv, RowsTrue
  <2> QED BY <2>1, <2>2
<1>9. Looked'
  <2> SUFFICES ASSUME NEW e \in Detectors, NEW i \in DOMAIN patterns, existing'[e] = {i}
               PROVE  Head(todo'[e])[1] = patterns'[i].action_sequence
    BY <1>5 DEF Looked
  <2>1. e # d /\ existing[e] = {i} /\ todo'[e] = todo[e]
    BY <1>2
  <2> QED BY <1>6, <2>1 DEF PatternInv, Looked
<1>10. ASSUME NEW s \in Pat!Sequences \ raced' PROVE Decided(s)'
  <2>1. Decided(s)
    BY <1>1, <1>10 DEF PatternInv
  <2>2. Pat!Rows(s)' = Pat!Rows(s) /\ Pat!Rows(s) \subseteq DOMAIN patterns
    BY <1>5, <1>6 DEF Pat!Rows
  <2>3. \A e \in Detectors : Upserts(e, s)' => Upserts(e, s) /\ existing'[e] = existing[e]
    BY <1>2, <1>3
  <2> QED BY <1>1, <1>6, <2>1, <2>2, <2>3 DEF Decided
<1>11. Heard'
  BY <1>1, <1>5, <1>6 DEF PatternInv, Heard
<1> QED BY <1>2, <1>7, <1>8, <1>9, <1>10, <1>11 DEF PatternInv

(* Nothing was written. *)
LEMMA WriteFailsInv ==
    ASSUME TracesAreLists, PatternInv, NEW d \in Detectors, Pat!WriteFails(d)
    PROVE  PatternInv'
<1>1. /\ existing[d] # {}
      /\ todo' = [todo EXCEPT ![d] = Tail(@)] /\ existing' = [existing EXCEPT ![d] = {}]
      /\ UNCHANGED <<patterns, action_log, ids, decision, raced>>
  BY DEF Pat!WriteFails
<1>2. /\ todo' \in [Detectors -> Seq(Pair)]
      /\ existing' \in [Detectors -> SUBSET (Nat \cup {None})]
      /\ Repeats' /\ existing'[d] = {}
      /\ \A e \in Detectors : e # d => existing'[e] = existing[e] /\ todo'[e] = todo[e]
      /\ \A e \in Detectors : \A s, n : Repeated(e, s, n)' <=> Repeated(e, s, n)
  BY <1>1, PairDone
<1>3. \A s : ~Upserts(d, s)' /\ \A e \in Detectors : e # d => (Upserts(e, s)' <=> Upserts(e, s))
  BY <1>1, PairDone
<1>4. PatternShape' /\ Heard'
  BY <1>1, <1>2 DEF PatternInv, PatternShape, Heard
<1>5. RowsTrue' /\ Looked'
  <2>1. \A e \in Detectors : existing'[e] # {} => e # d
    BY <1>2
  <2> QED BY <1>1, <1>2, <2>1 DEF PatternInv, RowsTrue, Looked
<1>6. ASSUME NEW s \in Pat!Sequences \ raced' PROVE Decided(s)'
  <2>1. Decided(s)
    BY <1>1, <1>6 DEF PatternInv
  <2>2. Pat!Rows(s)' = Pat!Rows(s)
    BY <1>1 DEF Pat!Rows
  <2>3. \A e \in Detectors : Upserts(e, s)' => Upserts(e, s) /\ existing'[e] = existing[e]
    BY <1>2, <1>3
  <2> QED BY <2>1, <2>2, <2>3 DEF Decided
<1> QED BY <1>2, <1>4, <1>5, <1>6 DEF PatternInv

(* Rows may go, and change their status and date; what else they say stays. *)
LEMMA RowsChange ==
    ASSUME TracesAreLists, PatternInv, DOMAIN patterns' \subseteq DOMAIN patterns,
           patterns' \in [DOMAIN patterns' -> Pattern],
           \A i \in DOMAIN patterns' :
              /\ patterns'[i].action_sequence = patterns[i].action_sequence
              /\ patterns'[i].occurrence_count = patterns[i].occurrence_count,
           decision' \in [1 .. MaxId -> Decisions \cup {None}],
           UNCHANGED <<action_log, todo, existing, ids, raced>>,
           \A i \in DOMAIN patterns' : patterns'[i].status = Status(decision'[i]),
           \A i \in 1 .. MaxId : i > ids => decision'[i] = None
    PROVE  PatternInv'
<1>1. PatternShape'
  BY DEF PatternInv, PatternShape
<1>2. \A e, s, n : Repeated(e, s, n)' <=> Repeated(e, s, n)
  BY DEF Repeated, Pat!Log, Pat!Count
<1>3. Repeats' /\ RowsTrue'
  BY <1>2 DEF PatternInv, Repeats, RowsTrue
<1>4. Looked' /\ Heard'
  BY DEF PatternInv, Looked, Heard
<1>5. ASSUME NEW s \in Pat!Sequences \ raced PROVE Decided(s)'
  <2>1. Decided(s)
    BY DEF PatternInv
  <2>2. Pat!Rows(s)' = Pat!Rows(s) \cap DOMAIN patterns'
    BY DEF Pat!Rows
  <2>3. \A e \in Detectors : Upserts(e, s)' <=> Upserts(e, s)
    BY DEF Upserts
  <2> QED BY <2>1, <2>2, <2>3 DEF Decided
<1> QED BY <1>1, <1>3, <1>4, <1>5 DEF PatternInv

LEMMA DecideInv ==
    ASSUME TracesAreLists, PatternInv, NEW id \in DOMAIN patterns,
           NEW status \in Decisions, Pat!Decide(id, status)
    PROVE  PatternInv'
<1>1. /\ patterns' = [patterns EXCEPT ![id].status = status]
      /\ decision' = [decision EXCEPT ![id] = status]
      /\ UNCHANGED <<action_log, todo, existing, ids, raced>>
  BY DEF Pat!Decide
<1>2. /\ patterns \in [DOMAIN patterns -> Pattern] /\ DOMAIN patterns \subseteq 1 .. MaxId
      /\ decision \in [1 .. MaxId -> Decisions \cup {None}]
      /\ \A i \in DOMAIN patterns : i \in 1 .. ids
  BY DEF PatternInv, PatternShape, TracesAreLists
<1>3. DOMAIN patterns' = DOMAIN patterns
  BY <1>1
<1>4. \A i \in DOMAIN patterns :
          /\ patterns'[i] \in Pattern
          /\ patterns'[i].action_sequence = patterns[i].action_sequence
          /\ patterns'[i].occurrence_count = patterns[i].occurrence_count
          /\ patterns'[i].status = IF i = id THEN status ELSE patterns[i].status
  BY <1>1, <1>2 DEF Pattern
<1>5. patterns' \in [DOMAIN patterns' -> Pattern]
  BY <1>1, <1>3, <1>4
<1>6. /\ decision' \in [1 .. MaxId -> Decisions \cup {None}] /\ decision'[id] = status
      /\ \A i \in 1 .. MaxId : i # id => decision'[i] = decision[i]
  BY <1>1, <1>2
<1>7. \A i \in DOMAIN patterns' : patterns'[i].status = Status(decision'[i])
  <2>1. Status(status) = status
    BY DEF Status, TracesAreLists
  <2> QED BY <1>2, <1>3, <1>4, <1>6, <2>1 DEF PatternInv, Heard
<1>8. \A i \in 1 .. MaxId : i > ids => decision'[i] = None
  <2>1. ids \in Nat /\ id \in 1 .. ids
    BY <1>2 DEF PatternInv, PatternShape
  <2>2. \A i \in 1 .. MaxId : i > ids => i # id
    BY <2>1
  <2> QED BY <1>6, <2>2 DEF PatternInv, Heard
<1> QED BY <1>1, <1>3, <1>4, <1>5, <1>6, <1>7, <1>8, RowsChange

LEMMA ResetInv ==
    ASSUME TracesAreLists, PatternInv, Pat!reset_declined
    PROVE  PatternInv'
<1>1. /\ patterns' = [i \in DOMAIN patterns |->
                [patterns[i] EXCEPT !.status = IF @ = "Declined" THEN "Detected" ELSE @]]
      /\ decision' = [i \in DOMAIN decision |->
                IF decision[i] = "Declined" THEN None ELSE decision[i]]
      /\ UNCHANGED <<action_log, todo, existing, ids, raced>>
  BY DEF Pat!reset_declined
<1>2. /\ patterns \in [DOMAIN patterns -> Pattern]
      /\ decision \in [1 .. MaxId -> Decisions \cup {None}]
  BY DEF PatternInv, PatternShape
<1>3. DOMAIN patterns' = DOMAIN patterns
  BY <1>1
<1>4. ASSUME NEW i \in DOMAIN patterns
      PROVE  /\ patterns'[i] \in Pattern
             /\ patterns'[i].action_sequence = patterns[i].action_sequence
             /\ patterns'[i].occurrence_count = patterns[i].occurrence_count
             /\ patterns'[i].status = IF patterns[i].status = "Declined" THEN "Detected"
                                      ELSE patterns[i].status
  <2> DEFINE row == patterns[i]
             status == IF row.status = "Declined" THEN "Detected" ELSE row.status
  <2>1. row \in Pattern /\ patterns'[i] = [row EXCEPT !.status = status]
    BY <1>1, <1>2, <1>4
  <2>2. status \in {"Detected"} \cup Decisions
    BY <2>1 DEF Pattern
  <2> HIDE DEF row, status
  <2>4. /\ patterns'[i] \in Pattern /\ patterns'[i].status = status
        /\ patterns'[i].action_sequence = row.action_sequence
        /\ patterns'[i].occurrence_count = row.occurrence_count
    BY <2>1, <2>2 DEF Pattern
  <2> QED BY <2>4 DEF row, status
<1>5. patterns' \in [DOMAIN patterns' -> Pattern]
  BY <1>1, <1>3, <1>4
<1>6. decision' \in [1 .. MaxId -> Decisions \cup {None}]
  BY <1>1, <1>2
<1>7. \A i \in DOMAIN patterns' : patterns'[i].status = Status(decision'[i])
  <2> SUFFICES ASSUME NEW i \in DOMAIN patterns
               PROVE  patterns'[i].status = Status(decision'[i])
    BY <1>3
  <2>1. i \in 1 .. MaxId /\ decision[i] \in Decisions \cup {None}
    BY <1>2 DEF PatternInv, PatternShape, TracesAreLists
  <2>2. decision'[i] = IF decision[i] = "Declined" THEN None ELSE decision[i]
    BY <1>1, <1>2, <2>1
  <2>3. patterns[i].status = Status(decision[i])
    BY DEF PatternInv, Heard
  <2> QED BY <1>4, <2>1, <2>2, <2>3 DEF Status, TracesAreLists
<1>8. \A i \in 1 .. MaxId : i > ids => decision'[i] = None
  BY <1>1, <1>2 DEF PatternInv, Heard
<1> QED BY <1>1, <1>3, <1>4, <1>5, <1>6, <1>7, <1>8, RowsChange

LEMMA ExpireInv ==
    ASSUME TracesAreLists, PatternInv, NEW id \in DOMAIN patterns, Pat!Expire(id)
    PROVE  PatternInv'
<1>1. /\ patterns' = [patterns EXCEPT ![id].expired = TRUE]
      /\ UNCHANGED <<action_log, todo, existing, ids, decision, raced>>
  BY DEF Pat!Expire
<1>2. /\ patterns \in [DOMAIN patterns -> Pattern]
      /\ decision \in [1 .. MaxId -> Decisions \cup {None}]
  BY DEF PatternInv, PatternShape
<1>3. DOMAIN patterns' = DOMAIN patterns
  BY <1>1
<1>4. \A i \in DOMAIN patterns :
          /\ patterns'[i] \in Pattern
          /\ patterns'[i].action_sequence = patterns[i].action_sequence
          /\ patterns'[i].occurrence_count = patterns[i].occurrence_count
          /\ patterns'[i].status = patterns[i].status
  BY <1>1, <1>2 DEF Pattern
<1>5. patterns' \in [DOMAIN patterns' -> Pattern]
  BY <1>1, <1>3, <1>4
<1>6. /\ \A i \in DOMAIN patterns' : patterns'[i].status = Status(decision'[i])
      /\ \A i \in 1 .. MaxId : i > ids => decision'[i] = None
  BY <1>1, <1>3, <1>4 DEF PatternInv, Heard
<1> QED BY <1>1, <1>2, <1>3, <1>4, <1>5, <1>6, RowsChange

LEMMA CleanupInv ==
    ASSUME TracesAreLists, PatternInv, Pat!cleanup_expired
    PROVE  PatternInv'
<1> DEFINE kept == {i \in DOMAIN patterns : ~patterns[i].expired}
<1>1. /\ patterns' = [i \in kept |-> patterns[i]]
      /\ UNCHANGED <<action_log, todo, existing, ids, decision, raced>>
  BY PatternOperators DEF Pat!cleanup_expired
<1>2. /\ patterns \in [DOMAIN patterns -> Pattern]
      /\ decision \in [1 .. MaxId -> Decisions \cup {None}]
  BY DEF PatternInv, PatternShape
<1>3. DOMAIN patterns' = kept /\ kept \subseteq DOMAIN patterns
  BY <1>1
<1>4. \A i \in kept : patterns'[i] = patterns[i] /\ patterns[i] \in Pattern
  BY <1>1, <1>2
<1>5. patterns' \in [DOMAIN patterns' -> Pattern]
  BY <1>1, <1>3, <1>4
<1>6. decision' \in [1 .. MaxId -> Decisions \cup {None}]
  BY <1>1, <1>2
<1>7. /\ \A i \in DOMAIN patterns' : patterns'[i].status = Status(decision'[i])
      /\ \A i \in 1 .. MaxId : i > ids => decision'[i] = None
  BY <1>1, <1>3, <1>4 DEF PatternInv, Heard
<1> QED BY <1>1, <1>3, <1>4, <1>5, <1>6, <1>7, RowsChange

LEMMA PatternNext ==
    ASSUME TracesAreLists, PatternInv, [Pat!Next]_(Pat!vars)
    PROVE  PatternInv'
<1>1. CASE UNCHANGED Pat!vars
  <2>1. UNCHANGED <<patterns, action_log, todo, existing, ids, decision, raced>>
    BY <1>1 DEF Pat!vars
  <2>2. \A s \in Pat!Sequences \ raced : Decided(s)
    BY DEF PatternInv
  <2>3. \A s : Pat!Rows(s) \subseteq DOMAIN patterns
    BY DEF Pat!Rows
  <2>4. /\ patterns \in [DOMAIN patterns -> Pattern]
        /\ decision \in [1 .. MaxId -> Decisions \cup {None}]
    BY DEF PatternInv, PatternShape
  <2>5. /\ \A i \in DOMAIN patterns : patterns[i].status = Status(decision[i])
        /\ \A i \in 1 .. MaxId : i > ids => decision[i] = None
    BY DEF PatternInv, Heard
  <2> QED BY <2>1, <2>2, <2>3, <2>4, <2>5, RowsChange DEF Decided
<1>2. ASSUME NEW d \in Detectors, Pat!Write(d) PROVE PatternInv'
  BY <1>2, InsertInv, UpdateInv
<1>3. CASE Pat!Next
  BY <1>2, <1>3, RecordsInv, DetectsInv, SelectInv, WriteFailsInv, DecideInv, ResetInv, ExpireInv, CleanupInv
     DEF Pat!Next, Decisions
<1> QED BY <1>1, <1>3

LEMMA PatternsHold ==
    ASSUME TracesAreLists, PatternInv
    PROVE  Pat!DecisionStays /\ Pat!CountsTrue
<1>1. Pat!CountsTrue
  BY DEF PatternInv, RowsTrue, Repeated, Pat!CountsTrue
<1>2. ASSUME NEW s \in Pat!Sequences \ raced
      PROVE  Pat!Cardinality(Pat!Rows(s)) <= 1
  <2>1. Decided(s)
    BY DEF PatternInv
  <2>2. Cardinality(Pat!Rows(s)) <= 1
    <3>1. CASE Pat!Rows(s) = {}
      BY <3>1, FS_EmptySet
    <3>2. CASE Pat!Rows(s) # {}
      <4>1. PICK i \in Pat!Rows(s) : TRUE
        BY <3>2
      <4>2. \A j \in Pat!Rows(s) : j = i
        BY <2>1 DEF Decided
      <4>3. Pat!Rows(s) \subseteq {i} /\ IsFiniteSet({i}) /\ Cardinality({i}) = 1
        BY <4>2, FS_Singleton
      <4> QED BY <4>3, FS_Subset
    <3> QED BY <3>1, <3>2
  <2> QED BY <2>2, PatternOperators
<1>3. \A i \in DOMAIN patterns :
          patterns[i].status = IF decision[i] = None THEN "Detected" ELSE decision[i]
  BY DEF PatternInv, Heard, Status
<1> QED BY <1>1, <1>2, <1>3 DEF Pat!DecisionStays

(* For any plugins and threads, a plugin that the list shows as unloaded is not
   running, and one shown as loaded is, unless it was replaced since, whatever
   fails or panics; for any processes and whatever they do, a decision about a
   pattern stays in its row until it is reset or expires, a sequence has one row
   unless processes raced for it or a look-up that failed passed over it, and no
   row counts more than what some process has repeated. *)
THEOREM PluginsCorrect ==
    ASSUME NoPlugin, TracesAreLists
    PROVE  ServicesSpec => []PluginsSound
<1> DEFINE Inv == (part = "talons" => PluginInv) /\ (part = "patterns" => PatternInv)
<1>1. ServicesInit => Inv
  BY Begins, PluginInit, PatternInit
<1>2. Inv /\ [ServicesNext]_states => Inv'
  BY Moves, PluginNext, PatternNext
<1>3. Inv => PluginsSound
  BY PatternsHold DEF PluginInv, PluginsSound
<1> QED BY <1>1, <1>2, <1>3, PTL DEF ServicesSpec

--------------------------------------------------------------------------------
(* SyncEngine: what becomes of changes and of conflicts. *)

engine == s1
value == s2
wire == s3
clock == s4
queued == s6
met == s7
USE DEF engine, value, wire, clock, queued, met

Part == Devices \X Nat
Value == [parts : Seq(Part), ts : Nat]
Entry == [discarded : Seq(Part), winner_ts : Nat]
Engine == [key : Secrets \cup {None}, selected : Seq(Items), strategy : Dev!Strategies,
           queue : Seq(Value), log : Seq(Entry)]
History == [all : Seq(Value), flushed : Seq(Value)]
Messages == [key : Secrets \cup {None}, parts : Seq(Part), ts : Nat]

SyncShape ==
    /\ engine \in [Devices -> Engine]
    /\ value \in [Devices -> Value]
    /\ wire \subseteq Messages
    /\ clock \in Nat
    /\ queued \in [Devices -> History]
    /\ met \in [Devices -> SUBSET Part]

InConflictLog(log) == UNION {ToSet(w.discarded) : w \in ToSet(log)}
NothingLost(d) == met[d] \subseteq ToSet(value[d].parts) \cup InConflictLog(engine[d].log)
InQueue(d) == queued[d].all = queued[d].flushed \o engine[d].queue

SyncInv == SyncShape /\ \A d \in Devices : NothingLost(d) /\ InQueue(d)

LEMMA SyncInit ==
    ASSUME Dev!Init
    PROVE  SyncInv
<1>1. <<>> \in Seq(Part) /\ <<>> \in Seq(Value) /\ <<>> \in Seq(Entry) /\ <<>> \in Seq(Items)
  OBVIOUS
<1>2. SyncShape
  BY <1>1 DEF SyncShape, Dev!Init, Engine, Value, History, Dev!Strategies
<1>3. <<>> \o <<>> = <<>>
  BY <1>1, ConcatEmptySeq
<1> QED BY <1>2, <1>3 DEF SyncInv, NothingLost, InQueue, Dev!Init

(* A step that leaves device d with these records, and the others with theirs. *)
Becomes(d, e, v, q, m) ==
    /\ engine' = [engine EXCEPT ![d] = e] /\ e \in Engine
    /\ value' = [value EXCEPT ![d] = v] /\ v \in Value
    /\ queued' = [queued EXCEPT ![d] = q] /\ q \in History
    /\ met' = [met EXCEPT ![d] = m] /\ m \in SUBSET Part
    /\ clock' \in Nat /\ wire' \subseteq Messages
    /\ m \subseteq ToSet(v.parts) \cup InConflictLog(e.log)
    /\ q.all = q.flushed \o e.queue

LEMMA DeviceStep ==
    ASSUME SyncInv, NEW d \in Devices, NEW e, NEW v, NEW q, NEW m, Becomes(d, e, v, q, m)
    PROVE  SyncInv'
<1>1. SyncShape'
  BY DEF SyncInv, SyncShape, Becomes, Messages
<1>2. engine'[d] = e /\ value'[d] = v /\ queued'[d] = q /\ met'[d] = m
  BY DEF SyncInv, SyncShape, Becomes
<1>3. \A b \in Devices : b # d =>
          engine'[b] = engine[b] /\ value'[b] = value[b] /\ queued'[b] = queued[b] /\ met'[b] = met[b]
  BY DEF SyncInv, SyncShape, Becomes
<1>4. \A b \in Devices : NothingLost(b)'
  BY <1>2, <1>3 DEF SyncInv, NothingLost, InConflictLog, Becomes
<1>5. \A b \in Devices : InQueue(b)'
  BY <1>2, <1>3 DEF SyncInv, InQueue, Becomes
<1> QED BY <1>1, <1>4, <1>5 DEF SyncInv

LEMMA DeviceType ==
    ASSUME SyncInv, NEW d \in Devices
    PROVE  /\ engine[d] \in Engine /\ value[d] \in Value /\ queued[d] \in History
           /\ met[d] \in SUBSET Part /\ clock \in Nat /\ wire \subseteq Messages
           /\ met[d] \subseteq ToSet(value[d].parts) \cup InConflictLog(engine[d].log)
           /\ queued[d].all = queued[d].flushed \o engine[d].queue
BY DEF SyncInv, SyncShape, NothingLost, InQueue, Messages

LEMMA DeviceSame ==
    ASSUME SyncInv, NEW d \in Devices
    PROVE  /\ engine = [engine EXCEPT ![d] = engine[d]] /\ value = [value EXCEPT ![d] = value[d]]
           /\ queued = [queued EXCEPT ![d] = queued[d]] /\ met = [met EXCEPT ![d] = met[d]]
<1>1. \A f, S : f \in [Devices -> S] => f = [f EXCEPT ![d] = f[d]]
  OBVIOUS
<1> QED BY <1>1 DEF SyncInv, SyncShape

(* A step that leaves the device's value, queue and log alone. *)
LEMMA EnableInv ==
    ASSUME SyncInv, NEW d \in Devices,
           \/ \E s \in Secrets : Dev!enable(d, s)
           \/ \E s \in Dev!Strategies : Dev!set_conflict_strategy(d, s)
           \/ \E i \in Items : Dev!select_for_sync(d, i)
    PROVE  SyncInv'
<1> DEFINE old == engine[d]
<1>1. old \in Engine
  BY DeviceType
<1>2. UNCHANGED <<value, wire, clock, queued, met>>
  BY DEF Dev!enable, Dev!set_conflict_strategy, Dev!select_for_sync
<1> DEFINE Changes == \E e \in Engine : /\ engine' = [engine EXCEPT ![d] = e]
                                       /\ e.queue = old.queue /\ e.log = old.log
<1>3. Changes
  <2>1. ASSUME NEW s \in Secrets, Dev!enable(d, s)
        PROVE  Changes
    <3>1. engine' = [engine EXCEPT ![d] = [old EXCEPT !.key = s]]
      BY <2>1 DEF Dev!enable
    <3>2. [old EXCEPT !.key = s] \in Engine
      BY <1>1 DEF Engine
    <3> QED BY <1>1, <3>1, <3>2 DEF Engine
  <2>2. ASSUME NEW s \in Dev!Strategies, Dev!set_conflict_strategy(d, s)
        PROVE  Changes
    <3>1. engine' = [engine EXCEPT ![d] = [old EXCEPT !.strategy = s]]
      BY <2>2 DEF Dev!set_conflict_strategy
    <3>2. [old EXCEPT !.strategy = s] \in Engine
      BY <1>1, <2>2 DEF Engine
    <3> QED BY <1>1, <3>1, <3>2 DEF Engine
  <2>3. ASSUME NEW item \in Items, Dev!select_for_sync(d, item)
        PROVE  Changes
    <3> DEFINE items == IF \E i \in DOMAIN old.selected : old.selected[i] = item
                        THEN old.selected ELSE Append(old.selected, item)
    <3>1. engine' = [engine EXCEPT ![d] = [old EXCEPT !.selected = items]]
      BY <2>3 DEF Dev!select_for_sync
    <3>2. old.selected \in Seq(Items)
      BY <1>1 DEF Engine
    <3>3. items \in Seq(Items)
      BY <2>3, <3>2, AppendProperties
    <3> HIDE DEF items
    <3>4. [old EXCEPT !.selected = items] \in Engine
      BY <1>1, <3>3 DEF Engine
    <3> QED BY <1>1, <3>1, <3>4 DEF Engine
  <2> QED BY <2>1, <2>2, <2>3
<1>4. PICK e \in Engine : engine' = [engine EXCEPT ![d] = e] /\ e.queue = old.queue /\ e.log = old.log
  BY <1>3
<1>5. Becomes(d, e, value[d], queued[d], met[d])
  BY <1>2, <1>4, DeviceType, DeviceSame DEF Becomes
<1> QED BY <1>5, DeviceStep

LEMMA WriteValueInv ==
    ASSUME SyncInv, NEW d \in Devices, NEW tick \in {0, 1}, Dev!WriteValue(d, tick)
    PROVE  SyncInv'
<1> DEFINE p == <<d, clock'>>
           v == [parts |-> <<p>>, ts |-> clock']
<1>1. /\ clock' = clock + tick /\ value' = [value EXCEPT ![d] = v]
      /\ met' = [met EXCEPT ![d] = {p}] /\ UNCHANGED <<engine, wire, queued>>
  BY DEF Dev!WriteValue
<1>2. clock' \in Nat
  <2>1. clock \in Nat /\ tick \in Nat
    BY DEF SyncInv, SyncShape
  <2> QED BY <1>1, <2>1
<1>3. p \in Part /\ {p} \in SUBSET Part
  BY <1>2 DEF Part
<1> HIDE DEF p
<1>4. <<p>> \in Seq(Part) /\ ToSet(<<p>>) = {p}
  <2>1. <<p>> \in Seq(Part)
    BY <1>3
  <2>2. Len(<<p>>) = 1 /\ <<p>>[1] = p /\ DOMAIN <<p>> = 1 .. 1
    OBVIOUS
  <2> QED BY <2>1, <2>2, InToSet
<1>5. v \in Value /\ v.parts = <<p>>
  BY <1>2, <1>4 DEF Value
<1> HIDE DEF v
<1>6. Becomes(d, engine[d], v, queued[d], {p})
  BY <1>1, <1>2, <1>3, <1>4, <1>5, DeviceType, DeviceSame DEF Becomes
<1> QED BY <1>6, DeviceStep

LEMMA QueueInv ==
    ASSUME SyncInv, NEW d \in Devices, Dev!queue_change(d) \/ Dev!flush_queue(d)
    PROVE  SyncInv'
<1> DEFINE old == engine[d]
           q == queued[d]
<1>1. /\ old \in Engine /\ q \in History /\ value[d] \in Value
      /\ old.queue \in Seq(Value) /\ q.all \in Seq(Value) /\ q.flushed \in Seq(Value)
      /\ q.all = q.flushed \o old.queue
  BY DeviceType DEF Engine, History
<1>2. UNCHANGED <<value, wire, clock, met>>
  BY DEF Dev!queue_change, Dev!flush_queue
<1>3. CASE Dev!queue_change(d)
  <2> DEFINE e == [old EXCEPT !.queue = Append(@, value[d])]
             h == [q EXCEPT !.all = Append(@, value[d])]
  <2>1. engine' = [engine EXCEPT ![d] = e] /\ queued' = [queued EXCEPT ![d] = h]
    BY <1>3 DEF Dev!queue_change
  <2>2. Append(old.queue, value[d]) \in Seq(Value) /\ Append(q.all, value[d]) \in Seq(Value)
    BY <1>1, AppendProperties
  <2>3. /\ e \in Engine /\ e.queue = Append(old.queue, value[d]) /\ e.log = old.log
        /\ h \in History /\ h.all = Append(q.all, value[d]) /\ h.flushed = q.flushed
    BY <1>1, <2>2 DEF Engine, History
  <2> HIDE DEF e, h
  <2>4. h.all = h.flushed \o e.queue
    <3>1. q.flushed \o Append(old.queue, value[d]) = Append(q.flushed \o old.queue, value[d])
      <4>1. \A a, b \in Seq(Value) : \A x \in Value : a \o Append(b, x) = Append(a \o b, x)
        BY ConcatAppend
      <4> HIDE DEF old, q
      <4> QED BY <1>1, <4>1
    <3> QED BY <1>1, <2>3, <3>1
  <2>5. Becomes(d, e, value[d], h, met[d])
    BY <1>2, <2>1, <2>3, <2>4, DeviceType, DeviceSame DEF Becomes
  <2> QED BY <2>5, DeviceStep
<1>4. CASE Dev!flush_queue(d)
  <2> DEFINE e == [old EXCEPT !.queue = <<>>]
             h == [q EXCEPT !.flushed = @ \o old.queue]
  <2>1. engine' = [engine EXCEPT ![d] = e] /\ queued' = [queued EXCEPT ![d] = h]
    BY <1>4 DEF Dev!flush_queue
  <2>2. <<>> \in Seq(Value) /\ q.flushed \o old.queue \in Seq(Value)
    BY <1>1, ConcatProperties
  <2>3. /\ e \in Engine /\ e.queue = <<>> /\ e.log = old.log
        /\ h \in History /\ h.all = q.all /\ h.flushed = q.flushed \o old.queue
    BY <1>1, <2>2 DEF Engine, History
  <2> HIDE DEF e, h
  <2>4. h.flushed \o <<>> = h.flushed
    BY <2>2, <2>3, ConcatEmptySeq
  <2>5. h.all = h.flushed \o e.queue
    BY <1>1, <2>3, <2>4
  <2>6. Becomes(d, e, value[d], h, met[d])
    BY <1>2, <2>1, <2>3, <2>5, DeviceType, DeviceSame DEF Becomes
  <2> QED BY <2>6, DeviceStep
<1> QED BY <1>3, <1>4

LEMMA EncryptInv ==
    ASSUME SyncInv, NEW d \in Devices, Dev!encrypt(d)
    PROVE  SyncInv'
<1>1. /\ UNCHANGED <<engine, value, clock, queued, met>>
      /\ wire' = wire \cup {[key |-> engine[d].key, parts |-> value[d].parts, ts |-> value[d].ts]}
  BY DEF Dev!encrypt
<1>2. [key |-> engine[d].key, parts |-> value[d].parts, ts |-> value[d].ts] \in Messages
  <2>1. engine[d] \in Engine /\ value[d] \in Value
    BY DeviceType
  <2> QED BY <2>1 DEF Engine, Value, Messages
<1>3. wire' \subseteq Messages
  BY <1>1, <1>2, DeviceType
<1>4. Becomes(d, engine[d], value[d], queued[d], met[d])
  BY <1>1, <1>3, DeviceType, DeviceSame DEF Becomes
<1> QED BY <1>4, DeviceStep

LEMMA TakeInv ==
    ASSUME SyncInv, NEW d \in Devices, NEW m \in wire, Dev!Take(d, m)
    PROVE  SyncInv'
<1> DEFINE old == engine[d]
           local == value[d]
           remote == [parts |-> m.parts, ts |-> m.ts]
           parts == Dev!resolve_conflict(old.strategy, local, remote)
           ts == IF remote.ts > local.ts THEN remote.ts ELSE local.ts
           v == [parts |-> parts, ts |-> ts]
           entry == Dev!Discarded(local, remote)
           e == IF old.strategy = "LastWriterWins" THEN [old EXCEPT !.log = Append(@, entry)] ELSE old
           known == IF old.strategy = "Manual" THEN met[d] ELSE met[d] \cup ToSet(remote.parts)
<1>1. old \in Engine /\ local \in Value /\ remote \in Value /\ remote.parts = m.parts
  BY DeviceType DEF Value, Messages
<1>2. Dev!Parts(remote) = ToSet(remote.parts)
  BY DEF Dev!Parts, ToSet
<1>3. /\ value' = [value EXCEPT ![d] = v]
      /\ engine' = IF old.strategy = "LastWriterWins"
                   THEN [engine EXCEPT ![d].log = Append(@, entry)] ELSE engine
      /\ met' = [met EXCEPT ![d] = known]
      /\ wire' = wire \ {m} /\ UNCHANGED <<clock, queued>>
  BY <1>2 DEF Dev!Take, Dev!decrypt
<1>4. engine' = [engine EXCEPT ![d] = e]
  <2>1. CASE old.strategy = "LastWriterWins"
    BY <1>3, <2>1
  <2>2. CASE old.strategy # "LastWriterWins"
    <3>1. engine' = engine /\ e = engine[d]
      BY <1>3, <2>2
    <3> HIDE DEF e
    <3> QED BY <3>1, DeviceSame
  <2> QED BY <2>1, <2>2
<1>5. /\ local.parts \in Seq(Part) /\ remote.parts \in Seq(Part)
      /\ local.ts \in Nat /\ remote.ts \in Nat /\ ts \in Nat
      /\ old.strategy \in Dev!Strategies /\ old.log \in Seq(Entry)
  BY <1>1 DEF Value, Engine
<1>6. /\ ToSet(local.parts) \subseteq Part /\ ToSet(remote.parts) \subseteq Part
      /\ met[d] \subseteq Part
      /\ met[d] \subseteq ToSet(local.parts) \cup InConflictLog(old.log)
  BY <1>5, ToSetType, DeviceType
<1>7. known \in SUBSET Part
  BY <1>6
<1>8. entry \in Entry /\ e \in Engine /\ e.queue = old.queue
  BY <1>1, <1>5, AppendProperties DEF Dev!Discarded, Entry, Engine
<1>9. v \in Value /\ v.parts = parts /\ known \subseteq ToSet(parts) \cup InConflictLog(e.log)
  <2>1. CASE old.strategy = "LastWriterWins"
    <3>1. /\ parts = IF remote.ts > local.ts THEN remote.parts ELSE local.parts
          /\ entry.discarded = IF remote.ts > local.ts THEN local.parts ELSE remote.parts
          /\ e.log = Append(old.log, entry)
      BY <1>1, <2>1 DEF Dev!resolve_conflict, Dev!Discarded, Engine
    <3>2. ToSet(e.log) = ToSet(old.log) \cup {entry}
      BY <1>5, <1>8, <3>1, ToSetAppend
    <3>3. InConflictLog(e.log) = InConflictLog(old.log) \cup ToSet(entry.discarded)
      BY <3>2 DEF InConflictLog
    <3>4. ToSet(parts) \cup ToSet(entry.discarded) = ToSet(local.parts) \cup ToSet(remote.parts)
      BY <3>1
    <3>5. v \in Value
      BY <1>5, <3>1 DEF Value
    <3> QED BY <1>6, <3>3, <3>4, <3>5
  <2>2. CASE old.strategy = "Manual"
    BY <1>5, <1>6, <2>2 DEF Dev!resolve_conflict, Value
  <2>3. CASE old.strategy = "Merge"
    <3>1. parts = local.parts \o remote.parts /\ e.log = old.log
      BY <2>3 DEF Dev!resolve_conflict
    <3>2. parts \in Seq(Part) /\ ToSet(parts) = ToSet(local.parts) \cup ToSet(remote.parts)
      <4> DEFINE a == local.parts
                 b == remote.parts
      <4>1. a \in Seq(Part) /\ b \in Seq(Part) /\ parts = a \o b
        BY <1>5, <3>1
      <4> HIDE DEF a, b, parts
      <4>2. parts \in Seq(Part) /\ ToSet(parts) = ToSet(a) \cup ToSet(b)
        BY <4>1, ConcatProperties, ToSetConcat
      <4> QED BY <4>2 DEF a, b
    <3>3. v \in Value
      BY <1>5, <3>2 DEF Value
    <3> QED BY <1>6, <3>1, <3>2, <3>3
  <2> QED BY <1>5, <2>1, <2>2, <2>3 DEF Dev!Strategies
<1> HIDE DEF v, e, known, old
<1>10. wire' \subseteq Messages /\ clock' \in Nat
  BY <1>3, DeviceType
<1>11. /\ queued[d] \in History /\ queued[d].all = queued[d].flushed \o e.queue
       /\ queued' = [queued EXCEPT ![d] = queued[d]]
  BY <1>3, <1>8, DeviceType, DeviceSame DEF old
<1>12. Becomes(d, e, v, queued[d], known)
  BY <1>3, <1>4, <1>7, <1>8, <1>9, <1>10, <1>11 DEF Becomes
<1> QED BY <1>12, DeviceStep

LEMMA SyncNext ==
    ASSUME SyncInv, [Dev!Next]_(Dev!vars)
    PROVE  SyncInv'
<1>1. CASE UNCHANGED Dev!vars
  BY <1>1 DEF Dev!vars, SyncInv, SyncShape, NothingLost, InQueue
<1>2. CASE Dev!Next
  BY <1>2, EnableInv, WriteValueInv, QueueInv, EncryptInv, TakeInv DEF Dev!Next
<1> QED BY <1>1, <1>2

LEMMA SyncHolds ==
    ASSUME SyncInv
    PROVE  Dev!Agree /\ Dev!QueueKept /\ Dev!Lossless
<1>1. \A d \in Devices : value[d].ts \in Nat
  BY DEF SyncInv, SyncShape, Value
<1>2. Dev!Agree
  BY <1>1 DEF Dev!Agree, Dev!resolve_conflict
<1>3. Dev!QueueKept
  BY DEF SyncInv, InQueue, Dev!QueueKept
<1>4. Dev!Lossless
  BY DEF SyncInv, NothingLost, InConflictLog, ToSet, Dev!Lossless, Dev!Parts
<1> QED BY <1>2, <1>3, <1>4

(* For any devices, secrets and items, and whatever a device takes when: two that
   let the last writer win agree, the changes of a queue are flushed once each in
   their order, and what a device had or took is in its copy or in its log of
   conflicts. *)
THEOREM SyncCorrect == ServicesSpec => []SyncSound
<1> DEFINE Inv == part = "sync" => SyncInv
<1>1. ServicesInit => Inv
  BY Begins, SyncInit
<1>2. Inv /\ [ServicesNext]_states => Inv'
  BY Moves, SyncNext
<1>3. Inv => SyncSound
  BY SyncHolds DEF SyncSound
<1> QED BY <1>1, <1>2, <1>3, PTL DEF ServicesSpec

--------------------------------------------------------------------------------
(* NestClient: what is installed, found and published. *)

installed_packages == s1
package_index == s2
installs == s3
done == s4
manifest == s5
calls == s6
USE DEF installed_packages, package_index, installs, done, manifest, calls

Characters == UNION {ToSet(n) : n \in PackageNames}

(* A name is a text, and None is no version. *)
NamesAreTexts ==
    /\ PackageNames \subseteq Seq(Characters)
    /\ None \notin [text : {"1.0.0", "2.0.0"}, alone : BOOLEAN]

NestInv ==
    /\ Market!InstalledOnce
    /\ DOMAIN package_index \subseteq PackageNames
    /\ manifest.lines \in Seq(ManifestLines)

LEMMA NestInit ==
    ASSUME Market!Init
    PROVE  NestInv
BY DEF Market!Init, NestInv, Market!InstalledOnce

(* INSERT succeeds for a name without a row. *)
LEMMA InsertedOnce ==
    ASSUME NestInv, NEW c \in Clients, Market!Insert(c)
    PROVE  Market!InstalledOnce'
<1> DEFINE n == installs[c].name
           a == [name |-> n, version |-> installs[c].version, by |-> c]
           row == [version |-> installs[c].version, by |-> c]
<1>1. CASE n \in DOMAIN installed_packages
  <2>1. UNCHANGED <<installed_packages, done>>
    BY <1>1 DEF Market!Insert
  <2> QED BY <2>1 DEF NestInv, Market!InstalledOnce
<1>2. CASE n \notin DOMAIN installed_packages
  <2>1. installed_packages' = Market!With(installed_packages, n, row) /\ done' = done \cup {a}
    BY <1>2 DEF Market!Insert
  <2>2. /\ DOMAIN installed_packages' = DOMAIN installed_packages \cup {n}
        /\ installed_packages'[n] = row
        /\ \A m \in DOMAIN installed_packages : installed_packages'[m] = installed_packages[m]
    BY <1>2, <2>1 DEF Market!With
  <2>3. a.name = n /\ row = [version |-> a.version, by |-> a.by]
    OBVIOUS
  <2> HIDE DEF a, row
  <2>4. \A b \in done : b.name # n
    BY <1>2 DEF NestInv, Market!InstalledOnce
  <2>5. \A b, d \in done' : b.name = d.name => b = d
    BY <2>1, <2>3, <2>4 DEF NestInv, Market!InstalledOnce
  <2>6. \A b \in done' : /\ b.name \in DOMAIN installed_packages'
                        /\ installed_packages'[b.name] = [version |-> b.version, by |-> b.by]
    BY <2>1, <2>2, <2>3 DEF NestInv, Market!InstalledOnce
  <2>7. \A m \in DOMAIN installed_packages' : \E b \in done' : b.name = m
    BY <2>1, <2>2, <2>3 DEF NestInv, Market!InstalledOnce
  <2> QED BY <2>5, <2>6, <2>7 DEF Market!InstalledOnce
<1> QED BY <1>1, <1>2

LEMMA NestNext ==
    ASSUME NestInv, [Market!Next]_(Market!vars)
    PROVE  NestInv'
<1>1. ASSUME UNCHANGED <<installed_packages, done>> PROVE Market!InstalledOnce'
  BY <1>1 DEF NestInv, Market!InstalledOnce
<1>2. CASE UNCHANGED Market!vars
  BY <1>1, <1>2 DEF Market!vars, NestInv
<1>3. ASSUME NEW c \in Clients,
             Market!Count(c) \/ \E n, v, s : Market!Install(c, n, v, s)
      PROVE  NestInv'
  BY <1>1, <1>3 DEF Market!Count, Market!Install, NestInv
<1>4. ASSUME NEW c \in Clients, Market!Insert(c) PROVE NestInv'
  BY <1>4, InsertedOnce DEF Market!Insert, NestInv
<1>5. ASSUME NEW n \in PackageNames, NEW v \in Versions, Market!add_to_index(n, v)
      PROVE  NestInv'
  BY <1>1, <1>5 DEF Market!add_to_index, Market!With, NestInv
<1>6. ASSUME NEW l \in ManifestLines, Market!WriteLine(l) PROVE NestInv'
  BY <1>1, <1>6, AppendProperties DEF Market!WriteLine, NestInv
<1>7. ASSUME Market!Spoil PROVE NestInv'
  BY <1>1, <1>7 DEF Market!Spoil, NestInv
<1>8. CASE Market!Next
  BY <1>3, <1>4, <1>5, <1>6, <1>7, <1>8 DEF Market!Next
<1> QED BY <1>2, <1>8

(* A part of a name, lowered, is where it is in the lowered name. *)
LEMMA PartFound ==
    ASSUME NamesAreTexts, NEW n \in PackageNames, NEW i \in 1 .. Len(n), NEW j \in 1 .. Len(n),
           i <= j, "E^" \notin Market!Range(SubSeq(n, i, j))
    PROVE  Market!LikeAnywhere(Market!lower(n), Market!to_lowercase(SubSeq(n, i, j)))
<1> DEFINE q == SubSeq(n, i, j)
           low == Market!lower(n)
           want == Market!to_lowercase(q)
           at == i - 1
           k == j - i + 1
<1>1. n \in Seq(Characters) /\ Len(n) \in Nat /\ DOMAIN n = 1 .. Len(n)
  BY LenProperties DEF NamesAreTexts
<1>2. \A x \in i .. j : n[x] \in Characters
  BY <1>1, ElementOfSeq
<1>3. /\ q \in Seq(Characters) /\ Len(q) = k /\ k \in Nat
      /\ \A x \in 1 .. k : q[x] = n[at + x]
  <2>1. i \in Int /\ j \in Int
    BY <1>1
  <2>2. /\ q \in Seq(Characters) /\ Len(q) = IF i <= j THEN j - i + 1 ELSE 0
        /\ \A x \in 1 .. j - i + 1 : q[x] = n[i + x - 1]
    BY <1>2, <2>1, SubSeqProperties
  <2>3. \A x \in 1 .. k : i + x - 1 = at + x
    BY <2>1
  <2> QED BY <2>1, <2>2, <2>3
<1>4. DOMAIN q = 1 .. k
  BY <1>3, LenProperties
<1>5. \A x \in 1 .. k : q[x] # "E^"
  BY <1>4 DEF Market!Range
<1> HIDE DEF q
<1>6. low = [x \in 1 .. Len(n) |-> IF n[x] = "A" THEN "a" ELSE n[x]]
  BY <1>1 DEF Market!lower
<1>7. Len(low) = Len(n)
  BY <1>1, <1>6
<1>8. want = [x \in 1 .. k |-> CASE q[x] = "A" -> "a" [] q[x] = "E^" -> "e^" [] OTHER -> q[x]]
  BY <1>4 DEF Market!to_lowercase
<1>9. Len(want) = k /\ DOMAIN want = 1 .. k
  BY <1>3, <1>8
<1>10. \A x \in 1 .. k : want[x] = IF q[x] = "A" THEN "a" ELSE q[x]
  BY <1>5, <1>8
<1>11. \A x \in 1 .. k : at + x \in 1 .. Len(n)
  BY <1>1
<1>12. \A x \in 1 .. k : want[x] = low[at + x]
  BY <1>3, <1>6, <1>10, <1>11
<1>13. at \in 0 .. (Len(low) - Len(want))
  BY <1>1, <1>7, <1>9
<1> HIDE DEF low, want, at, k
<1> QED BY <1>9, <1>12, <1>13 DEF Market!LikeAnywhere, low, want, q

LEMMA SearchWorks ==
    ASSUME NamesAreTexts, NestInv
    PROVE  Market!SearchFinds
BY PartFound DEF NestInv, Market!SearchFinds, Market!search

(* The only line that reads like a version is the first that does. *)
LEMMA VersionPublished ==
    ASSUME NamesAreTexts, NestInv
    PROVE  Market!PublishedVersion
<1> DEFINE src == manifest.lines
           like == {i \in DOMAIN src : src[i].key \in Market!VersionLike}
           good == {"1.0.0", "2.0.0"}
<1>1. src \in Seq(ManifestLines) /\ DOMAIN src = 1 .. Len(src) /\ Len(src) \in Nat
  BY LenProperties DEF NestInv
<1>2. IsFiniteSet(like) /\ Market!Cardinality(like) = Cardinality(like)
  <2>1. IsFiniteSet(1 .. Len(src))
    BY <1>1, FS_Interval
  <2>2. IsFiniteSet(like)
    BY <1>1, <2>1, FS_Subset
  <2> QED BY <2>2 DEF Market!Cardinality, Cardinality
<1> HIDE DEF src
<1>3. ASSUME NEW l \in Market!Range(src), l.key = "version", Cardinality(like) = 1
      PROVE  /\ Market!publish(manifest) => l.text \in good
             /\ manifest.file = "text" /\ Market!Alone(l) /\ l.text \in good => Market!publish(manifest)
  <2> DEFINE S == {m \in Market!Range(src) : m.key \in Market!VersionLike
                                            /\ (Market!Alone(m) => m.text # Market!Empty)}
             lines == Only(src, S)
             version == [text |-> l.text, alone |-> Market!Alone(l)]
  <2>1. PICK i \in DOMAIN src : src[i] = l
    BY <1>3 DEF Market!Range
  <2>2. i \in like
    BY <1>3, <2>1 DEF Market!VersionLike
  <2>3. PICK x : like = {x}
    BY <1>2, <1>3, FS_Singleton
  <2>4. \A j \in like : j = i
    BY <2>2, <2>3
  <2>5. S = IF Market!Alone(l) => l.text # Market!Empty THEN {l} ELSE {}
    <3>1. \A m \in S : m = l
      BY <2>1, <2>4 DEF Market!Range
    <3>2. l \in S <=> (Market!Alone(l) => l.text # Market!Empty)
      BY <1>3 DEF Market!VersionLike
    <3> QED BY <3>1, <3>2
  <2>6. Market!Range(src) = ToSet(src)
    BY DEF Market!Range, ToSet
  <2>7. Market!Only(src, S) = lines
    BY DEF Market!Only, Only
  <2>8. S \subseteq ToSet(src)
    BY <2>6
  <2>9. Market!extract_version_from_manifest(src) =
            IF lines = <<>> THEN None
            ELSE [text |-> Head(lines).text, alone |-> Market!Alone(Head(lines))]
    BY <2>7 DEF Market!extract_version_from_manifest
  <2> HIDE DEF S
  <2>10. lines \in Seq(ManifestLines) /\ ToSet(lines) = S
    BY <1>1, <2>8, OnlyOf DEF lines
  <2> HIDE DEF lines
  <2>11. Market!publish(manifest) <=>
            /\ manifest.file = "text"
            /\ Market!extract_version_from_manifest(src) # None
            /\ Market!is_valid_semver(Market!extract_version_from_manifest(src))
    BY DEF Market!publish, src
  <2>12. CASE Market!Alone(l) => l.text # Market!Empty
    <3>1. lines # <<>> /\ ToSet(lines) = {l}
      BY <2>5, <2>10, <2>12, ToSetEmpty
    <3>2. Head(lines) = l
      BY <2>10, <3>1, ToSetTail
    <3>3. Market!extract_version_from_manifest(src) = version
      BY <2>9, <3>1, <3>2
    <3>4. Market!is_valid_semver(version) <=> Market!Alone(l) /\ l.text \in good
      BY DEF Market!is_valid_semver
    <3>5. Market!Alone(l) /\ l.text \in good => version # None
      <4>1. Market!Alone(l) \in BOOLEAN
        BY DEF Market!Alone
      <4>2. l.text \in good => version \in [text : good, alone : BOOLEAN]
        BY <4>1
      <4> QED BY <4>2 DEF NamesAreTexts
    <3> HIDE DEF version
    <3> QED BY <2>11, <3>3, <3>4, <3>5
  <2>13. CASE Market!Alone(l) /\ l.text = Market!Empty
    <3>1. lines = <<>>
      <4>1. lines # <<>> => Head(lines) \in ToSet(lines)
        BY <2>10, ToSetTail
      <4> QED BY <2>5, <2>10, <2>13, <4>1
    <3> QED BY <2>9, <2>11, <2>13, <3>1 DEF Market!Empty
  <2> QED BY <2>12, <2>13
<1> QED BY <1>2, <1>3 DEF Market!PublishedVersion, src

(* For any processes, names and manifests: of the installs of a name one succeeds,
   whoever comes between its two statements; a listing is found by the parts of
   its name; and a manifest with one line like a version is published under no
   other, and under that one when it is written plainly and can be read. *)
THEOREM NestCorrect ==
    ASSUME NamesAreTexts
    PROVE  ServicesSpec => []NestSound
<1> DEFINE Inv == part = "nest" => NestInv
<1>1. ServicesInit => Inv
  BY Begins, NestInit
<1>2. Inv /\ [ServicesNext]_states => Inv'
  BY Moves, NestNext
<1>3. Inv => NestSound
  BY SearchWorks, VersionPublished DEF NestInv, NestSound
<1> QED BY <1>1, <1>2, <1>3, PTL DEF ServicesSpec

--------------------------------------------------------------------------------
(* LlmRouter: which provider answers. *)

requests == s1
given_up == s2
answer == s3
USE DEF requests, given_up, answer

(* No provider is configured twice, and priorities are numbers. *)
ProvidersAreListed ==
    /\ Configured \in Seq(Route!Providers) /\ Distinct(Configured)
    /\ \A p \in Route!Providers : p.priority \in Nat

Routing == [pc : {"idle", "try"}, local_only : BOOLEAN, todo : Seq(Route!Providers),
            refused : SUBSET Route!Providers]
Reply == [by : Route!Providers \cup {None}, local_only : BOOLEAN,
          refused : SUBSET Route!Providers]

(* Whoever may be asked has refused or is yet to be asked, in this order. *)
Walk(c) ==
    /\ c.refused \cup ToSet(c.todo) = Route!Eligible(c.local_only)
    /\ Ordered(c.todo, Route!Preference)
    /\ \A p \in c.refused, q \in ToSet(c.todo) : <<p, q>> \in Route!Preference

RouterInv ==
    /\ requests \in [Agents -> Routing] /\ answer \in [Agents -> Reply]
    /\ given_up \in Seq([agent : Agents, local_only : BOOLEAN, refused : SUBSET Route!Providers])
    /\ \A a \in Agents : requests[a].pc = "try" => Walk(requests[a])
    /\ Route!BestAnswer

LEMMA RouterFilters ==
    /\ \A s, S : Route!Only(s, S) = Only(s, S)
    /\ \A s, R : Route!Sorted(s, R) = Sorted(s, R)
    /\ \A s : Route!Range(s) = ToSet(s)
<1>1. \A s, S : Route!Only(s, S) = Only(s, S)
  BY DEF Route!Only, Only
<1>2. \A s, x, R : Route!Inserted(s, x, R) = Inserted(s, x, R)
  BY <1>1 DEF Route!Inserted, Inserted
<1>3. \A s, R : Route!Sorted(s, R) = Sorted(s, R)
  BY <1>2 DEF Route!Sorted, Sorted
<1>4. \A s : Route!Range(s) = ToSet(s)
  BY DEF Route!Range, ToSet
<1> QED BY <1>1, <1>3, <1>4

(* The places of two providers say which comes first. *)
LEMMA Places ==
    ASSUME ProvidersAreListed
    PROVE  /\ \A p \in Route!Providers : \E i \in DOMAIN Configured : Configured[i] = p
           /\ \A i, j \in DOMAIN Configured :
                 /\ Configured[i].priority \in Nat
                 /\ Configured[i] \in Route!Providers
                 /\ <<Configured[i], Configured[j]>> \in Route!Preference <=>
                       \/ Configured[i].priority < Configured[j].priority
                       \/ Configured[i].priority = Configured[j].priority /\ i < j
<1>1. Route!Providers = {Configured[i] : i \in DOMAIN Configured}
  BY DEF Route!Providers, Route!Range
<1>2. ASSUME NEW i \in DOMAIN Configured, NEW j \in DOMAIN Configured
      PROVE  (\E k, l \in DOMAIN Configured :
                 k < l /\ Configured[k] = Configured[i] /\ Configured[l] = Configured[j]) <=> i < j
  BY DEF ProvidersAreListed, Distinct
<1>3. ASSUME NEW i \in DOMAIN Configured, NEW j \in DOMAIN Configured
      PROVE  /\ Configured[i].priority \in Nat /\ Configured[i] \in Route!Providers
             /\ <<Configured[i], Configured[j]>> \in Route!Preference <=>
                   \/ Configured[i].priority < Configured[j].priority
                   \/ Configured[i].priority = Configured[j].priority /\ i < j
  <2> DEFINE p == Configured[i]
             q == Configured[j]
             first == \E k, l \in DOMAIN Configured :
                         k < l /\ Configured[k] = p /\ Configured[l] = q
  <2> SUFFICES /\ p.priority \in Nat /\ p \in Route!Providers
               /\ <<p, q>> \in Route!Preference <=>
                     \/ p.priority < q.priority
                     \/ p.priority = q.priority /\ i < j
    OBVIOUS
  <2>1. p \in Route!Providers /\ q \in Route!Providers
    BY <1>1
  <2>2. p.priority \in Nat
    BY DEF ProvidersAreListed
  <2>3. first <=> i < j
    BY <1>2
  <2> HIDE DEF p, q
  <2>4. Route!Before(p, q) <=>
           \/ p.priority < q.priority
           \/ p.priority = q.priority /\ first
    BY Zenon DEF Route!Before
  <2>5. <<p, q>> \in Route!Preference <=> Route!Before(p, q)
    BY <2>1 DEF Route!Preference
  <2> HIDE DEF first
  <2> QED BY <2>1, <2>2, <2>3, <2>4, <2>5
<1>4. \A p \in Route!Providers : \E i \in DOMAIN Configured : Configured[i] = p
  BY <1>1
<1> QED BY <1>3, <1>4

(* An order of all that are configured. *)
LEMMA Preferences ==
    ASSUME ProvidersAreListed
    PROVE  /\ \A p, q, r \in Route!Providers :
                 <<p, q>> \in Route!Preference /\ <<q, r>> \in Route!Preference
                    => <<p, r>> \in Route!Preference
           /\ \A p, q \in Route!Providers :
                 ~ (<<p, q>> \in Route!Preference /\ <<q, p>> \in Route!Preference)
           /\ \A i, j \in DOMAIN Configured : i < j =>
                 \/ <<Configured[i], Configured[j]>> \in Route!Preference
                 \/ <<Configured[j], Configured[i]>> \in Route!Preference
<1>1. \A i \in DOMAIN Configured : i \in Nat
  BY LenProperties DEF ProvidersAreListed
<1>2. ASSUME NEW p \in Route!Providers, NEW q \in Route!Providers, NEW r \in Route!Providers
      PROVE  /\ <<p, q>> \in Route!Preference /\ <<q, r>> \in Route!Preference
                   => <<p, r>> \in Route!Preference
             /\ ~ (<<p, q>> \in Route!Preference /\ <<q, p>> \in Route!Preference)
  <2>1. PICK i \in DOMAIN Configured : Configured[i] = p
    BY Places
  <2>2. PICK j \in DOMAIN Configured : Configured[j] = q
    BY Places
  <2>3. PICK k \in DOMAIN Configured : Configured[k] = r
    BY Places
  <2>4. \A k1, k2 \in DOMAIN Configured :
           <<Configured[k1], Configured[k2]>> \in Route!Preference <=>
              \/ Configured[k1].priority < Configured[k2].priority
              \/ Configured[k1].priority = Configured[k2].priority /\ k1 < k2
    BY Places
  <2>6. /\ <<p, q>> \in Route!Preference <=>
              \/ p.priority < q.priority
              \/ p.priority = q.priority /\ i < j
        /\ <<q, p>> \in Route!Preference <=>
              \/ q.priority < p.priority
              \/ q.priority = p.priority /\ j < i
        /\ <<q, r>> \in Route!Preference <=>
              \/ q.priority < r.priority
              \/ q.priority = r.priority /\ j < k
        /\ <<p, r>> \in Route!Preference <=>
              \/ p.priority < r.priority
              \/ p.priority = r.priority /\ i < k
    BY <2>1, <2>2, <2>3, <2>4
  <2>5. p.priority \in Nat /\ q.priority \in Nat /\ r.priority \in Nat
        /\ i \in Nat /\ j \in Nat /\ k \in Nat
    BY <1>1, <2>1, <2>2, <2>3, Places
  <2> QED BY <2>5, <2>6
<1>3. ASSUME NEW i \in DOMAIN Configured, NEW j \in DOMAIN Configured, i < j
      PROVE  \/ <<Configured[i], Configured[j]>> \in Route!Preference
             \/ <<Configured[j], Configured[i]>> \in Route!Preference
  <2>1. /\ Configured[i].priority \in Nat /\ Configured[j].priority \in Nat
        /\ <<Configured[i], Configured[j]>> \in Route!Preference <=>
              \/ Configured[i].priority < Configured[j].priority
              \/ Configured[i].priority = Configured[j].priority /\ i < j
        /\ <<Configured[j], Configured[i]>> \in Route!Preference <=>
              \/ Configured[j].priority < Configured[i].priority
              \/ Configured[j].priority = Configured[i].priority /\ j < i
    BY Places
  <2> QED BY <1>3, <2>1
<1> QED BY <1>2, <1>3

(* What a request walks at first. *)
LEMMA EligibleInOrder ==
    ASSUME ProvidersAreListed, NEW gap
    PROVE  LET walk == Route!filter_for_air_gap(Route!new(Configured), gap)
           IN  /\ walk \in Seq(Route!Providers) /\ ToSet(walk) = Route!Eligible(gap)
               /\ Ordered(walk, Route!Preference)
<1> DEFINE all == Sorted(Configured, Route!Preference)
           S == {p \in ToSet(all) : ~gap \/ p.local}
<1>1. /\ all \in Seq(Route!Providers) /\ ToSet(all) = ToSet(Configured)
      /\ Ordered(all, Route!Preference)
  <2>1. Configured \in Seq(Route!Providers)
    BY DEF ProvidersAreListed
  <2> QED BY <2>1, Preferences, SortedFacts
<1>2. ToSet(Configured) = Route!Providers
  BY DEF Route!Providers, Route!Range, ToSet
<1>3. Route!filter_for_air_gap(Route!new(Configured), gap) = Only(all, S)
  BY RouterFilters DEF Route!filter_for_air_gap, Route!new
<1>4. S = Route!Eligible(gap) /\ S \subseteq ToSet(all)
  BY <1>1, <1>2 DEF Route!Eligible
<1> HIDE DEF S, all
<1>5. Only(all, S) \in Seq(Route!Providers) /\ ToSet(Only(all, S)) = S
  BY <1>1, <1>4, OnlyOf
<1>6. Ordered(Only(all, S), Route!Preference)
  BY <1>1, OnlyOrdered
<1> QED BY <1>3, <1>4, <1>5, <1>6

(* The two filters are one. *)
LEMMA OneFilter ==
    ASSUME NEW gap, NEW ps
    PROVE  Route!filter_llm_providers(gap, ps) = Route!filter_for_air_gap(ps, gap)
BY DEF Route!filter_llm_providers, Route!filter_for_air_gap, Route!check_llm_provider

LEMMA RouterInit ==
    ASSUME Route!Init
    PROVE  RouterInv
<1>1. Route!NoCall \in Routing /\ Route!NoAnswer \in Reply
  BY DEF Route!NoCall, Route!NoAnswer, Routing, Reply
<1>2. Route!NoCall.pc # "try" /\ Route!NoAnswer.by = None
  BY DEF Route!NoCall, Route!NoAnswer
<1>3. Route!BestAnswer
  BY <1>2, OneFilter DEF Route!Init, Route!BestAnswer
<1> QED BY <1>1, <1>2, <1>3 DEF Route!Init, RouterInv

(* The first provider that is left, and what comes after it. *)
LEMMA WalkOn ==
    ASSUME ProvidersAreListed, NEW c \in Routing, Walk(c), c.todo # <<>>
    PROVE  /\ Head(c.todo) \in Route!Eligible(c.local_only)
           /\ c.refused = {p \in Route!Eligible(c.local_only) :
                              <<p, Head(c.todo)>> \in Route!Preference}
           /\ Tail(c.todo) \in Seq(Route!Providers) /\ Ordered(Tail(c.todo), Route!Preference)
           /\ (c.refused \cup {Head(c.todo)}) \cup ToSet(Tail(c.todo))
                 = Route!Eligible(c.local_only)
           /\ \A p \in c.refused \cup {Head(c.todo)}, q \in ToSet(Tail(c.todo)) :
                 <<p, q>> \in Route!Preference
<1> DEFINE h == Head(c.todo)
           t == Tail(c.todo)
           E == Route!Eligible(c.local_only)
<1>1. c.todo \in Seq(Route!Providers) /\ c.refused \subseteq Route!Providers
  BY DEF Routing
<1>2. h \in Route!Providers /\ t \in Seq(Route!Providers) /\ ToSet(c.todo) = {h} \cup ToSet(t)
  BY <1>1, ToSetTail
<1>3. <<h>> \in Seq(Route!Providers) /\ c.todo = <<h>> \o t /\ ToSet(<<h>>) = {h}
  BY <1>1, <1>2 DEF ToSet
<1>4. E \subseteq Route!Providers
  BY DEF Route!Eligible
<1> HIDE DEF h, t, E
<1>5. /\ Ordered(t, Route!Preference)
      /\ \A x \in {h}, y \in ToSet(t) : <<x, y>> \in Route!Preference
  <2>1. Ordered(<<h>> \o t, Route!Preference)
    BY <1>3 DEF Walk
  <2>2. /\ Ordered(t, Route!Preference)
        /\ \A x \in ToSet(<<h>>), y \in ToSet(t) : <<x, y>> \in Route!Preference
    BY <1>2, <1>3, <2>1, OrderedConcat
  <2> QED BY <1>3, <2>2
<1>6. c.refused \cup {h} \cup ToSet(t) = E
  BY <1>2 DEF Walk, E
<1>7. \A p \in c.refused : /\ <<p, h>> \in Route!Preference
                           /\ \A q \in ToSet(t) : <<p, q>> \in Route!Preference
  BY <1>2 DEF Walk
<1>8. \A p \in ToSet(t) \cup {h} : ~ (<<p, h>> \in Route!Preference)
  BY <1>2, <1>4, <1>5, <1>6, Preferences
<1> QED BY <1>2, <1>5, <1>6, <1>7, <1>8 DEF h, t, E

LEMMA RouterNext ==
    ASSUME ProvidersAreListed, RouterInv, [Route!Next]_(Route!vars)
    PROVE  RouterInv'
<1>1. CASE UNCHANGED Route!vars
  BY <1>1 DEF Route!vars, RouterInv, Route!BestAnswer
<1>2. ASSUME NEW a \in Agents, NEW gap \in BOOLEAN, Route!route_request(a, gap)
      PROVE  RouterInv'
  <2> DEFINE walk == Route!filter_for_air_gap(Route!new(Configured), gap)
             c == [pc |-> "try", local_only |-> gap, refused |-> {}, todo |-> walk]
  <2>1. requests' = [requests EXCEPT ![a] = c] /\ UNCHANGED <<given_up, answer>>
    BY <1>2 DEF Route!route_request
  <2>2. /\ walk \in Seq(Route!Providers) /\ ToSet(walk) = Route!Eligible(gap)
        /\ Ordered(walk, Route!Preference)
    BY EligibleInOrder
  <2> HIDE DEF walk
  <2>3. c \in Routing /\ Walk(c)
    BY <2>2 DEF Routing, Walk
  <2> HIDE DEF c
  <2>4. Route!BestAnswer'
    BY <2>1 DEF RouterInv, Route!BestAnswer
  <2> QED BY <2>1, <2>3, <2>4 DEF RouterInv
<1>3. ASSUME NEW a \in Agents, Route!Answers(a)
      PROVE  RouterInv'
  <2> DEFINE c == requests[a]
             r == [by |-> Head(c.todo), local_only |-> c.local_only, refused |-> c.refused]
  <2>1. /\ c.todo # <<>> /\ answer' = [answer EXCEPT ![a] = r]
        /\ requests' = [requests EXCEPT ![a] = Route!NoCall] /\ given_up' = given_up
    BY <1>3 DEF Route!Answers
  <2>2. c \in Routing /\ Walk(c)
    BY <1>3 DEF Route!Answers, RouterInv
  <2>3. Route!NoCall \in Routing /\ Route!NoCall.pc # "try"
    BY DEF Route!NoCall, Routing
  <2> DEFINE E == Route!Eligible(c.local_only)
  <2>4. /\ Head(c.todo) \in E
        /\ c.refused = {p \in E : <<p, Head(c.todo)>> \in Route!Preference}
    BY <2>1, <2>2, WalkOn
  <2>5. E \subseteq Route!Providers /\ (c.local_only => \A p \in E : p.local)
    BY DEF Route!Eligible
  <2>6. r \in Reply
    BY <2>2, <2>4, <2>5 DEF Reply, Routing
  <2>7. /\ Route!check_llm_provider(r.local_only, r.by)
        /\ r.refused = {p \in Route!Eligible(r.local_only) : Route!Before(p, r.by)}
    BY <2>4, <2>5 DEF Route!check_llm_provider, Route!Preference
  <2> HIDE DEF r
  <2>8. Route!BestAnswer'
    BY <2>1, <2>7 DEF RouterInv, Route!BestAnswer
  <2> HIDE DEF c
  <2> QED BY <2>1, <2>3, <2>6, <2>8 DEF RouterInv
<1>4. ASSUME NEW a \in Agents, Route!Falls(a)
      PROVE  RouterInv'
  <2> DEFINE c == requests[a]
             d == [c EXCEPT !.todo = Tail(@), !.refused = @ \cup {Head(c.todo)}]
  <2>1. /\ c.todo # <<>> /\ requests' = [requests EXCEPT ![a] = d]
        /\ UNCHANGED <<given_up, answer>>
    BY <1>4 DEF Route!Falls, RouterInv
  <2>2. c \in Routing /\ Walk(c)
    BY <1>4 DEF Route!Falls, RouterInv
  <2>3. d.local_only = c.local_only /\ d.todo = Tail(c.todo) /\ d.pc = c.pc
        /\ d.refused = c.refused \cup {Head(c.todo)}
    BY <2>2 DEF Routing
  <2>4. Walk(d)
    <3> HIDE DEF c, d
    <3> QED BY <2>1, <2>2, <2>3, WalkOn DEF Walk
  <2>5. d \in Routing
    <3>1. Head(c.todo) \in Route!Providers /\ Tail(c.todo) \in Seq(Route!Providers)
      BY <2>1, <2>2 DEF Routing
    <3> QED BY <2>2, <3>1 DEF Routing
  <2> HIDE DEF c, d
  <2>6. Route!BestAnswer'
    BY <2>1 DEF RouterInv, Route!BestAnswer
  <2> QED BY <2>1, <2>4, <2>5, <2>6 DEF RouterInv
<1>5. ASSUME NEW a \in Agents, Route!Queue(a)
      PROVE  RouterInv'
  <2> DEFINE c == requests[a]
             g == [agent |-> a, local_only |-> c.local_only, refused |-> c.refused]
             G == [agent : Agents, local_only : BOOLEAN, refused : SUBSET Route!Providers]
  <2>1. /\ c.todo = <<>> /\ given_up' = Append(given_up, g)
        /\ requests' = [requests EXCEPT ![a] = Route!NoCall]
        /\ answer' = [answer EXCEPT ![a] = Route!NoAnswer]
    BY <1>5 DEF Route!Queue
  <2>2. c \in Routing /\ Walk(c)
    BY <1>5 DEF Route!Queue, RouterInv
  <2>3. /\ Route!NoCall \in Routing /\ Route!NoCall.pc # "try"
        /\ Route!NoAnswer \in Reply /\ Route!NoAnswer.by = None
    BY DEF Route!NoCall, Routing, Route!NoAnswer, Reply
  <2>4. g \in G
    BY <2>2 DEF Routing
  <2>5. g.refused = Route!Eligible(g.local_only)
    BY <2>1, <2>2, ToSetEmpty DEF Walk
  <2> HIDE DEF g
  <2>6. given_up \in Seq(G)
    BY DEF RouterInv
  <2>7. /\ Append(given_up, g) \in Seq(G)
        /\ \A i \in DOMAIN Append(given_up, g) :
              \/ Append(given_up, g)[i] = g
              \/ i \in DOMAIN given_up /\ Append(given_up, g)[i] = given_up[i]
    BY <2>4, <2>6
  <2>8. \A i \in DOMAIN given_up' : given_up'[i].refused = Route!Eligible(given_up'[i].local_only)
    BY <2>1, <2>5, <2>7 DEF RouterInv, Route!BestAnswer
  <2>9. Route!BestAnswer'
    BY <2>1, <2>3, <2>8 DEF RouterInv, Route!BestAnswer
  <2> HIDE DEF c
  <2> QED BY <2>1, <2>3, <2>7, <2>9 DEF RouterInv
<1> QED BY <1>1, <1>2, <1>3, <1>4, <1>5 DEF Route!Next

(* For any providers and agents, and whichever providers answer when: a request is
   answered by the first in the order of priorities that may be used and did not
   refuse, and is given up when all of them have refused. *)
THEOREM RouterCorrect ==
    ASSUME ProvidersAreListed
    PROVE  ServicesSpec => []RouterSound
<1> DEFINE Inv == part = "router" => RouterInv
<1>1. ServicesInit => Inv
  BY Begins, RouterInit
<1>2. Inv /\ [ServicesNext]_states => Inv'
  BY Moves, RouterNext
<1>3. Inv => RouterSound
  BY DEF RouterInv, RouterSound
<1> QED BY <1>1, <1>2, <1>3, PTL DEF ServicesSpec

--------------------------------------------------------------------------------
(* HawkEyeApp: what is on the screen, and what a key does to it. *)

agents == s1
alerts == s2
selected_agent == s3
view == s4
search_query == s5
loop == s7
screen == s9
rolled == s10
USE DEF agents, alerts, selected_agent, view, search_query, loop, screen, rolled

AgentRow == UNION {ToSet(l) : l \in AgentLists}

(* The dashboard is fed lists, a timestamp is a number, and so is what a terminal
   has room for. *)
ListsAreFed ==
    AgentLists \subseteq Seq(AgentRow) /\ AlertLists \subseteq Seq(Nat) /\ Heights \subseteq Nat

(* While it waits for a key, a dashboard shows what the key will apply to, as far
   as there is room. *)
AsShown ==
    loop = "poll" /\ screen.view = "dashboard" /\ ~screen.fed =>
        \E height \in Heights :
            /\ screen.rows = Eye!draw_agent_list(height).pids
            /\ screen.bold = Eye!draw_agent_list(height).bold

DashboardInv ==
    /\ agents \in Seq(AgentRow) /\ alerts \in Seq(Nat)
    /\ screen = [view |-> screen.view, rows |-> screen.rows, bold |-> screen.bold,
                 alerts |-> screen.alerts, fed |-> screen.fed]
    /\ AsShown /\ Eye!NewestShown

LEMMA EyeFilters ==
    /\ \A s, S : Eye!Only(s, S) = Only(s, S)
    /\ \A s, R : Eye!Sorted(s, R) = Sorted(s, R)
    /\ \A s : Eye!Range(s) = ToSet(s)
<1>1. \A s, S : Eye!Only(s, S) = Only(s, S)
  BY DEF Eye!Only, Only
<1>2. \A s, x, R : Eye!Inserted(s, x, R) = Inserted(s, x, R)
  BY <1>1 DEF Eye!Inserted, Inserted
<1>3. \A s, R : Eye!Sorted(s, R) = Sorted(s, R)
  BY <1>2 DEF Eye!Sorted, Sorted
<1>4. \A s : Eye!Range(s) = ToSet(s)
  BY DEF Eye!Range, ToSet
<1> QED BY <1>1, <1>3, <1>4

LEMMA DashboardInit ==
    ASSUME Eye!Init
    PROVE  DashboardInv
<1>1. agents = <<>> /\ alerts = <<>>
  BY DEF Eye!Init, Eye!HawkEyeApp
<1>2. agents \in Seq(AgentRow) /\ alerts \in Seq(Nat)
  BY <1>1, EmptySeq
<1>3. /\ screen = [view |-> "none", rows |-> <<>>, bold |-> 0, alerts |-> <<>>, fed |-> FALSE]
      /\ screen.view = "none"
  BY DEF Eye!Init, Eye!Blank
<1>4. screen = [view |-> screen.view, rows |-> screen.rows, bold |-> screen.bold,
                alerts |-> screen.alerts, fed |-> screen.fed]
  BY <1>3
<1> QED BY <1>2, <1>3, <1>4 DEF DashboardInv, AsShown, Eye!NewestShown

(* What a draw shows. *)
LEMMA ShownRecord ==
    ASSUME NEW height \in Heights, NEW below \in Heights
    PROVE  LET shown == Eye!Shown(height, below)
           IN  /\ shown = [view |-> shown.view, rows |-> shown.rows, bold |-> shown.bold,
                             alerts |-> shown.alerts, fed |-> shown.fed]
               /\ shown.view = "dashboard" =>
                     /\ shown.rows = Eye!draw_agent_list(height).pids
                     /\ shown.bold = Eye!draw_agent_list(height).bold
                     /\ shown.alerts = Eye!draw_alerts_summary(below)
<1>1. CASE view = "dashboard"
  <2>1. Eye!Shown(height, below) = [view |-> view, rows |-> Eye!draw_agent_list(height).pids,
                     bold |-> Eye!draw_agent_list(height).bold, alerts |-> Eye!draw_alerts_summary(below),
                     fed |-> FALSE]
    BY <1>1 DEF Eye!Shown, Eye!Blank
  <2> QED BY <2>1
<1>2. CASE view = "alerts"
  <2>1. Eye!Shown(height, below) = [view |-> "alerts", rows |-> <<>>, bold |-> 0,
                     alerts |-> Eye!draw_alerts_panel(height), fed |-> FALSE]
    BY <1>2 DEF Eye!Shown, Eye!Blank
  <2> QED BY <2>1
<1>3. CASE view = "graph"
  <2>1. Eye!Shown(height, below) = [view |-> "graph", rows |-> <<>>, bold |-> 0, alerts |-> <<>>,
                     fed |-> FALSE]
    BY <1>3 DEF Eye!Shown, Eye!Blank
  <2> QED BY <2>1
<1>4. CASE view \notin {"dashboard", "alerts", "graph"}
  <2>1. Eye!Shown(height, below) = [view |-> "detail", rows |-> Eye!draw_agent_detail, bold |-> 0,
                     alerts |-> <<>>, fed |-> FALSE]
    BY <1>4 DEF Eye!Shown, Eye!Blank
  <2> QED BY <2>1
<1> QED BY <1>1, <1>2, <1>3, <1>4

(* Those that come first in the order are no older than the others. *)
LEMMA SummaryNewest ==
    ASSUME alerts \in Seq(Nat), NEW i \in DOMAIN alerts, NEW height \in Nat
    PROVE  LET shown == Eye!draw_alerts_summary(height)
           IN  alerts[i] \in ToSet(shown) \/ \A j \in DOMAIN shown : shown[j] >= alerts[i]
<1> DEFINE Later == {p \in ToSet(alerts) \X ToSet(alerts) : p[1] >= p[2]}
           all == Sorted(alerts, Later)
           five == Eye!Least(5, height)
           n == IF Len(all) < five THEN Len(all) ELSE five
           top == SubSeq(all, 1, n)
<1>1. Eye!draw_alerts_summary(height) = top
  BY EyeFilters DEF Eye!draw_alerts_summary, Eye!sorted_alerts, Eye!Fitting, Eye!Least
<1>2. Len(alerts) \in Nat /\ five \in Nat
  BY LenProperties DEF Eye!Least
<1> HIDE DEF five
<1>3. \A a, b : <<a, b>> \in Later <=> a \in ToSet(alerts) /\ b \in ToSet(alerts) /\ a >= b
  OBVIOUS
<1>4. ToSet(alerts) \subseteq Nat /\ \A j \in DOMAIN alerts : alerts[j] \in ToSet(alerts)
  BY ToSetType, InToSet
<1> HIDE DEF Later
<1>5. \A a, b, c \in Nat : <<a, b>> \in Later /\ <<b, c>> \in Later => <<a, c>> \in Later
  BY <1>3
<1>6. \A j, k \in DOMAIN alerts : <<alerts[j], alerts[k]>> \in Later
                                  \/ <<alerts[k], alerts[j]>> \in Later
  BY <1>3, <1>4
<1>7. /\ all \in Seq(Nat) /\ Len(all) = Len(alerts) /\ ToSet(all) = ToSet(alerts)
      /\ Ordered(all, Later)
  BY <1>5, <1>6, SortedFacts
<1> HIDE DEF all
<1>8. n \in 0 .. Len(alerts)
  BY <1>2, <1>7
<1>9. Len(top) = n /\ DOMAIN top = 1 .. n /\ DOMAIN all = 1 .. Len(alerts)
      /\ \A j \in 1 .. n : top[j] = all[j]
  <2> HIDE DEF n
  <2>1. \A j \in 1 .. n : all[j] \in Nat
    BY <1>2, <1>8, <1>7, ElementOfSeq
  <2>2. n \in Nat /\ n \in Int /\ 1 \in Int
    BY <1>2, <1>8
  <2>3. /\ top \in Seq(Nat) /\ Len(top) = IF 1 <= n THEN n - 1 + 1 ELSE 0
        /\ \A j \in 1 .. n - 1 + 1 : top[j] = all[1 + j - 1]
    BY <2>1, <2>2, SubSeqProperties
  <2>4. DOMAIN all = 1 .. Len(alerts)
    BY <1>7, LenProperties
  <2>5. DOMAIN top = 1 .. Len(top)
    BY <2>3, LenProperties
  <2> HIDE DEF top
  <2>6. Len(top) = n
    BY <2>2, <2>3
  <2>7. ASSUME NEW j \in 1 .. n PROVE top[j] = all[j]
    <3>1. j \in 1 .. n - 1 + 1 /\ 1 + j - 1 = j
      BY <2>2, <2>7
    <3> QED BY <2>3, <3>1
  <2> QED BY <2>4, <2>5, <2>6, <2>7
<1>10. PICK k \in 1 .. Len(alerts) : all[k] = alerts[i]
  <2>1. alerts[i] \in ToSet(all) /\ DOMAIN all = 1 .. Len(alerts)
    BY <1>4, <1>7, <1>9
  <2> HIDE DEF top, n
  <2> QED BY <2>1, InToSet
<1>11. CASE k <= n
  <2>1. k \in 1 .. n
    BY <1>2, <1>8, <1>10, <1>11
  <2> QED BY <1>1, <1>9, <1>10, <2>1, InToSet
<1>12. CASE ~ (k <= n)
  <2>1. ASSUME NEW j \in 1 .. n PROVE top[j] >= alerts[i]
    <3>1. j \in 1 .. Len(alerts) /\ j < k
      BY <1>2, <1>8, <1>10, <1>12
    <3>2. <<all[j], all[k]>> \in Later
      BY <1>7, <1>9, <1>10, <3>1 DEF Ordered
    <3> QED BY <1>3, <1>9, <1>10, <3>2
  <2> HIDE DEF top, n
  <2> QED BY <1>1, <1>9, <2>1
<1> QED BY <1>11, <1>12

(* Between two draws the lists on the screen are those it has, unless it is fed. *)
LEMMA DashboardNext ==
    ASSUME ListsAreFed, DashboardInv, [Eye!Next]_(Eye!vars)
    PROVE  DashboardInv'
<1>1. CASE UNCHANGED Eye!vars
  <2>1. \A height : Eye!draw_agent_list(height)' = Eye!draw_agent_list(height)
    BY <1>1 DEF Eye!vars, Eye!draw_agent_list, Eye!filtered_agents
  <2> QED BY <1>1, <2>1 DEF Eye!vars, DashboardInv, AsShown, Eye!NewestShown
<1>2. CASE Eye!draw
  <2>1. UNCHANGED <<agents, alerts, selected_agent, view, search_query>>
    BY <1>2 DEF Eye!draw
  <2>2. PICK height \in Heights, below \in Heights : screen' = Eye!Shown(height, below)
    BY <1>2 DEF Eye!draw
  <2>3. Eye!draw_agent_list(height)' = Eye!draw_agent_list(height)
    BY <2>1 DEF Eye!draw_agent_list, Eye!filtered_agents
  <2>4. AsShown'
    BY <2>2, <2>3, ShownRecord DEF AsShown
  <2>5. Eye!NewestShown'
    <3> SUFFICES ASSUME screen'.view = "dashboard"
                 PROVE  \A i \in DOMAIN alerts :
                           \/ alerts[i] \in Eye!Range(screen'.alerts)
                           \/ \A j \in DOMAIN screen'.alerts : screen'.alerts[j] >= alerts[i]
      BY <2>1 DEF Eye!NewestShown
    <3>1. screen'.alerts = Eye!draw_alerts_summary(below) /\ below \in Nat
      BY <2>2, ShownRecord DEF ListsAreFed
    <3> QED BY <3>1, SummaryNewest, EyeFilters DEF DashboardInv
  <2> QED BY <2>1, <2>2, <2>4, <2>5, ShownRecord DEF DashboardInv
<1>3. ASSUME loop' # "poll", UNCHANGED <<agents, alerts, screen>> PROVE DashboardInv'
  BY <1>3 DEF DashboardInv, AsShown, Eye!NewestShown
<1>4. CASE Eye!TerminalFails \/ Eye!Quit \/ Eye!Redraw
  BY <1>3, <1>4 DEF Eye!TerminalFails, Eye!Quit, Eye!Redraw
<1>5. CASE Eye!Key
  BY <1>3, <1>5 DEF Eye!Key
<1>6. CASE Eye!Feed
  <2>1. screen' = [screen EXCEPT !.fed = TRUE]
    BY <1>6 DEF Eye!Feed
  <2>2. /\ screen' = [view |-> screen'.view, rows |-> screen'.rows, bold |-> screen'.bold,
                      alerts |-> screen'.alerts, fed |-> screen'.fed]
        /\ screen'.fed
    BY <2>1 DEF DashboardInv
  <2>3. agents' \in Seq(AgentRow) /\ alerts' \in Seq(Nat)
    BY <1>6 DEF Eye!Feed, ListsAreFed, DashboardInv
  <2> QED BY <2>2, <2>3 DEF DashboardInv, AsShown, Eye!NewestShown
<1> QED BY <1>1, <1>2, <1>4, <1>5, <1>6 DEF Eye!Next, Eye!SelectNext, Eye!SelectPrev,
        Eye!OpenDetail, Eye!CloseDetail, Eye!SwitchPanel, Eye!StartSearch, Eye!UndoSelected

(* The row that the undo takes is the one set off, or there was no room for it. *)
LEMMA UndoesShown ==
    ASSUME ListsAreFed, DashboardInv, [Eye!Next]_(Eye!vars)
    PROVE  Eye!UndoHighlighted
<1>1. ASSUME UNCHANGED rolled PROVE Eye!UndoHighlighted
  BY <1>1 DEF Eye!UndoHighlighted
<1>2. CASE Eye!UndoSelected
  <2> SUFFICES ASSUME rolled' # rolled, screen.view = "dashboard", ~screen.fed
               PROVE  IF screen.bold # 0 THEN rolled' = Append(rolled, screen.rows[screen.bold])
                      ELSE \E i \in DOMAIN Eye!filtered_agents :
                              /\ i > Len(screen.rows)
                              /\ rolled' = Append(rolled, Eye!filtered_agents[i].pid)
    BY DEF Eye!UndoHighlighted
  <2> DEFINE list == Eye!filtered_agents
  <2>1. selected_agent \in DOMAIN list /\ rolled' = Append(rolled, list[selected_agent].pid)
    BY <1>2 DEF Eye!UndoSelected, Eye!try_rollback
  <2>2. PICK height \in Heights : /\ screen.rows = Eye!draw_agent_list(height).pids
                                 /\ screen.bold = Eye!draw_agent_list(height).bold
    BY <1>2 DEF Eye!UndoSelected, Eye!Key, DashboardInv, AsShown
  <2> DEFINE n == Eye!Least(Len(list), height)
  <2>3. /\ screen.rows = [i \in 1 .. n |-> list[i].pid]
        /\ screen.bold = IF selected_agent \in 1 .. n THEN selected_agent ELSE 0
    BY <2>2 DEF Eye!draw_agent_list
  <2>4. list \in Seq(AgentRow)
    BY EyeFilters, OnlyType DEF Eye!filtered_agents, DashboardInv
  <2>5. n \in Nat /\ selected_agent \in Nat \ {0}
    BY <2>1, <2>4, LenProperties DEF ListsAreFed, Eye!Least
  <2> HIDE DEF n, list
  <2>6. CASE selected_agent \in 1 .. n
    BY <2>1, <2>3, <2>5, <2>6 DEF list
  <2>7. CASE selected_agent \notin 1 .. n
    <3>1. screen.rows \in Seq({list[i].pid : i \in 1 .. n}) /\ Len(screen.rows) = n
      <4>1. screen.rows \in [1 .. n -> {list[i].pid : i \in 1 .. n}]
        BY <2>3
      <4>2. screen.rows \in Seq({list[i].pid : i \in 1 .. n})
        BY <2>5, <4>1, SeqDef
      <4> QED BY <2>3, <2>5, <4>2, LenProperties
    <3>2. selected_agent > Len(screen.rows) /\ screen.bold = 0
      BY <2>3, <2>5, <2>7, <3>1
    <3> QED BY <2>1, <3>2 DEF list
  <2> QED BY <2>6, <2>7
<1>3. CASE ~Eye!UndoSelected
  BY <1>1, <1>3 DEF Eye!Next, Eye!vars, Eye!draw, Eye!Redraw, Eye!TerminalFails, Eye!SelectNext,
     Eye!SelectPrev, Eye!OpenDetail, Eye!CloseDetail, Eye!SwitchPanel, Eye!StartSearch,
     Eye!Quit, Eye!Feed
<1> QED BY <1>2, <1>3

(* Whatever lists it is fed, and however few rows the terminal has, the dashboard
   hides no alert newer than one it shows. *)
THEOREM ScreenCorrect ==
    ASSUME ListsAreFed
    PROVE  ServicesSpec => []ScreenSound
<1> DEFINE Inv == part = "dashboard" => DashboardInv
<1>1. ServicesInit => Inv
  BY Begins, DashboardInit
<1>2. Inv /\ [ServicesNext]_states => Inv'
  BY Moves, DashboardNext
<1>3. Inv => ScreenSound
  BY DEF DashboardInv, ScreenSound
<1> QED BY <1>1, <1>2, <1>3, PTL DEF ServicesSpec

(* Whatever keys come before, searches, new lists, other sizes of the terminal and
   failed rollbacks: an undo on a dashboard rolls back the agent that it shows as
   selected, and if it shows none, one that it had no room for. *)
THEOREM UndoCorrect ==
    ASSUME ListsAreFed
    PROVE  ServicesSpec => UndoesHighlighted
<1> DEFINE Inv == part = "dashboard" => DashboardInv
<1>1. ServicesInit => Inv
  BY Begins, DashboardInit
<1>2. Inv /\ [ServicesNext]_states => Inv'
  BY Moves, DashboardNext
<1>3. Inv /\ [ServicesNext]_states => [part = "dashboard" => Eye!UndoHighlighted]_states
  BY Moves, UndoesShown
<1> QED BY <1>1, <1>2, <1>3, PTL DEF ServicesSpec, UndoesHighlighted

--------------------------------------------------------------------------------
(* `hawk setup`: what it reports as installed is there. *)

marker == s1
binaries == s2
tmp == s3
setup == s4
setups == s5
USE DEF marker, binaries, tmp, setup, setups

(* The locals of a setup, whatever they hold. *)
SetupFields == {"pc", "to_install", "todo", "tool", "force", "second", "failed", "claims"}
SetupLocals(s) == s = [x \in SetupFields |-> s[x]]

SetupInv ==
    /\ setup = [p \in Setups |-> setup[p]]
    /\ \A p \in Setups : SetupLocals(setup[p])
    /\ Tools!ClaimsInstalled

LEMMA SetupInit ==
    ASSUME Tools!Init
    PROVE  SetupInv
BY DEF Tools!Init, Tools!Idle, SetupInv, SetupLocals, SetupFields, Tools!ClaimsInstalled

(* A step of one setup, after which its claims are true and no binary is gone. *)
LEMMA GotoInv ==
    ASSUME SetupInv, NEW p \in Setups, NEW s, Tools!Goto(p, s), SetupLocals(s),
           binaries \subseteq binaries', s.claims \subseteq binaries' \cup CurlTools
    PROVE  SetupInv'
<1>1. /\ setup' = [q \in Setups |-> IF q = p THEN s ELSE setup[q]]
      /\ \A q \in Setups : setup'[q] = IF q = p THEN s ELSE setup[q]
  BY DEF SetupInv, Tools!Goto
<1>2. \A q \in Setups : SetupLocals(setup'[q])
  BY <1>1 DEF SetupInv
<1>3. Tools!ClaimsInstalled'
  BY <1>1 DEF SetupInv, Tools!ClaimsInstalled
<1>4. setup' = [q \in Setups |-> setup'[q]]
  BY <1>1
<1> QED BY <1>2, <1>3, <1>4 DEF SetupInv

LEMMA IdleLocals == SetupLocals(Tools!Idle) /\ Tools!Idle.claims = {}
BY DEF SetupLocals, SetupFields, Tools!Idle

(* The tool in hand is claimed only if it has been built or is piped to sh. *)
LEMMA OutcomeInv ==
    ASSUME SetupInv, NEW p \in Setups, NEW ok \in BOOLEAN, Tools!Outcome(p, ok),
           binaries \subseteq binaries',
           ok => setup[p].tool \subseteq binaries' \cup CurlTools
    PROVE  SetupInv'
<1> DEFINE s == [setup[p] EXCEPT !.pc = "install", !.tool = {}]
           t == IF s.second THEN s
                ELSE IF ok THEN [s EXCEPT !.claims = @ \cup setup[p].tool]
                           ELSE [s EXCEPT !.failed = @ \cup setup[p].tool]
<1>1. Tools!Goto(p, t)
  BY DEF Tools!Outcome
<1>2. SetupLocals(setup[p]) /\ setup[p].claims \subseteq binaries \cup CurlTools
  BY DEF SetupInv, Tools!ClaimsInstalled
<1>3. SetupLocals(s) /\ s.claims = setup[p].claims
  BY <1>2 DEF SetupLocals, SetupFields
<1> HIDE DEF s
<1>4. SetupLocals(t) /\ t.claims \subseteq s.claims \cup (IF ok THEN setup[p].tool ELSE {})
  BY <1>3 DEF SetupLocals, SetupFields
<1> HIDE DEF t
<1>5. t.claims \subseteq binaries' \cup CurlTools
  BY <1>2, <1>3, <1>4
<1> QED BY <1>1, <1>4, <1>5, GotoInv

LEMMA SetupNext ==
    ASSUME SetupInv, [Tools!Next]_(Tools!vars)
    PROVE  SetupInv'
<1>1. CASE UNCHANGED Tools!vars
  BY <1>1 DEF Tools!vars, SetupInv, Tools!ClaimsInstalled
<1> SUFFICES ASSUME NEW p \in Setups,
                    \/ Tools!maybe_first_run(p) \/ \E o \in Options : Tools!run_setup(p, o)
                    \/ Tools!install_tool(p) \/ Tools!RunInstaller(p)
                    \/ Tools!run_go_install(p) \/ Tools!CloneSource(p)
                    \/ Tools!BuildSource(p) \/ Tools!CopyBinary(p) \/ Tools!LoopDone(p)
             PROVE  SetupInv'
  BY <1>1 DEF Tools!Next
<1>2. SetupLocals(setup[p]) /\ setup[p].claims \subseteq binaries \cup CurlTools
  BY DEF SetupInv, Tools!ClaimsInstalled
<1>3. ASSUME NEW s, Tools!Goto(p, s), binaries' = binaries, SetupLocals(s),
             s.claims \subseteq setup[p].claims
      PROVE  SetupInv'
  <2>1. s.claims \subseteq binaries' \cup CurlTools /\ binaries \subseteq binaries'
    BY <1>2, <1>3
  <2> QED BY <1>3, <2>1, GotoInv
<1>4. CASE Tools!maybe_first_run(p)
  <2> DEFINE s == [Tools!Idle EXCEPT !.pc = "filter"]
  <2>1. Tools!Goto(p, s) /\ binaries' = binaries
    BY <1>4 DEF Tools!maybe_first_run
  <2>2. SetupLocals(s) /\ s.claims = {}
    BY DEF SetupLocals, SetupFields, Tools!Idle
  <2> HIDE DEF s
  <2> QED BY <1>3, <2>1, <2>2
<1>5. ASSUME NEW o \in Options, Tools!run_setup(p, o) PROVE SetupInv'
  <2> DEFINE s == [Tools!Idle EXCEPT !.pc = "install", !.to_install = Tools!ToInstall(o),
                                     !.todo = Tools!ToInstall(o), !.force = o.force]
  <2>1. (Tools!Goto(p, s) \/ Tools!Goto(p, Tools!Idle)) /\ binaries' = binaries
    BY <1>5 DEF Tools!run_setup
  <2>2. SetupLocals(s) /\ s.claims = {}
    BY DEF SetupLocals, SetupFields, Tools!Idle
  <2> HIDE DEF s
  <2> QED BY <1>3, <2>1, <2>2, IdleLocals
<1>6. CASE Tools!install_tool(p)
  <2> DEFINE t == Head(setup[p].todo)
             s == [setup[p] EXCEPT !.todo = Tail(@)]
             claimed == [s EXCEPT !.claims = IF s.second THEN @ ELSE @ \cup {t}]
             begun == [s EXCEPT !.tool = {t},
                                !.pc = IF t \in GoTools THEN "go" ELSE "installer"]
  <2>1. /\ binaries' = binaries
        /\ \/ Tools!tool_available(t) /\ Tools!Goto(p, claimed)
           \/ Tools!Goto(p, begun)
    BY <1>6 DEF Tools!install_tool
  <2>2. SetupLocals(s) /\ s.claims = setup[p].claims
    BY <1>2 DEF SetupLocals, SetupFields
  <2> HIDE DEF s, t
  <2>3. /\ SetupLocals(claimed) /\ claimed.claims \subseteq setup[p].claims \cup {t}
        /\ SetupLocals(begun) /\ begun.claims = setup[p].claims
    BY <2>2 DEF SetupLocals, SetupFields
  <2> HIDE DEF claimed, begun
  <2>4. CASE Tools!tool_available(t) /\ Tools!Goto(p, claimed)
    <3>1. claimed.claims \subseteq binaries' \cup CurlTools
      BY <1>2, <2>1, <2>3, <2>4 DEF Tools!tool_available
    <3> QED BY <2>1, <2>3, <2>4, <3>1, GotoInv
  <2>5. CASE Tools!Goto(p, begun)
    BY <1>3, <2>1, <2>3, <2>5
  <2> QED BY <2>1, <2>4, <2>5
<1>7. CASE Tools!RunInstaller(p)
  <2>1. CASE Tools!Built(p) /\ Tools!Outcome(p, TRUE)
    BY <2>1, OutcomeInv DEF Tools!Built
  <2>2. CASE setup[p].tool \subseteq CurlTools /\ Tools!Outcome(p, TRUE) /\ UNCHANGED binaries
    BY <2>2, OutcomeInv
  <2>3. CASE Tools!Outcome(p, FALSE) /\ UNCHANGED binaries
    BY <2>3, OutcomeInv
  <2> QED BY <1>7, <2>1, <2>2, <2>3 DEF Tools!RunInstaller
<1>8. ASSUME NEW pc, Tools!Goto(p, [setup[p] EXCEPT !.pc = pc]), binaries' = binaries
      PROVE  SetupInv'
  <2> DEFINE s == [setup[p] EXCEPT !.pc = pc]
  <2>1. SetupLocals(s) /\ s.claims = setup[p].claims
    BY <1>2 DEF SetupLocals, SetupFields
  <2>2. Tools!Goto(p, s)
    BY <1>8
  <2> HIDE DEF s
  <2> QED BY <1>3, <1>8, <2>1, <2>2
<1>9. CASE Tools!run_go_install(p)
  <2>1. CASE Tools!Built(p) /\ Tools!Outcome(p, TRUE)
    BY <2>1, OutcomeInv DEF Tools!Built
  <2>2. CASE Tools!Outcome(p, FALSE) /\ UNCHANGED binaries
    BY <2>2, OutcomeInv
  <2>3. CASE Tools!Goto(p, [setup[p] EXCEPT !.pc = "clone"]) /\ UNCHANGED binaries
    BY <1>8, <2>3
  <2> QED BY <1>9, <2>1, <2>2, <2>3 DEF Tools!run_go_install
<1>10. CASE Tools!CloneSource(p)
  <2>1. CASE Tools!Goto(p, [setup[p] EXCEPT !.pc = "build"])
    BY <1>8, <1>10, <2>1 DEF Tools!CloneSource
  <2>2. CASE Tools!Outcome(p, FALSE)
    BY <1>10, <2>2, OutcomeInv DEF Tools!CloneSource
  <2> QED BY <1>10, <2>1, <2>2 DEF Tools!CloneSource
<1>11. CASE Tools!BuildSource(p)
  <2>1. CASE Tools!Goto(p, [setup[p] EXCEPT !.pc = "copy"])
    BY <1>8, <1>11, <2>1 DEF Tools!BuildSource
  <2>2. CASE Tools!Outcome(p, FALSE)
    BY <1>11, <2>2, OutcomeInv DEF Tools!BuildSource
  <2> QED BY <1>11, <2>1, <2>2 DEF Tools!BuildSource
<1>12. CASE Tools!CopyBinary(p)
  <2>1. CASE Tools!Built(p) /\ Tools!Outcome(p, TRUE)
    BY <2>1, OutcomeInv DEF Tools!Built
  <2>2. CASE Tools!Outcome(p, FALSE) /\ UNCHANGED <<binaries, tmp>>
    BY <2>2, OutcomeInv
  <2> QED BY <1>12, <2>1, <2>2 DEF Tools!CopyBinary
<1>13. CASE Tools!LoopDone(p)
  <2> DEFINE s == [setup[p] EXCEPT !.todo = setup[p].to_install, !.second = TRUE]
  <2>1. (Tools!Goto(p, s) \/ Tools!Goto(p, Tools!Idle)) /\ binaries' = binaries
    BY <1>13 DEF Tools!LoopDone
  <2>2. SetupLocals(s) /\ s.claims = setup[p].claims
    BY <1>2 DEF SetupLocals, SetupFields
  <2> HIDE DEF s
  <2> QED BY <1>3, <2>1, <2>2, IdleLocals
<1> QED BY <1>4, <1>5, <1>6, <1>7, <1>9, <1>10, <1>11, <1>12, <1>13

--------------------------------------------------------------------------------
(* The opening of the database: no command runs without its tables. *)

dir == s1
schema == s2
versions == s3
shell == s7
refused == s9
USE DEF dir, schema, versions, shell, refused

(* There are shells, so many of them. *)
ShellsAreCounted == IsFiniteSet(Shells) /\ Shells # {}

(* The locals of a shell, whatever they hold. *)
ShellFields == {"pc", "kind", "arg", "ok"}
ShellLocals(s) == s = [x \in ShellFields |-> s[x]]

(* Who has seen no version and is about to insert one. *)
Inserting == {c \in Shells : Cli!At(c, "insert")}

(* Until the version is there nobody has been refused, and thereafter whoever has been is
   no longer among those who insert; the one that inserted it is among neither. *)
Opened ==
    /\ versions \in {0, 1} /\ schema \in {{}, Cli!SCHEMA} /\ refused \in Nat
    /\ versions = 0 => refused = 0
    /\ versions = 1 => refused + Cardinality(Inserting) < Cardinality(Shells)

CommandsInv ==
    /\ shell = [c \in Shells |-> shell[c]]
    /\ \A c \in Shells :
          /\ ShellLocals(shell[c])
          /\ shell[c].pc \in {"select", "insert"} => schema = Cli!SCHEMA
          /\ Cli!In(c, Cli!NeedsDatabase) => schema = Cli!SCHEMA /\ versions = 1
    /\ Opened

LEMMA CommandsInit ==
    ASSUME ShellsAreCounted, Cli!Init
    PROVE  CommandsInv
BY DEF Cli!Init, Cli!Prompt, CommandsInv, ShellLocals, ShellFields, Opened, Cli!In, Cli!At

(* One shell goes on; who inserts changes only by that. *)
LEMMA ShellMoves ==
    ASSUME CommandsInv, NEW c \in Shells, NEW s, shell' = [shell EXCEPT ![c] = s], ShellLocals(s)
    PROVE  /\ shell' = [d \in Shells |-> shell'[d]] /\ shell'[c] = s
           /\ \A d \in Shells : ShellLocals(shell'[d])
           /\ \A d \in Shells \ {c} : shell'[d] = shell[d]
           /\ Inserting' = IF s.pc = "insert" THEN Inserting \cup {c} ELSE Inserting \ {c}
<1>1. /\ shell' = [d \in Shells |-> IF d = c THEN s ELSE shell[d]]
      /\ \A d \in Shells : shell'[d] = IF d = c THEN s ELSE shell[d]
  BY DEF CommandsInv
<1>2. \A d \in Shells : ShellLocals(shell'[d])
  BY <1>1 DEF CommandsInv
<1> QED BY <1>1, <1>2 DEF Inserting, Cli!At

LEMMA InsertingCount ==
    ASSUME ShellsAreCounted
    PROVE  /\ IsFiniteSet(Inserting) /\ Cardinality(Inserting) \in Nat
           /\ Cardinality(Shells) \in Nat /\ Cardinality(Inserting) <= Cardinality(Shells)
           /\ \A c \in Inserting :
                 Cardinality(Inserting \ {c}) = Cardinality(Inserting) - 1
<1>1. Inserting \subseteq Shells
  BY DEF Inserting
<1>2. IsFiniteSet(Inserting) /\ Cardinality(Inserting) <= Cardinality(Shells)
  BY <1>1, FS_Subset DEF ShellsAreCounted
<1> QED BY <1>2, FS_CardinalityType, FS_RemoveElement DEF ShellsAreCounted

LEMMA NoMoreInserting ==
    ASSUME ShellsAreCounted, NEW c
    PROVE  /\ Cardinality(Inserting \ {c}) \in Nat
           /\ Cardinality(Inserting \ {c}) <= Cardinality(Inserting)
<1>1. CASE c \in Inserting
  <2>1. Cardinality(Inserting \ {c}) \in Nat
    BY InsertingCount, FS_RemoveElement, FS_CardinalityType
  <2> QED BY <1>1, <2>1, InsertingCount
<1>2. CASE c \notin Inserting
  <2>1. Inserting \ {c} = Inserting
    BY <1>2
  <2> QED BY <2>1, InsertingCount
<1> QED BY <1>1, <1>2

(* A shell that opens nothing: it ends its command, or types one. *)
LEMMA ShellKeepsDatabase ==
    ASSUME ShellsAreCounted, CommandsInv, NEW c \in Shells, NEW s,
           shell' = [shell EXCEPT ![c] = s], ShellLocals(s), s.pc \in {"idle", "open", "body"},
           s.pc = "body" => s.kind \notin Cli!NeedsDatabase,
           UNCHANGED <<schema, versions, refused>>
    PROVE  CommandsInv'
<1>1. /\ shell' = [d \in Shells |-> shell'[d]] /\ shell'[c] = s
      /\ \A d \in Shells : ShellLocals(shell'[d])
      /\ \A d \in Shells \ {c} : shell'[d] = shell[d]
      /\ Inserting' = Inserting \ {c}
  BY ShellMoves
<1>2. \A d \in Shells : /\ shell'[d].pc \in {"select", "insert"} => schema' = Cli!SCHEMA
                        /\ Cli!In(d, Cli!NeedsDatabase)' => schema' = Cli!SCHEMA /\ versions' = 1
  <2>1. ASSUME NEW d \in Shells \ {c}
        PROVE  /\ shell'[d].pc \in {"select", "insert"} => schema' = Cli!SCHEMA
               /\ Cli!In(d, Cli!NeedsDatabase)' => schema' = Cli!SCHEMA /\ versions' = 1
    BY <1>1 DEF CommandsInv, Cli!In, Cli!At, Cli!NeedsDatabase
  <2>2. shell'[c].pc \notin {"select", "insert"} /\ ~Cli!In(c, Cli!NeedsDatabase)'
    BY <1>1 DEF Cli!In, Cli!At, Cli!NeedsDatabase
  <2> QED BY <2>1, <2>2
<1>3. Cardinality(Inserting') <= Cardinality(Inserting) /\ Cardinality(Inserting') \in Nat
  BY <1>1, NoMoreInserting
<1>4. Opened'
  BY <1>3, InsertingCount DEF CommandsInv, Opened, Cli!SCHEMA
<1> QED BY <1>1, <1>2, <1>4 DEF CommandsInv

(* A body ends its command and leaves the tables and the version alone. *)
LEMMA BodyExits ==
    ASSUME NEW c \in Shells, Cli!Body(c)
    PROVE  (Cli!Exit(c, TRUE) \/ Cli!Exit(c, FALSE)) /\ UNCHANGED <<schema, versions, refused>>
<1> USE DEF Cli!database, Cli!Same, Cli!Others
<1> DEFINE Ends == (Cli!Exit(c, TRUE) \/ Cli!Exit(c, FALSE)) /\ UNCHANGED <<schema, versions, refused>>
<1>1. ASSUME NEW kinds, Cli!Read(c, kinds) \/ Cli!Fail(c, kinds) PROVE Ends
  BY <1>1 DEF Cli!Read, Cli!Fail
<1>2. CASE Cli!Run(c) \/ Cli!Stop(c) \/ Cli!Pause(c) \/ Cli!Resume(c)
  BY <1>2 DEF Cli!Run, Cli!Stop, Cli!Pause, Cli!Resume
<1>3. CASE Cli!Ps(c) \/ Cli!Undo(c) \/ Cli!Diff(c) \/ Cli!Inspect(c) \/ Cli!Stats(c)
  BY <1>1, <1>3 DEF Cli!Ps, Cli!Undo, Cli!Diff, Cli!Inspect, Cli!Stats
<1>4. CASE Cli!VaultBody(c) \/ Cli!ConfigBody(c)
  BY <1>1, <1>4 DEF Cli!VaultBody, Cli!ConfigBody
<1>5. CASE Cli!Verify(c) \/ Cli!Watch(c) \/ Cli!Sdk(c)
  BY <1>1, <1>5 DEF Cli!Verify, Cli!Watch, Cli!Sdk
<1>6. CASE Cli!Orchestrate(c) \/ Cli!Replay(c) \/ Cli!NestBody(c) \/ Cli!SyncBody(c)
  BY <1>1, <1>6 DEF Cli!Orchestrate, Cli!Replay, Cli!NestBody, Cli!SyncBody
<1>7. CASE Cli!Trust(c) \/ Cli!Healing(c) \/ Cli!PatternsBody(c)
  BY <1>1, <1>7 DEF Cli!Trust, Cli!Healing, Cli!PatternsBody
<1>8. CASE Cli!Talon(c) \/ Cli!Eye(c) \/ Cli!Setup(c)
  BY <1>1, <1>8 DEF Cli!Talon, Cli!Eye, Cli!Setup
<1> QED BY <1>2, <1>3, <1>4, <1>5, <1>6, <1>7, <1>8 DEF Cli!Body

LEMMA PromptLocals ==
    ASSUME NEW ok
    PROVE  ShellLocals([Cli!Prompt EXCEPT !.ok = ok]) /\ [Cli!Prompt EXCEPT !.ok = ok].pc = "idle"
BY DEF ShellLocals, ShellFields, Cli!Prompt

LEMMA ExitKeepsDatabase ==
    ASSUME ShellsAreCounted, CommandsInv, NEW c \in Shells, NEW ok, Cli!Exit(c, ok),
           UNCHANGED <<schema, versions, refused>>
    PROVE  CommandsInv'
<1> DEFINE s == [Cli!Prompt EXCEPT !.ok = ok]
<1>1. shell' = [shell EXCEPT ![c] = s] /\ ShellLocals(s) /\ s.pc = "idle"
  BY PromptLocals DEF Cli!Exit
<1> HIDE DEF s
<1> QED BY <1>1, ShellKeepsDatabase

(* A shell that goes on to another step of the opening. *)
LEMMA GotoLocals ==
    ASSUME CommandsInv, NEW c \in Shells, NEW pc, Cli!Goto(c, pc)
    PROVE  \E s : /\ shell' = [shell EXCEPT ![c] = s] /\ ShellLocals(s)
                  /\ s.pc = pc /\ s.kind = shell[c].kind
<1>1. ShellLocals(shell[c])
  BY DEF CommandsInv
<1>2. shell' = [shell EXCEPT ![c] = [shell[c] EXCEPT !.pc = pc]]
  BY DEF Cli!Goto, CommandsInv
<1>3. ShellLocals([shell[c] EXCEPT !.pc = pc]) /\ [shell[c] EXCEPT !.pc = pc].pc = pc
      /\ [shell[c] EXCEPT !.pc = pc].kind = shell[c].kind
  BY <1>1 DEF ShellLocals, ShellFields
<1> QED BY <1>2, <1>3

LEMMA OpensTables ==
    ASSUME ShellsAreCounted, CommandsInv, NEW c \in Shells, Cli!init_database(c)
    PROVE  CommandsInv'
<1>1. CASE dir
  <2>1. PICK s : /\ shell' = [shell EXCEPT ![c] = s] /\ ShellLocals(s) /\ s.pc = "select"
    BY <1>1, GotoLocals DEF Cli!init_database
  <2>2. /\ shell' = [d \in Shells |-> shell'[d]] /\ shell'[c] = s
        /\ \A d \in Shells : ShellLocals(shell'[d])
        /\ \A d \in Shells \ {c} : shell'[d] = shell[d]
        /\ Inserting' = Inserting \ {c}
    BY <2>1, ShellMoves
  <2>3. schema' = Cli!SCHEMA /\ UNCHANGED <<versions, refused>>
    BY <1>1 DEF Cli!init_database, CommandsInv, Opened
  <2>4. \A d \in Shells : Cli!In(d, Cli!NeedsDatabase)' => versions' = 1
    BY <2>1, <2>2, <2>3 DEF CommandsInv, Cli!In, Cli!At, Cli!NeedsDatabase
  <2>5. Cardinality(Inserting') <= Cardinality(Inserting) /\ Cardinality(Inserting') \in Nat
    BY <2>2, NoMoreInserting
  <2>6. Opened'
    BY <2>3, <2>5, InsertingCount DEF CommandsInv, Opened, Cli!SCHEMA
  <2>7. Cli!SCHEMA' = Cli!SCHEMA
    BY DEF Cli!SCHEMA
  <2> QED BY <2>2, <2>3, <2>4, <2>6, <2>7 DEF CommandsInv
<1>2. CASE ~dir
  BY <1>2, ExitKeepsDatabase DEF Cli!init_database
<1> QED BY <1>1, <1>2

LEMMA SelectsVersion ==
    ASSUME ShellsAreCounted, CommandsInv, NEW c \in Shells, Cli!SelectVersion(c)
    PROVE  CommandsInv'
<1> DEFINE pc == IF versions < 1 THEN "insert" ELSE "body"
<1>1. PICK s : /\ shell' = [shell EXCEPT ![c] = s] /\ ShellLocals(s) /\ s.pc = pc
  BY GotoLocals DEF Cli!SelectVersion
<1>2. /\ shell' = [d \in Shells |-> shell'[d]] /\ shell'[c] = s
      /\ \A d \in Shells : ShellLocals(shell'[d])
      /\ \A d \in Shells \ {c} : shell'[d] = shell[d]
      /\ Inserting' = IF pc = "insert" THEN Inserting \cup {c} ELSE Inserting \ {c}
  BY <1>1, ShellMoves
<1>3. UNCHANGED <<schema, versions, refused>> /\ schema = Cli!SCHEMA
      /\ pc = IF versions = 0 THEN "insert" ELSE "body"
  BY DEF Cli!SelectVersion, Cli!database, Cli!At, CommandsInv, Opened
<1>4. ASSUME NEW d \in Shells PROVE Cli!In(d, Cli!NeedsDatabase)' => versions' = 1
  <2>1. CASE d = c
    BY <1>1, <1>2, <1>3, <2>1 DEF CommandsInv, Opened, Cli!In, Cli!At
  <2>2. CASE d # c
    BY <1>2, <1>3, <2>2 DEF CommandsInv, Cli!In, Cli!At, Cli!NeedsDatabase
  <2> QED BY <2>1, <2>2
<1>5. versions' = 1 => Cardinality(Inserting') <= Cardinality(Inserting) /\ Cardinality(Inserting') \in Nat
  <2>1. versions = 1 => Inserting' = Inserting \ {c}
    BY <1>2, <1>3
  <2> QED BY <1>3, <2>1, NoMoreInserting
<1>6. Opened'
  BY <1>3, <1>5, InsertingCount DEF CommandsInv, Opened, Cli!SCHEMA
<1>7. Cli!SCHEMA' = Cli!SCHEMA
  BY DEF Cli!SCHEMA
<1> QED BY <1>2, <1>3, <1>4, <1>6, <1>7 DEF CommandsInv

(* The first to insert the version is the one that is not refused. *)
LEMMA InsertsVersion ==
    ASSUME ShellsAreCounted, CommandsInv, NEW c \in Shells, Cli!InsertVersion(c)
    PROVE  CommandsInv'
<1>1. c \in Inserting /\ UNCHANGED schema /\ schema = Cli!SCHEMA
  BY DEF Cli!InsertVersion, Inserting, CommandsInv, Cli!At
<1>2. PICK s : /\ shell' = [shell EXCEPT ![c] = s] /\ ShellLocals(s)
               /\ s.pc = IF versions = 0 THEN "body" ELSE "idle"
  <2>1. CASE versions = 0
    BY <2>1, GotoLocals DEF Cli!InsertVersion
  <2>2. CASE versions # 0
    BY <2>2, PromptLocals DEF Cli!InsertVersion, Cli!Exit
  <2> QED BY <2>1, <2>2
<1>3. /\ shell' = [d \in Shells |-> shell'[d]] /\ shell'[c] = s
      /\ \A d \in Shells : ShellLocals(shell'[d])
      /\ \A d \in Shells \ {c} : shell'[d] = shell[d]
      /\ Inserting' = Inserting \ {c}
  BY <1>2, ShellMoves
<1>4. Cardinality(Inserting') = Cardinality(Inserting) - 1 /\ Cardinality(Inserting) \in Nat
      /\ Cardinality(Shells) \in Nat /\ Cardinality(Inserting) <= Cardinality(Shells)
  BY <1>1, <1>3, InsertingCount
<1>5. versions' = 1 /\ refused' = IF versions = 0 THEN refused ELSE refused + 1
  BY DEF Cli!InsertVersion, CommandsInv, Opened
<1>6. Opened'
  BY <1>1, <1>4, <1>5 DEF CommandsInv, Opened, Cli!SCHEMA
<1>7. Cli!SCHEMA' = Cli!SCHEMA
  BY DEF Cli!SCHEMA
<1> QED BY <1>1, <1>3, <1>5, <1>6, <1>7 DEF CommandsInv

LEMMA CommandsNext ==
    ASSUME ShellsAreCounted, CommandsInv, [Cli!Next]_(Cli!vars)
    PROVE  CommandsInv'
<1>1. ASSUME UNCHANGED <<shell, schema, versions, refused>> PROVE CommandsInv'
  <2>1. Inserting' = Inserting
    BY <1>1 DEF Inserting, Cli!At
  <2>2. Cli!SCHEMA' = Cli!SCHEMA
    BY DEF Cli!SCHEMA
  <2> QED BY <1>1, <2>1, <2>2 DEF CommandsInv, Opened, Cli!In, Cli!At, Cli!NeedsDatabase
<1>2. CASE UNCHANGED Cli!vars
  BY <1>1, <1>2 DEF Cli!vars
<1>3. ASSUME NEW pid \in AgentPids, Cli!AgentExits(pid) PROVE CommandsInv'
  BY <1>1, <1>3 DEF Cli!AgentExits, Cli!database
<1>4. ASSUME NEW c \in Shells, NEW line, Cli!Type(c, line[1], line[2]) PROVE CommandsInv'
  <2> DEFINE s == [pc |-> IF line[1] \in Cli!NeedsDatabase THEN "open" ELSE "body",
                   kind |-> line[1], arg |-> line[2], ok |-> TRUE]
  <2>1. shell' = [shell EXCEPT ![c] = s] /\ UNCHANGED <<schema, versions, refused>>
    BY <1>4 DEF Cli!Type, Cli!database
  <2>2. ShellLocals(s) /\ s.pc \in {"idle", "open", "body"}
    BY DEF ShellLocals, ShellFields
  <2>3. s.pc = "body" => s.kind \notin Cli!NeedsDatabase
    OBVIOUS
  <2> HIDE DEF s
  <2> QED BY <2>1, <2>2, <2>3, ShellKeepsDatabase
<1>5. ASSUME NEW c \in Shells, Cli!Body(c) PROVE CommandsInv'
  BY <1>5, BodyExits, ExitKeepsDatabase
<1> QED BY <1>2, <1>3, <1>4, <1>5, OpensTables, SelectsVersion, InsertsVersion DEF Cli!Next

LEMMA CommandsReady ==
    ASSUME ShellsAreCounted, CommandsInv
    PROVE  Cli!DatabaseReady
<1>1. refused < Cardinality(Shells)
  <2>1. Cardinality(Shells) \in Nat /\ Cardinality(Shells) # 0
    BY FS_CardinalityType, FS_EmptySet DEF ShellsAreCounted
  <2> QED BY <2>1, InsertingCount DEF CommandsInv, Opened
<1>2. Cli!Cardinality(Shells) = Cardinality(Shells)
  BY DEF Cli!Cardinality, Cardinality
<1> QED BY <1>1, <1>2 DEF CommandsInv, Opened, Cli!DatabaseReady

--------------------------------------------------------------------------------
(* ContextCompressor: how long its answers are, and what it has counted. *)

cache == s1
per_agent == s2
totals == s3
running == s4
returned == s5
madeFor == s6
USE DEF cache, per_agent, totals, running, returned, madeFor

(* The contexts are texts of such words, and lengths are numbers. *)
TextsOf(words) ==
    Contexts \subseteq Seq(Seq(words)) /\ Thresholds \subseteq Nat /\ SqzWords \subseteq Nat

CompressFilters ==
    /\ \A s : Sqz!Joined(s) = Joined(s)
    /\ \A s, S : Sqz!Only(s, S) = Only(s, S)
    /\ \A S : Sqz!Cardinality(S) = Cardinality(S)
LEMMA SqzFilters == CompressFilters
BY DEF CompressFilters, Sqz!Joined, Joined, Sqz!Only, Only, Sqz!Cardinality, Cardinality

LEMMA TextCount ==
    ASSUME NEW words, TextsOf(words), NEW c \in Contexts
    PROVE  Sqz!count_tokens(c) \in Nat
BY JoinedType, LenProperties, SqzFilters DEF CompressFilters, Sqz!count_tokens, TextsOf

LEMMA DedupType ==
    ASSUME NEW words, TextsOf(words), NEW c \in Contexts
    PROVE  Sqz!dedup(c) \in Seq(Seq(words))
<1> DEFINE all == [i \in DOMAIN c |-> i]
           first == {i \in DOMAIN c : \A j \in 1 .. (i - 1) : c[j] # c[i]}
           kept == Only(all, first)
<1>1. c \in Seq(Seq(words)) /\ DOMAIN c = 1 .. Len(c) /\ Len(c) \in Nat
  BY LenProperties DEF TextsOf
<1>2. all \in Seq(Nat)
  BY <1>1
<1>3. kept \in Seq(Nat) /\ ToSet(kept) = ToSet(all) \cap first
  BY <1>2, OnlyType, OnlyRange
<1>4. Sqz!dedup(c) = [n \in DOMAIN kept |-> c[kept[n]]]
  BY SqzFilters DEF CompressFilters, Sqz!dedup
<1> HIDE DEF all, kept
<1>5. \A n \in DOMAIN kept : kept[n] \in DOMAIN c
  BY <1>3, InToSet
<1>6. DOMAIN kept = 1 .. Len(kept) /\ Len(kept) \in Nat
  BY <1>3, LenProperties
<1>7. \A n \in 1 .. Len(kept) : c[kept[n]] \in Seq(words)
  BY <1>1, <1>5, <1>6
<1> QED BY <1>4, <1>6, <1>7

(* What the engine makes itself fits the threshold. *)
LEMMA FallbackFits ==
    ASSUME NEW words, TextsOf(words), NEW c \in Contexts, NEW t \in Nat
    PROVE  Len(Sqz!fallback_compress(c, t)) \in 0 .. t
<1> DEFINE w == Joined(Sqz!dedup(c))
<1>1. w \in Seq(words) /\ Len(w) \in Nat
  BY DedupType, JoinedType, LenProperties
<1>2. Sqz!fallback_compress(c, t) =
          IF Len(w) <= t THEN w ELSE SubSeq(w, Len(w) - t + 1, Len(w))
  BY SqzFilters DEF CompressFilters, Sqz!fallback_compress
<1> HIDE DEF w
<1>3. CASE Len(w) <= t
  BY <1>1, <1>2, <1>3
<1>4. CASE Len(w) > t
  <2>1. Len(SubSeq(w, Len(w) - t + 1, Len(w))) = t
    BY <1>1, <1>4, SubSeqProperties
  <2> QED BY <1>1, <1>2, <1>4, <2>1
<1> QED BY <1>1, <1>3, <1>4

(* The pairs of one agent more. *)
LEMMA TokensGrow ==
    ASSUME NEW counted \in [Agents -> Nat], NEW a \in Agents, NEW k \in Nat,
           IsFiniteSet(Sqz!Tokens(counted)),
           NEW later, later[a] = counted[a] + k,
           \A b \in Agents \ {a} : later[b] = counted[b]
    PROVE  /\ IsFiniteSet(Sqz!Tokens(later))
           /\ Cardinality(Sqz!Tokens(later)) = Cardinality(Sqz!Tokens(counted)) + k
<1> DEFINE n == counted[a]
           old == Sqz!Tokens(counted)
           new == {a} \X (n + 1 .. n + k)
<1>1. n \in Nat /\ later[a] = n + k /\ \A b \in Agents \ {a} : later[b] = counted[b]
  OBVIOUS
<1>2. Sqz!Tokens(later) = old \cup new
  <2>1. \A b \in Agents : {b} \X (1 .. later[b]) =
              IF b = a THEN ({b} \X (1 .. counted[b])) \cup new ELSE {b} \X (1 .. counted[b])
    BY <1>1
  <2> QED BY <2>1 DEF Sqz!Tokens
<1>3. old \cap new = {}
  BY <1>1 DEF Sqz!Tokens
<1> DEFINE m == n + 1
           range == m .. n + k
<1>4. IsFiniteSet(range) /\ Cardinality(range) = k
  <2>1. m \in Int /\ n + k \in Int /\ (m > n + k <=> k = 0) /\ (n + k) - m + 1 = k
    BY <1>1
  <2> HIDE DEF m
  <2>2. /\ IsFiniteSet(range)
        /\ Cardinality(range) = IF m > n + k THEN 0 ELSE (n + k) - m + 1
    BY <2>1, FS_Interval
  <2> QED BY <2>1, <2>2
<1>5. IsFiniteSet({a}) /\ Cardinality({a}) = 1
  BY FS_Singleton
<1>6. IsFiniteSet(new) /\ Cardinality(new) = k
  <2>1. new = {a} \X range
    OBVIOUS
  <2> HIDE DEF new, range
  <2>2. IsFiniteSet(new) /\ Cardinality(new) = 1 * k
    BY <1>4, <1>5, <2>1, FS_Product
  <2> QED BY <2>2
<1> HIDE DEF old, new
<1>7. IsFiniteSet(old) /\ Cardinality(old) \in Nat
  BY FS_CardinalityType DEF old
<1>8. /\ IsFiniteSet(old \cup new)
      /\ Cardinality(old \cup new) = Cardinality(old) + Cardinality(new) - Cardinality({})
  <2>1. /\ IsFiniteSet(old \cup new)
        /\ Cardinality(old \cup new) = Cardinality(old) + Cardinality(new) - Cardinality(old \cap new)
    BY <1>6, <1>7, FS_Union
  <2> QED BY <1>3, <2>1
<1>9. Cardinality(old \cup new) = Cardinality(old) + k
  BY <1>6, <1>7, <1>8, FS_EmptySet
<1>10. old = Sqz!Tokens(counted)
  BY DEF old
<1> QED BY <1>2, <1>8, <1>9, <1>10

Processed == [a \in Agents |-> per_agent[a].processed]
Spared == [a \in Agents |-> per_agent[a].saved]
Stats == [processed : Nat, saved : Nat]

StatsInv ==
    /\ totals \in Stats /\ per_agent \in [Agents -> Stats]
    /\ IsFiniteSet(Sqz!Tokens(Processed)) /\ IsFiniteSet(Sqz!Tokens(Spared))
    /\ totals.processed = Cardinality(Sqz!Tokens(Processed))
    /\ totals.saved = Cardinality(Sqz!Tokens(Spared))
    /\ \A a \in Agents : per_agent[a].saved <= per_agent[a].processed

(* A result of the engine's own that is kept fits the threshold it was made for. *)
CacheInv ==
    /\ cache = [c \in Contexts |-> cache[c]] /\ madeFor \in [Contexts -> Nat]
    /\ \A c \in Contexts : cache[c] # None =>
          cache[c].tokens \in Nat /\ (~cache[c].sqz => cache[c].tokens <= madeFor[c])
    /\ running # None => /\ running.agent \in Agents /\ running.context \in Contexts
                         /\ running.threshold \in Nat

CompressInv == StatsInv /\ CacheInv /\ Sqz!WithinThreshold

LEMMA CompressInit ==
    ASSUME Sqz!Init
    PROVE  CompressInv
<1>1. \A a \in Agents : per_agent[a] = [processed |-> 0, saved |-> 0]
  BY DEF Sqz!Init, Sqz!Nothing
<1>2. Sqz!Tokens(Processed) = {} /\ Sqz!Tokens(Spared) = {}
  BY <1>1 DEF Sqz!Tokens, Processed, Spared
<1>3. StatsInv
  BY <1>1, <1>2, FS_EmptySet DEF StatsInv, Stats, Sqz!Init, Sqz!Nothing
<1> QED BY <1>3 DEF Sqz!Init, CompressInv, CacheInv, Sqz!WithinThreshold

(* Counting a call keeps the totals the sums over the agents. *)
LEMMA AccountInv ==
    ASSUME NEW words, TextsOf(words), StatsInv, NEW a \in Agents, NEW c \in Contexts,
           NEW tokens \in Nat, Sqz!Account(a, c, tokens)
    PROVE  StatsInv'
<1> DEFINE original == Sqz!count_tokens(c)
           saved == Sqz!Saved(original, tokens)
           now == [processed |-> per_agent[a].processed + original,
                   saved |-> per_agent[a].saved + saved]
<1>1. original \in Nat /\ saved \in Nat /\ saved <= original
  BY TextCount DEF Sqz!Saved
<1>2. /\ totals' = [processed |-> totals.processed + original, saved |-> totals.saved + saved]
      /\ per_agent' = [per_agent EXCEPT ![a] = now]
  BY DEF Sqz!Account, Sqz!Add, StatsInv
<1> HIDE DEF original, saved
<1>3. per_agent[a].processed \in Nat /\ per_agent[a].saved \in Nat
      /\ per_agent[a].saved <= per_agent[a].processed
      /\ totals.processed \in Nat /\ totals.saved \in Nat
  BY DEF StatsInv, Stats
<1>4. now \in Stats /\ now.processed = per_agent[a].processed + original
      /\ now.saved = per_agent[a].saved + saved /\ now.saved <= now.processed
  BY <1>1, <1>3 DEF Stats
<1> HIDE DEF now
<1>5. totals' \in Stats /\ totals'.processed = totals.processed + original
      /\ totals'.saved = totals.saved + saved
  BY <1>1, <1>2, <1>3 DEF Stats
<1>6. /\ per_agent' \in [Agents -> Stats] /\ per_agent'[a] = now
      /\ \A b \in Agents \ {a} : per_agent'[b] = per_agent[b]
  BY <1>2, <1>4 DEF StatsInv
<1>7. Processed \in [Agents -> Nat] /\ Spared \in [Agents -> Nat]
  BY DEF StatsInv, Stats, Processed, Spared
<1>8. /\ Processed'[a] = Processed[a] + original /\ Spared'[a] = Spared[a] + saved
      /\ \A b \in Agents \ {a} : Processed'[b] = Processed[b] /\ Spared'[b] = Spared[b]
  BY <1>4, <1>6 DEF Processed, Spared
<1>9. /\ IsFiniteSet(Sqz!Tokens(Processed'))
      /\ Cardinality(Sqz!Tokens(Processed')) = Cardinality(Sqz!Tokens(Processed)) + original
  <2>1. IsFiniteSet(Sqz!Tokens(Processed))
    BY DEF StatsInv
  <2>2. Processed'[a] = Processed[a] + original /\ \A b \in Agents \ {a} : Processed'[b] = Processed[b]
    BY <1>8
  <2>3. original \in Nat /\ Processed \in [Agents -> Nat]
    BY <1>1, <1>7
  <2> HIDE DEF Processed, Spared
  <2> QED BY <2>1, <2>2, <2>3, TokensGrow
<1>10. /\ IsFiniteSet(Sqz!Tokens(Spared'))
       /\ Cardinality(Sqz!Tokens(Spared')) = Cardinality(Sqz!Tokens(Spared)) + saved
  <2>1. IsFiniteSet(Sqz!Tokens(Spared))
    BY DEF StatsInv
  <2>2. Spared'[a] = Spared[a] + saved /\ \A b \in Agents \ {a} : Spared'[b] = Spared[b]
    BY <1>8
  <2>3. saved \in Nat /\ Spared \in [Agents -> Nat]
    BY <1>1, <1>7
  <2> HIDE DEF Processed, Spared
  <2> QED BY <2>1, <2>2, <2>3, TokensGrow
<1>11. Sqz!Tokens(Processed)' = Sqz!Tokens(Processed')
       /\ Sqz!Tokens(Spared)' = Sqz!Tokens(Spared')
  BY DEF Sqz!Tokens
<1>12. \A b \in Agents : per_agent'[b].saved <= per_agent'[b].processed
  BY <1>4, <1>6 DEF StatsInv
<1> QED BY <1>5, <1>6, <1>9, <1>10, <1>11, <1>12 DEF StatsInv

LEMMA FinishInv ==
    ASSUME NEW words, TextsOf(words), CompressInv, Sqz!Finish
    PROVE  CompressInv'
<1> DEFINE c == running.context
           t == running.threshold
<1>1. /\ running # None /\ c \in Contexts /\ t \in Nat /\ running.agent \in Agents
      /\ running' = None
  BY DEF Sqz!Finish, CompressInv, CacheInv
<1>2. PICK sqz \in BOOLEAN, n \in SqzWords :
          LET tokens == IF sqz THEN n ELSE Len(Sqz!fallback_compress(c, t))
          IN  /\ Sqz!Account(running.agent, c, tokens)
              /\ Sqz!Answer(c, t, tokens, sqz, FALSE)
              /\ cache' = [cache EXCEPT ![c] = [tokens |-> tokens, sqz |-> sqz]]
              /\ madeFor' = [madeFor EXCEPT ![c] = t]
  BY DEF Sqz!Finish
<1> DEFINE tokens == IF sqz THEN n ELSE Len(Sqz!fallback_compress(c, t))
           kept == [tokens |-> tokens, sqz |-> sqz]
<1>3. tokens \in Nat /\ (~sqz => tokens <= t)
  BY <1>1, FallbackFits DEF TextsOf
<1>4. /\ Sqz!Account(running.agent, c, tokens) /\ Sqz!Answer(c, t, tokens, sqz, FALSE)
      /\ cache' = [cache EXCEPT ![c] = kept] /\ madeFor' = [madeFor EXCEPT ![c] = t]
  BY <1>2
<1>5. kept.tokens = tokens /\ kept.sqz = sqz
  OBVIOUS
<1> HIDE DEF tokens, kept
<1>6. StatsInv'
  BY <1>1, <1>3, <1>4, AccountInv DEF CompressInv
<1>7. CacheInv'
  <2>1. /\ cache' = [d \in Contexts |-> cache'[d]] /\ cache'[c] = kept
        /\ \A d \in Contexts \ {c} : cache'[d] = cache[d] /\ madeFor'[d] = madeFor[d]
        /\ madeFor' \in [Contexts -> Nat] /\ madeFor'[c] = t
    BY <1>1, <1>4 DEF CompressInv, CacheInv
  <2> QED BY <1>1, <1>3, <1>5, <2>1 DEF CompressInv, CacheInv
<1>8. Sqz!WithinThreshold'
  <2>1. returned'.tokens = tokens /\ returned'.threshold = t /\ returned'.sqz = sqz /\ returned'.hit = FALSE
    BY <1>4 DEF Sqz!Answer
  <2> QED BY <1>3, <2>1 DEF Sqz!WithinThreshold
<1> QED BY <1>6, <1>7, <1>8 DEF CompressInv

LEMMA CompressNext ==
    ASSUME NEW words, TextsOf(words), CompressInv, [Sqz!Next]_(Sqz!vars)
    PROVE  CompressInv'
<1>1. ASSUME UNCHANGED <<per_agent, totals>> PROVE StatsInv'
  BY <1>1 DEF CompressInv, StatsInv, Sqz!Tokens, Processed, Spared
<1>2. CASE UNCHANGED Sqz!vars
  BY <1>1, <1>2 DEF Sqz!vars, CompressInv, CacheInv, Sqz!WithinThreshold
<1>3. ASSUME NEW a \in Agents, NEW c \in Contexts, NEW t \in Thresholds, Sqz!Short(a, c, t)
      PROVE  CompressInv'
  <2>1. /\ returned'.tokens <= returned'.threshold /\ returned'.hit = FALSE
    BY <1>3 DEF Sqz!Short, Sqz!Answer
  <2> QED BY <1>1, <1>3, <2>1 DEF Sqz!Short, CompressInv, CacheInv, Sqz!WithinThreshold
<1>4. ASSUME NEW a \in Agents, NEW c \in Contexts, NEW t \in Thresholds, Sqz!Hit(a, c, t)
      PROVE  CompressInv'
  <2>1. /\ cache[c].tokens \in Nat /\ (~cache[c].sqz => cache[c].tokens <= madeFor[c])
        /\ madeFor[c] \in Nat /\ t \in Nat
    BY <1>4 DEF Sqz!Hit, CompressInv, CacheInv, TextsOf
  <2>2. StatsInv'
    BY <1>4, <2>1, AccountInv DEF Sqz!Hit, CompressInv
  <2>3. CacheInv' /\ UNCHANGED madeFor
    BY <1>4 DEF Sqz!Hit, CompressInv, CacheInv
  <2>4. /\ returned'.tokens = cache[c].tokens /\ returned'.threshold = t /\ returned'.context = c
        /\ returned'.sqz = cache[c].sqz /\ returned'.hit = TRUE
    BY <1>4 DEF Sqz!Hit, Sqz!Answer
  <2>5. Sqz!WithinThreshold'
    BY <2>1, <2>3, <2>4 DEF Sqz!WithinThreshold
  <2> QED BY <2>2, <2>3, <2>5 DEF CompressInv
<1>5. ASSUME NEW a \in Agents, NEW c \in Contexts, NEW t \in Thresholds, Sqz!Start(a, c, t)
      PROVE  CompressInv'
  <2>1. running' = [agent |-> a, context |-> c, threshold |-> t] /\ t \in Nat
    BY <1>5 DEF Sqz!Start, TextsOf
  <2>2. running'.agent = a /\ running'.context = c /\ running'.threshold = t
    BY <2>1
  <2> QED BY <1>1, <1>5, <2>1, <2>2 DEF Sqz!Start, CompressInv, CacheInv, Sqz!WithinThreshold
<1>6. CASE Sqz!invalidate_cache
  BY <1>1, <1>6 DEF Sqz!invalidate_cache, CompressInv, CacheInv, Sqz!WithinThreshold
<1> QED BY <1>2, <1>3, <1>4, <1>5, <1>6, FinishInv DEF Sqz!Next

LEMMA CompressAddsUp ==
    ASSUME StatsInv
    PROVE  Sqz!StatsAddUp
BY SqzFilters DEF StatsInv, Processed, Spared, CompressFilters, Sqz!StatsAddUp

(* For texts of any words, any thresholds and whatever sqz answers: what the engine
   makes itself fits the threshold it was made for, and the totals are the sums over
   the agents. *)
THEOREM CompressCorrect ==
    ASSUME NEW CONSTANT words, TextsOf(words)
    PROVE  ServicesSpec => []CompressSound
<1> DEFINE Inv == part = "compress" => CompressInv
<1>1. ServicesInit => Inv
  BY Begins, CompressInit
<1>2. Inv /\ [ServicesNext]_states => Inv'
  BY Moves, CompressNext
<1>3. Inv => CompressSound
  BY CompressAddsUp DEF CompressInv, CompressSound
<1> QED BY <1>1, <1>2, <1>3, PTL DEF ServicesSpec

--------------------------------------------------------------------------------
(* Memory: the table that the shared store and Aura's fallback both keep. *)

Tab == INSTANCE MemoryStore

Kinds == {"global", "session", "agent"}
ScopesOf(parts) ==
    {Tab!Global} \cup {Tab!Session(id) : id \in Seq(parts)} \cup {Tab!Agent(a) : a \in parts}

(* Names are sequences of parts, of any kind. *)
NamesOf(parts) ==
    /\ Kinds \subseteq parts /\ AgentIds \subseteq parts
    /\ SessionIds \subseteq Seq(parts) /\ AuraScopes \subseteq ScopesOf(parts)
    /\ MemoryKeys \subseteq Seq(parts) /\ AuraKeys \subseteq Seq(parts)

(* Each entry is found in the table by its scope and key. *)
Tidy(t, parts) ==
    \A k \in DOMAIN t :
        /\ t[k].scope \in ScopesOf(parts) /\ t[k].key \in Seq(parts)
        /\ k = Tab!composite_key(t[k].scope, t[k].key)

(* A sequence before which and after which something stands. *)
LEMMA StartsEnds ==
    ASSUME NEW T, NEW p \in Seq(T), NEW q \in Seq(T)
    PROVE  /\ Len(q) > 0 => Tab!starts_with(p \o q, p)
           /\ Len(p) > 0 => Tab!ends_with(p \o q, q)
<1> DEFINE k == p \o q
<1>1. /\ k \in Seq(T) /\ Len(k) = Len(p) + Len(q) /\ Len(p) \in Nat /\ Len(q) \in Nat
      /\ \A i \in 1 .. Len(p) + Len(q) : k[i] = IF i <= Len(p) THEN p[i] ELSE q[i - Len(p)]
  BY ConcatProperties, LenProperties
<1> HIDE DEF k
<1>2. SubSeq(k, 1, Len(p)) = p
  <2> DEFINE t == SubSeq(k, 1, Len(p))
  <2>1. t = [i \in 1 .. Len(p) |-> k[i]]
    BY <1>1
  <2>2. p = [i \in 1 .. Len(p) |-> p[i]]
    BY <1>1
  <2>3. \A i \in 1 .. Len(p) : k[i] = p[i]
    BY <1>1
  <2> HIDE DEF t
  <2>4. t = p
    BY <2>1, <2>2, <2>3
  <2> QED BY <2>4 DEF t
<1>3. SubSeq(k, Len(k) - Len(q) + 1, Len(k)) = q
  <2>1. Len(k) - Len(q) + 1 = Len(p) + 1 /\ Len(k) - (Len(p) + 1) + 1 = Len(q)
    BY <1>1
  <2> DEFINE t == SubSeq(k, Len(p) + 1, Len(k))
  <2>2. t = [i \in 1 .. Len(q) |-> k[Len(p) + i]]
    BY <1>1
  <2>3. q = [i \in 1 .. Len(q) |-> q[i]]
    BY <1>1
  <2>4. \A i \in 1 .. Len(q) : k[Len(p) + i] = q[i]
    BY <1>1
  <2> HIDE DEF t
  <2>5. t = q
    BY <2>2, <2>3, <2>4
  <2> QED BY <2>1, <2>5 DEF t
<1> QED BY <1>1, <1>2, <1>3 DEF k, Tab!starts_with, Tab!ends_with

LEMMA ScopeFacts ==
    ASSUME NEW parts, Kinds \subseteq parts, NEW s \in ScopesOf(parts)
    PROVE  /\ s.kind \in Kinds /\ s.id \in Seq(parts)
           /\ s.kind = "global" => s = Tab!Global
           /\ Tab!prefix(s) \in Seq(parts) /\ Len(Tab!prefix(s)) = Len(s.id) + 1
           /\ Tab!prefix(s)[1] = s.kind
<1>1. \A a \in parts : <<a>> \in Seq(parts)
  OBVIOUS
<1>2. <<>> \in Seq(parts)
  OBVIOUS
<1>3. /\ s.kind \in Kinds /\ s.id \in Seq(parts)
      /\ s.kind = "global" => s = Tab!Global
  <2>1. CASE s = Tab!Global
    BY <1>2, <2>1 DEF Kinds, Tab!Global
  <2>2. ASSUME NEW id \in Seq(parts), s = Tab!Session(id) PROVE s.kind = "session" /\ s.id = id
    BY <2>2 DEF Tab!Session
  <2>3. ASSUME NEW a \in parts, s = Tab!Agent(a) PROVE s.kind = "agent" /\ s.id = <<a>>
    BY <2>3 DEF Tab!Agent
  <2> QED BY <1>1, <2>1, <2>2, <2>3 DEF ScopesOf, Kinds
<1>4. <<s.kind>> \in Seq(parts) /\ Len(<<s.kind>>) = 1 /\ <<s.kind>>[1] = s.kind
  BY <1>1, <1>3
<1> DEFINE h == <<s.kind>>
<1>5. h \in Seq(parts) /\ Len(h) = 1 /\ h[1] = s.kind
  BY <1>4
<1>6. Tab!prefix(s) = h \o s.id
  BY DEF Tab!prefix
<1> HIDE DEF h
<1>7. Len(s.id) \in Nat
  BY <1>3, LenProperties
<1>8. /\ h \o s.id \in Seq(parts) /\ Len(h \o s.id) = Len(h) + Len(s.id)
      /\ \A i \in 1 .. Len(h) : (h \o s.id)[i] = h[i]
  BY <1>3, <1>5, ConcatProperties
<1> QED BY <1>3, <1>5, <1>6, <1>7, <1>8

LEMMA CompositeFacts ==
    ASSUME NEW parts, Kinds \subseteq parts, NEW s \in ScopesOf(parts), NEW key \in Seq(parts)
    PROVE  LET k == Tab!composite_key(s, key)
           IN  /\ k \in Seq(parts) /\ k[1] = s.kind
               /\ Len(k) = Len(s.id) + 1 + Len(key)
               /\ Tab!ends_with(k, key)
               /\ s.id \o key \in Seq(parts) /\ Len(s.id \o key) = Len(s.id) + Len(key)
               /\ \A i \in 1 .. Len(s.id) + Len(key) : (s.id \o key)[i] = k[i + 1]
<1> DEFINE k == Tab!composite_key(s, key)
           p == Tab!prefix(s)
           c == s.id \o key
           d == s.id
<1>1. /\ p \in Seq(parts) /\ Len(p) = Len(d) + 1 /\ p[1] = s.kind /\ d \in Seq(parts)
      /\ Len(d) \in Nat /\ Len(key) \in Nat
  BY ScopeFacts, LenProperties
<1>2. k = p \o key
  BY DEF Tab!composite_key
<1>3. p = <<s.kind>> \o d
  BY DEF Tab!prefix
<1>4. /\ k \in Seq(parts) /\ Len(k) = Len(p) + Len(key)
      /\ \A i \in 1 .. Len(p) : k[i] = p[i]
      /\ \A i \in 1 .. Len(key) : k[Len(p) + i] = key[i]
  <2> HIDE DEF k, p, d, c
  <2>1. /\ p \o key \in Seq(parts) /\ Len(p \o key) = Len(p) + Len(key)
        /\ \A i \in 1 .. Len(p) : (p \o key)[i] = p[i]
        /\ \A i \in 1 .. Len(key) : (p \o key)[Len(p) + i] = key[i]
    <3>1. \A i \in 1 .. Len(p) + Len(key) :
              (p \o key)[i] = IF i <= Len(p) THEN p[i] ELSE key[i - Len(p)]
      BY <1>1, ConcatProperties
    <3>2. p \o key \in Seq(parts) /\ Len(p \o key) = Len(p) + Len(key)
      BY <1>1, ConcatProperties
    <3>3. Len(p) \in Nat
      BY <1>1
    <3> QED BY <1>1, <3>1, <3>2, <3>3
  <2> QED BY <1>2, <2>1
<1>5. /\ c \in Seq(parts) /\ Len(c) = Len(d) + Len(key)
      /\ \A i \in 1 .. Len(d) : c[i] = d[i]
      /\ \A i \in 1 .. Len(key) : c[Len(d) + i] = key[i]
  BY <1>1, ConcatProperties
<1>6. \A i \in 1 .. Len(d) : p[i + 1] = d[i]
  BY <1>1, <1>3
<1>7. Tab!ends_with(k, key)
  <2> HIDE DEF k, p, d, c
  <2> QED BY <1>1, <1>2, StartsEnds
<1> HIDE DEF k, p, c, d
<1>8. ASSUME NEW i \in 1 .. Len(d) + Len(key) PROVE c[i] = k[i + 1]
  <2>1. CASE i <= Len(d)
    BY <1>1, <1>4, <1>5, <1>6, <2>1
  <2>2. CASE i > Len(d)
    <3> DEFINE j == i - Len(d)
    <3>1. j \in 1 .. Len(key) /\ i = Len(d) + j /\ i + 1 = Len(p) + j
      BY <1>1, <2>2
    <3> HIDE DEF j
    <3> QED BY <1>4, <1>5, <3>1
  <2> QED BY <1>1, <2>1, <2>2
<1>9. k[1] = s.kind /\ Len(k) = Len(d) + 1 + Len(key)
  BY <1>1, <1>4
<1> QED BY <1>4, <1>5, <1>7, <1>8, <1>9 DEF k, c, d

(* What is kept in a tidy table is found, in the order of the scopes. *)
LEMMA QueryFinds ==
    ASSUME NEW parts, Kinds \subseteq parts, NEW s, Tidy(s.entries, parts),
           NEW k \in DOMAIN s.entries
    PROVE  Tab!query(s, s.entries[k].key) # {}
<1> DEFINE e == s.entries[k]
           key == e.key
           of(kind) == {s.entries[j] : j \in Tab!Candidates(s, kind, key)}
<1>1. /\ e.scope \in ScopesOf(parts) /\ key \in Seq(parts)
      /\ k = Tab!composite_key(e.scope, key)
  BY DEF Tidy
<1>2. /\ k[1] = e.scope.kind /\ Tab!ends_with(k, key)
      /\ e.scope.kind \in Kinds /\ (e.scope.kind = "global" => e.scope = Tab!Global)
  <2> HIDE DEF e, key
  <2> QED BY <1>1, CompositeFacts, ScopeFacts
<1>3. k \in Tab!Candidates(s, e.scope.kind, key)
  BY <1>2 DEF Tab!Candidates
<1>4. Tab!query(s, key) = IF of("agent") # {} THEN of("agent")
                          ELSE IF of("session") # {} THEN of("session")
                          ELSE {s.entries[j] : j \in {Tab!composite_key(Tab!Global, key)} \cap DOMAIN s.entries}
  BY DEF Tab!query
<1>5. of(e.scope.kind) # {}
  BY <1>3
<1> HIDE DEF e, key, of
<1>6. e.scope.kind = "global" => Tab!query(s, key) # {}
  BY <1>1, <1>2, <1>4
<1>7. e.scope.kind = "session" => Tab!query(s, key) # {}
  BY <1>4, <1>5
<1>8. e.scope.kind = "agent" => Tab!query(s, key) # {}
  BY <1>4, <1>5
<1> QED BY <1>2, <1>6, <1>7, <1>8 DEF Kinds, key, e

LEMMA QueryOrder ==
    ASSUME NEW parts, Kinds \subseteq parts, NEW s, Tidy(s.entries, parts),
           NEW key \in Seq(parts), NEW e \in Tab!query(s, key)
    PROVE  /\ Tab!ends_with(Tab!composite_key(e.scope, e.key), key)
           /\ \A j \in DOMAIN s.entries : s.entries[j].key = key =>
                  \/ e.scope.kind = "agent"
                  \/ e.scope.kind = "session" /\ s.entries[j].scope.kind # "agent"
                  \/ e.scope.kind = "global" /\ s.entries[j].scope.kind = "global"
<1> DEFINE of(kind) == {s.entries[j] : j \in Tab!Candidates(s, kind, key)}
           g == Tab!composite_key(Tab!Global, key)
<1>1. Tab!query(s, key) = IF of("agent") # {} THEN of("agent")
                          ELSE IF of("session") # {} THEN of("session")
                          ELSE {s.entries[j] : j \in {g} \cap DOMAIN s.entries}
  BY DEF Tab!query
<1>2. \A j \in DOMAIN s.entries : s.entries[j].key = key =>
          /\ s.entries[j].scope.kind \in Kinds
          /\ s.entries[j] \in of(s.entries[j].scope.kind)
  <2> SUFFICES ASSUME NEW j \in DOMAIN s.entries, s.entries[j].key = key
               PROVE  /\ s.entries[j].scope.kind \in Kinds
                      /\ j \in Tab!Candidates(s, s.entries[j].scope.kind, key)
    OBVIOUS
  <2>1. /\ s.entries[j].scope \in ScopesOf(parts)
        /\ j = Tab!composite_key(s.entries[j].scope, key)
    BY DEF Tidy
  <2>2. /\ j[1] = s.entries[j].scope.kind /\ Tab!ends_with(j, key)
        /\ s.entries[j].scope.kind \in Kinds
    BY <2>1, CompositeFacts, ScopeFacts
  <2> QED BY <2>2 DEF Tab!Candidates
<1>3. Tab!Global \in ScopesOf(parts) /\ Tab!Global.kind = "global"
  BY DEF ScopesOf, Tab!Global
<1>4. g[1] = "global" /\ Tab!ends_with(g, key)
  BY <1>3, CompositeFacts
<1>5. PICK k \in DOMAIN s.entries :
          /\ e = s.entries[k] /\ Tab!ends_with(k, key)
          /\ \/ k[1] = "agent"
             \/ k[1] = "session" /\ of("agent") = {}
             \/ k[1] = "global" /\ of("agent") = {} /\ of("session") = {}
  <2>1. \A kind : e \in of(kind) =>
            \E k \in DOMAIN s.entries : e = s.entries[k] /\ Tab!ends_with(k, key) /\ k[1] = kind
    BY DEF Tab!Candidates
  <2>2. e \in {s.entries[j] : j \in {g} \cap DOMAIN s.entries} =>
            g \in DOMAIN s.entries /\ e = s.entries[g]
    OBVIOUS
  <2> HIDE DEF of, g
  <2>3. CASE of("agent") # {}
    BY <1>1, <2>1, <2>3
  <2>4. CASE of("agent") = {} /\ of("session") # {}
    BY <1>1, <2>1, <2>4
  <2>5. CASE of("agent") = {} /\ of("session") = {}
    BY <1>1, <1>4, <2>2, <2>5
  <2> QED BY <2>3, <2>4, <2>5
<1> HIDE DEF of, g
<1>6. /\ e.scope \in ScopesOf(parts) /\ e.key \in Seq(parts)
      /\ k = Tab!composite_key(e.scope, e.key)
  BY <1>5 DEF Tidy
<1>7. k[1] = e.scope.kind
  BY <1>6, CompositeFacts
<1>8. Tab!ends_with(Tab!composite_key(e.scope, e.key), key)
  BY <1>5, <1>6
<1>9. \A j \in DOMAIN s.entries : s.entries[j].key = key =>
                  \/ e.scope.kind = "agent"
                  \/ e.scope.kind = "session" /\ s.entries[j].scope.kind # "agent"
                  \/ e.scope.kind = "global" /\ s.entries[j].scope.kind = "global"
  <2> SUFFICES ASSUME NEW j \in DOMAIN s.entries, s.entries[j].key = key
               PROVE  \/ e.scope.kind = "agent"
                      \/ e.scope.kind = "session" /\ s.entries[j].scope.kind # "agent"
                      \/ e.scope.kind = "global" /\ s.entries[j].scope.kind = "global"
    OBVIOUS
  <2> DEFINE kind == s.entries[j].scope.kind
  <2>1. kind \in Kinds /\ of(kind) # {}
    BY <1>2
  <2>2. \/ e.scope.kind = "agent"
        \/ e.scope.kind = "session" /\ of("agent") = {}
        \/ e.scope.kind = "global" /\ of("agent") = {} /\ of("session") = {}
    BY <1>5, <1>7
  <2> HIDE DEF kind
  <2>3. \/ e.scope.kind = "agent"
        \/ e.scope.kind = "session" /\ kind # "agent"
        \/ e.scope.kind = "global" /\ kind = "global"
    BY <2>1, <2>2 DEF Kinds
  <2> QED BY <2>3 DEF kind
<1> QED BY <1>8, <1>9

(* Storing and archiving keep the table tidy. *)
LEMMA StoreTidy ==
    ASSUME NEW parts, NEW s, s = [entries |-> s.entries, archive |-> s.archive], Tidy(s.entries, parts),
           NEW scope \in ScopesOf(parts), NEW key \in Seq(parts), NEW v
    PROVE  LET k == Tab!composite_key(scope, key)
               e == [key |-> key, scope |-> scope, value |-> v]
               after == Tab!store(s, scope, key, v)
           IN  /\ after = [entries |-> after.entries, archive |-> s.archive]
               /\ DOMAIN after.entries = DOMAIN s.entries \cup {k}
               /\ after.entries[k] = e
               /\ \A j \in DOMAIN s.entries \ {k} : after.entries[j] = s.entries[j]
               /\ Tidy(after.entries, parts)
<1> DEFINE k == Tab!composite_key(scope, key)
           e == [key |-> key, scope |-> scope, value |-> v]
           t == [j \in DOMAIN s.entries \cup {k} |-> IF j = k THEN e ELSE s.entries[j]]
<1>1. Tab!store(s, scope, key, v) = [entries |-> t, archive |-> s.archive]
  BY DEF Tab!store, Tab!Put
<1>2. /\ DOMAIN t = DOMAIN s.entries \cup {k} /\ t[k] = e
      /\ \A j \in DOMAIN s.entries \ {k} : t[j] = s.entries[j]
  OBVIOUS
<1>3. e.scope = scope /\ e.key = key
  OBVIOUS
<1> HIDE DEF t, e
<1>4. Tidy(t, parts)
  BY <1>2, <1>3 DEF Tidy
<1> HIDE DEF k
<1> QED BY <1>1, <1>2, <1>4 DEF k, e

LEMMA ArchiveTidy ==
    ASSUME NEW parts, NEW s, Tidy(s.entries, parts), Tidy(s.archive, parts), NEW id
    PROVE  LET gone == Tab!InSession(s.entries, id)
               after == Tab!archive_session(s, id)
           IN  /\ after = [entries |-> after.entries, archive |-> after.archive]
               /\ gone \subseteq DOMAIN s.entries
               /\ DOMAIN after.entries = DOMAIN s.entries \ gone
               /\ \A j \in DOMAIN after.entries : after.entries[j] = s.entries[j]
               /\ DOMAIN after.archive = DOMAIN s.archive \cup gone
               /\ Tidy(after.entries, parts) /\ Tidy(after.archive, parts)
               /\ \A j \in DOMAIN after.archive : 
                      after.archive[j] = IF j \in gone THEN s.entries[j] ELSE s.archive[j]
<1> DEFINE gone == Tab!InSession(s.entries, id)
           t == [j \in DOMAIN s.entries \ gone |-> s.entries[j]]
           a == [j \in DOMAIN s.archive \cup gone |-> IF j \in gone THEN s.entries[j] ELSE s.archive[j]]
<1>1. gone \subseteq DOMAIN s.entries
  BY DEF Tab!InSession
<1>2. Tab!archive_session(s, id) = [entries |-> t, archive |-> a]
  BY <1>1 DEF Tab!archive_session, Tab!Restrict
<1>3. /\ DOMAIN t = DOMAIN s.entries \ gone
      /\ \A j \in DOMAIN t : t[j] = s.entries[j]
      /\ DOMAIN a = DOMAIN s.archive \cup gone
      /\ \A j \in DOMAIN a : a[j] = IF j \in gone THEN s.entries[j] ELSE s.archive[j]
  OBVIOUS
<1> HIDE DEF gone, t, a
<1>4. Tidy(t, parts)
  BY <1>3 DEF Tidy
<1>5. Tidy(a, parts)
  <2> SUFFICES ASSUME NEW j \in DOMAIN a
               PROVE  /\ a[j].scope \in ScopesOf(parts) /\ a[j].key \in Seq(parts)
                      /\ j = Tab!composite_key(a[j].scope, a[j].key)
    BY DEF Tidy
  <2>1. CASE j \in gone
    BY <1>1, <1>3, <2>1 DEF Tidy
  <2>2. CASE j \notin gone
    BY <1>3, <2>2 DEF Tidy
  <2> QED BY <2>1, <2>2
<1> QED BY <1>1, <1>2, <1>3, <1>4, <1>5 DEF gone

--------------------------------------------------------------------------------
(* The store behind MCP and A2A. *)

st == s1
stored == s2
closed == s3
USE DEF st, stored, closed

LEMMA MemOps ==
    /\ Mem!NewStore = Tab!NewStore /\ Mem!Global = Tab!Global
    /\ \A i : Mem!Session(i) = Tab!Session(i)
    /\ \A i : Mem!Agent(i) = Tab!Agent(i)
    /\ \A c : Mem!prefix(c) = Tab!prefix(c)
    /\ \A c, k : Mem!composite_key(c, k) = Tab!composite_key(c, k)
    /\ \A k, p : Mem!starts_with(k, p) = Tab!starts_with(k, p)
    /\ \A k, p : Mem!ends_with(k, p) = Tab!ends_with(k, p)
    /\ \A t, i : Mem!InSession(t, i) = Tab!InSession(t, i)
<1>1. /\ Mem!NewStore = Tab!NewStore /\ Mem!Global = Tab!Global
      /\ \A i : Mem!Session(i) = Tab!Session(i)
      /\ \A i : Mem!Agent(i) = Tab!Agent(i)
  BY DEF Mem!NewStore, Tab!NewStore, Mem!NoEntries, Tab!NoEntries, Mem!Global, Tab!Global,
         Mem!Session, Tab!Session, Mem!Agent, Tab!Agent
<1>2. \A c : Mem!prefix(c) = Tab!prefix(c)
  BY DEF Mem!prefix, Tab!prefix
<1>3. \A c, k : Mem!composite_key(c, k) = Tab!composite_key(c, k)
  BY <1>2 DEF Mem!composite_key, Tab!composite_key
<1>4. \A k, p : Mem!starts_with(k, p) = Tab!starts_with(k, p)
  BY DEF Mem!starts_with, Tab!starts_with
<1>5. \A k, p : Mem!ends_with(k, p) = Tab!ends_with(k, p)
  BY DEF Mem!ends_with, Tab!ends_with
<1>6. \A t, i : Mem!InSession(t, i) = Tab!InSession(t, i)
  BY <1>1, <1>2, <1>4 DEF Mem!InSession, Tab!InSession
<1> QED BY <1>1, <1>2, <1>3, <1>4, <1>5, <1>6

LEMMA MemCalls ==
    /\ \A s, c, k, v : Mem!store(s, c, k, v) = Tab!store(s, c, k, v)
    /\ \A s, i : Mem!archive_session(s, i) = Tab!archive_session(s, i)
    /\ \A s, i : Mem!archived_entries(s, i) = Tab!archived_entries(s, i)
    /\ \A s, k : Mem!query(s, k) = Tab!query(s, k)
<1>1. \A s, c, k, v : Mem!store(s, c, k, v) = Tab!store(s, c, k, v)
  BY MemOps DEF Mem!store, Tab!store, Mem!Put, Tab!Put
<1>2. \A s, i : Mem!archive_session(s, i) = Tab!archive_session(s, i)
  BY MemOps DEF Mem!archive_session, Tab!archive_session, Mem!Restrict, Tab!Restrict
<1>3. \A s, i : Mem!archived_entries(s, i) = Tab!archived_entries(s, i)
  BY MemOps DEF Mem!archived_entries, Tab!archived_entries
<1>4. \A s, c, k : Mem!Candidates(s, c, k) = Tab!Candidates(s, c, k)
  BY MemOps DEF Mem!Candidates, Tab!Candidates
<1>5. \A s, k : Mem!query(s, k) = Tab!query(s, k)
  BY MemOps, <1>4 DEF Mem!query, Tab!query
<1> QED BY <1>1, <1>2, <1>3, <1>5

(* Each entry was stored; what was stored is kept under its string, in the archive
   when its session is over. *)
MemoryInv(parts) ==
    /\ st = [entries |-> st.entries, archive |-> st.archive]
    /\ Tidy(st.entries, parts) /\ Tidy(st.archive, parts)
    /\ \A k \in DOMAIN st.entries : <<st.entries[k].scope, st.entries[k].key>> \in stored
    /\ \A k \in DOMAIN st.archive : <<st.archive[k].scope, st.archive[k].key>> \in stored
    /\ stored \subseteq ScopesOf(parts) \X (Seq(parts) \ {<<>>})
    /\ \A p \in stored : Tab!composite_key(p[1], p[2]) \in DOMAIN st.entries \cup DOMAIN st.archive
    /\ \A id \in closed : id \in SessionIds /\ Tab!InSession(st.entries, id) = {}

LEMMA MemoryInit ==
    ASSUME NEW parts, Mem!Init
    PROVE  MemoryInv(parts)
<1>1. st = [entries |-> Tab!NoEntries, archive |-> Tab!NoEntries] /\ stored = {} /\ closed = {}
  BY MemOps DEF Mem!Init, Tab!NewStore
<1>2. DOMAIN Tab!NoEntries = {}
  BY DEF Tab!NoEntries
<1> QED BY <1>1, <1>2 DEF MemoryInv, Tidy

LEMMA ScopesThere ==
    ASSUME NEW parts, NamesOf(parts)
    PROVE  Mem!Scopes \subseteq ScopesOf(parts)
BY MemOps DEF NamesOf, ScopesOf, Mem!Scopes

LEMMA MemoryStored ==
    ASSUME NEW parts, NamesOf(parts), MemoryInv(parts),
           NEW req \in Mem!StoreRequests, Mem!Store(req)
    PROVE  MemoryInv(parts)'
<1>1. CASE ~ Mem!Valid(req)
  BY <1>1 DEF Mem!Store, Mem!vars, MemoryInv
<1>2. CASE Mem!Valid(req)
  <2> DEFINE scope == Mem!parse_scope(req)
             key == req.key
             v == req.value
             k == Tab!composite_key(scope, key)
             e == [key |-> key, scope |-> scope, value |-> v]
  <2>1. scope \in ScopesOf(parts) /\ key \in Seq(parts) /\ key # <<>>
    <3>1. key \in MemoryKeys /\ key # <<>> /\ req.scope \in Mem!Scopes \cup {Mem!Missing}
      BY <1>2 DEF Mem!StoreRequests, Mem!Valid
    <3>2. scope \in Mem!Scopes
      BY <3>1 DEF Mem!parse_scope, Mem!Scopes
    <3> QED BY <3>1, <3>2, ScopesThere DEF NamesOf
  <2>2. /\ st' = Tab!store(st, scope, key, v)
        /\ stored' = stored \cup {<<scope, key>>}
        /\ closed' = closed \ {i \in SessionIds : Tab!starts_with(k, Tab!prefix(Tab!Session(i)))}
    BY <1>2, MemCalls, MemOps DEF Mem!Store
  <2> HIDE DEF scope, key, v
  <2>3. /\ st' = [entries |-> st'.entries, archive |-> st.archive]
        /\ DOMAIN st'.entries = DOMAIN st.entries \cup {k} /\ st'.entries[k] = e
        /\ \A j \in DOMAIN st.entries \ {k} : st'.entries[j] = st.entries[j]
        /\ Tidy(st'.entries, parts)
    <3>1. st = [entries |-> st.entries, archive |-> st.archive] /\ Tidy(st.entries, parts)
      BY DEF MemoryInv
    <3> QED BY <2>1, <2>2, <3>1, StoreTidy
  <2>4. e.scope = scope /\ e.key = key
    OBVIOUS
  <2> HIDE DEF e, k
  <2>5. st'.archive = st.archive /\ st' = [entries |-> st'.entries, archive |-> st'.archive]
    BY <2>3
  <2>6. \A j \in DOMAIN st'.entries : <<st'.entries[j].scope, st'.entries[j].key>> \in stored'
    BY <2>2, <2>3, <2>4 DEF MemoryInv
  <2>7. stored' \subseteq ScopesOf(parts) \X (Seq(parts) \ {<<>>})
    BY <2>1, <2>2 DEF MemoryInv
  <2>8. \A p \in stored' : Tab!composite_key(p[1], p[2]) \in DOMAIN st'.entries \cup DOMAIN st.archive
    BY <2>2, <2>3 DEF MemoryInv, k
  <2>9. ASSUME NEW i \in closed' PROVE i \in SessionIds /\ Tab!InSession(st'.entries, i) = {}
    <3>1. i \in SessionIds /\ Tab!InSession(st.entries, i) = {}
          /\ ~ Tab!starts_with(k, Tab!prefix(Tab!Session(i)))
      BY <2>2 DEF MemoryInv
    <3> QED BY <2>3, <3>1 DEF Tab!InSession
  <2>10. \A j \in DOMAIN st.archive : <<st.archive[j].scope, st.archive[j].key>> \in stored'
    BY <2>2 DEF MemoryInv
  <2>11. Tidy(st.archive, parts)
    BY DEF MemoryInv
  <2> QED BY <2>3, <2>5, <2>6, <2>7, <2>8, <2>9, <2>10, <2>11 DEF MemoryInv, Tidy
<1> QED BY <1>1, <1>2

LEMMA MemoryArchived ==
    ASSUME NEW parts, MemoryInv(parts), NEW i \in SessionIds, Mem!ArchiveSession(i)
    PROVE  MemoryInv(parts)'
<1> DEFINE gone == Tab!InSession(st.entries, i)
<1>1. /\ st' = Tab!archive_session(st, i) /\ closed' = closed \cup {i} /\ UNCHANGED stored
  BY MemCalls DEF Mem!ArchiveSession
<1>2. /\ st' = [entries |-> st'.entries, archive |-> st'.archive]
      /\ gone \subseteq DOMAIN st.entries
      /\ DOMAIN st'.entries = DOMAIN st.entries \ gone
      /\ \A j \in DOMAIN st'.entries : st'.entries[j] = st.entries[j]
      /\ DOMAIN st'.archive = DOMAIN st.archive \cup gone
      /\ Tidy(st'.entries, parts) /\ Tidy(st'.archive, parts)
      /\ \A j \in DOMAIN st'.archive : 
             st'.archive[j] = IF j \in gone THEN st.entries[j] ELSE st.archive[j]
  <2>1. Tidy(st.entries, parts) /\ Tidy(st.archive, parts)
    BY DEF MemoryInv
  <2> QED BY <1>1, <2>1, ArchiveTidy
<1>3. ASSUME NEW id \in closed' PROVE id \in SessionIds /\ Tab!InSession(st'.entries, id) = {}
  <2>1. id \in closed => id \in SessionIds /\ Tab!InSession(st.entries, id) = {}
    BY DEF MemoryInv
  <2>2. id = i => gone = Tab!InSession(st.entries, id)
    OBVIOUS
  <2> HIDE DEF gone
  <2>3. id \in closed \/ id = i
    BY <1>1
  <2> QED BY <1>2, <2>1, <2>2, <2>3 DEF Tab!InSession
<1> HIDE DEF gone
<1>4. \A j \in DOMAIN st'.entries : <<st'.entries[j].scope, st'.entries[j].key>> \in stored'
  BY <1>1, <1>2 DEF MemoryInv
<1>5. \A j \in DOMAIN st'.archive : <<st'.archive[j].scope, st'.archive[j].key>> \in stored'
  BY <1>1, <1>2 DEF MemoryInv
<1>6. \A p \in stored' : Tab!composite_key(p[1], p[2]) \in DOMAIN st'.entries \cup DOMAIN st'.archive
  BY <1>1, <1>2 DEF MemoryInv
<1>7. stored' \subseteq ScopesOf(parts) \X (Seq(parts) \ {<<>>})
  BY <1>1 DEF MemoryInv
<1> QED BY <1>2, <1>3, <1>4, <1>5, <1>6, <1>7 DEF MemoryInv, Tidy

LEMMA MemoryNext ==
    ASSUME NEW parts, NamesOf(parts), MemoryInv(parts), [Mem!Next]_(Mem!vars)
    PROVE  MemoryInv(parts)'
<1>1. CASE UNCHANGED Mem!vars
  BY <1>1 DEF Mem!vars, MemoryInv, Tidy
<1> QED BY <1>1, MemoryStored, MemoryArchived DEF Mem!Next, Mem!mcp_store, Mem!a2a_store

LEMMA MemoryAnswers ==
    ASSUME NEW parts, NamesOf(parts), MemoryInv(parts)
    PROVE  Mem!ScopeOrder
<1> SUFFICES ASSUME NEW key \in MemoryKeys, NEW e \in Mem!mcp_query(key)
             PROVE  /\ \A f \in Mem!Live : f.key = key => Mem!Rank[e.scope.kind] <= Mem!Rank[f.scope.kind]
                    /\ Mem!ends_with(Mem!composite_key(e.scope, e.key), key)
  BY DEF Mem!ScopeOrder
<1>1. key \in Seq(parts) /\ e \in Tab!query(st, key) /\ Tidy(st.entries, parts) /\ Kinds \subseteq parts
  BY MemCalls DEF Mem!mcp_query, NamesOf, MemoryInv
<1>2. /\ Tab!ends_with(Tab!composite_key(e.scope, e.key), key)
      /\ \A j \in DOMAIN st.entries : st.entries[j].key = key =>
             \/ e.scope.kind = "agent"
             \/ e.scope.kind = "session" /\ st.entries[j].scope.kind # "agent"
             \/ e.scope.kind = "global" /\ st.entries[j].scope.kind = "global"
  BY <1>1, QueryOrder
<1>3. ASSUME NEW j \in DOMAIN st.entries, st.entries[j].key = key
      PROVE  Mem!Rank[e.scope.kind] <= Mem!Rank[st.entries[j].scope.kind]
  <2>1. st.entries[j].scope.kind \in Kinds
    BY <1>1, ScopeFacts DEF Tidy
  <2>2. Mem!Rank["agent"] = 1 /\ Mem!Rank["session"] = 2 /\ Mem!Rank["global"] = 3
    BY DEF Mem!Rank
  <2> DEFINE x == e.scope.kind
             y == st.entries[j].scope.kind
  <2>3. \/ x = "agent"
        \/ x = "session" /\ y # "agent"
        \/ x = "global" /\ y = "global"
    BY <1>2, <1>3
  <2>4. y \in Kinds
    BY <2>1
  <2> HIDE DEF x, y
  <2>5. Mem!Rank[x] <= Mem!Rank[y]
    BY <2>2, <2>3, <2>4 DEF Kinds
  <2> QED BY <2>5 DEF x, y
<1> QED BY <1>2, <1>3, MemOps DEF Mem!Live

LEMMA MemoryKept ==
    ASSUME NEW parts, NamesOf(parts), MemoryInv(parts)
    PROVE  Mem!NothingLost
<1>1. ASSUME NEW p \in stored
      PROVE  \/ \E e \in Mem!Kept : e.scope = p[1] /\ e.key = p[2]
             \/ \E q \in stored \ {p} : Tab!composite_key(q[1], q[2]) = Tab!composite_key(p[1], p[2])
  <2> DEFINE k == Tab!composite_key(p[1], p[2])
  <2>1. PICK e \in Mem!Kept : <<e.scope, e.key>> \in stored /\ Tab!composite_key(e.scope, e.key) = k
    <3>1. CASE k \in DOMAIN st.entries
      BY <3>1 DEF MemoryInv, Tidy, Mem!Kept, Mem!Live
    <3>2. CASE k \in DOMAIN st.archive
      BY <3>2 DEF MemoryInv, Tidy, Mem!Kept, Mem!Live
    <3> QED BY <3>1, <3>2 DEF MemoryInv
  <2>2. p = <<p[1], p[2]>>
    BY DEF MemoryInv
  <2> DEFINE q == <<e.scope, e.key>>
  <2>3. q[1] = e.scope /\ q[2] = e.key /\ q \in stored
    BY <2>1
  <2> HIDE DEF q, k
  <2>4. CASE q = p
    BY <2>3, <2>4
  <2>5. CASE q # p
    BY <2>1, <2>3, <2>5 DEF k
  <2> QED BY <2>4, <2>5
<1>2. ASSUME NEW e \in Mem!Live PROVE Mem!mcp_query(e.key) # {}
  <2>1. PICK k \in DOMAIN st.entries : e = st.entries[k]
    BY DEF Mem!Live
  <2>2. Tab!query(st, st.entries[k].key) # {}
    BY QueryFinds DEF MemoryInv, NamesOf
  <2> QED BY <2>1, <2>2, MemCalls DEF Mem!mcp_query
<1> QED BY <1>1, <1>2, MemOps DEF Mem!NothingLost

LEMMA MemoryArchives ==
    ASSUME NEW parts, NamesOf(parts), MemoryInv(parts)
    PROVE  Mem!ArchiveComplete
<1>1. ASSUME NEW id \in closed, NEW scope \in ScopesOf(parts), scope = Tab!Session(id),
             NEW key \in Seq(parts), key # <<>>
      PROVE  LET k == Tab!composite_key(scope, key)
             IN  Tab!starts_with(k, Tab!prefix(scope)) /\ k \notin DOMAIN st.entries
  <2> DEFINE p == Tab!prefix(scope)
  <2>1. p \in Seq(parts) /\ Len(key) > 0
    BY <1>1, ScopeFacts, EmptySeq DEF NamesOf
  <2>2. Tab!starts_with(p \o key, p)
    BY <2>1, StartsEnds
  <2>3. Tab!InSession(st.entries, id) = {}
    BY DEF MemoryInv
  <2> QED BY <1>1, <2>2, <2>3 DEF Tab!InSession, Tab!composite_key
<1>2. ASSUME NEW id \in closed, NEW e \in Mem!Live PROVE e.scope # Tab!Session(id)
  <2>1. PICK k \in DOMAIN st.entries : e = st.entries[k]
    BY DEF Mem!Live
  <2>2. /\ e.scope \in ScopesOf(parts) /\ e.key \in Seq(parts) /\ k = Tab!composite_key(e.scope, e.key)
    BY <2>1 DEF MemoryInv, Tidy
  <2>3. e.key # <<>>
    BY <2>1 DEF MemoryInv
  <2> QED BY <1>1, <2>2, <2>3
<1>3. ASSUME NEW id \in closed, NEW p \in stored, p[1] = Tab!Session(id)
      PROVE  \E e \in Tab!archived_entries(st, id) :
                 Tab!composite_key(e.scope, e.key) = Tab!composite_key(p[1], p[2])
  <2> DEFINE k == Tab!composite_key(p[1], p[2])
  <2>1. p[1] \in ScopesOf(parts) /\ p[2] \in Seq(parts) /\ p[2] # <<>>
    BY DEF MemoryInv
  <2>2. Tab!starts_with(k, Tab!prefix(p[1])) /\ k \notin DOMAIN st.entries
    BY <1>1, <1>3, <2>1
  <2>3. k \in DOMAIN st.archive
    BY <2>2 DEF MemoryInv
  <2>4. Tab!composite_key(st.archive[k].scope, st.archive[k].key) = k
    BY <2>3 DEF MemoryInv, Tidy
  <2> HIDE DEF k
  <2>5. k \in Tab!InSession(st.archive, id)
    BY <1>3, <2>2, <2>3 DEF Tab!InSession
  <2>6. st.archive[k] \in Tab!archived_entries(st, id)
    BY <2>5 DEF Tab!archived_entries
  <2> QED BY <2>4, <2>6 DEF k
<1> QED BY <1>2, <1>3, MemOps, MemCalls DEF Mem!ArchiveComplete

--------------------------------------------------------------------------------
(* The store of a process beside Aura. *)

aura == s1
local == s2
last == s4
behind == s5
USE DEF aura, local, last, behind

LEMMA AuraOps ==
    /\ Aura!NewStore = Tab!NewStore /\ Aura!Global = Tab!Global
    /\ \A c, k : Aura!composite_key(c, k) = Tab!composite_key(c, k)
    /\ \A t, i : Aura!InSession(t, i) = Tab!InSession(t, i)
    /\ \A s, c, k : Aura!Candidates(s, c, k) = Tab!Candidates(s, c, k)
<1>1. /\ Aura!NewStore = Tab!NewStore /\ Aura!Global = Tab!Global
      /\ \A i : Aura!Session(i) = Tab!Session(i)
  BY DEF Aura!NewStore, Tab!NewStore, Aura!NoEntries, Tab!NoEntries, Aura!Global, Tab!Global,
         Aura!Session, Tab!Session
<1>2. \A c : Aura!prefix(c) = Tab!prefix(c)
  BY DEF Aura!prefix, Tab!prefix
<1>3. \A c, k : Aura!composite_key(c, k) = Tab!composite_key(c, k)
  BY <1>2 DEF Aura!composite_key, Tab!composite_key
<1>4. \A k, p : Aura!starts_with(k, p) = Tab!starts_with(k, p)
  BY DEF Aura!starts_with, Tab!starts_with
<1>5. \A k, p : Aura!ends_with(k, p) = Tab!ends_with(k, p)
  BY DEF Aura!ends_with, Tab!ends_with
<1>6. \A t, i : Aura!InSession(t, i) = Tab!InSession(t, i)
  BY <1>1, <1>2, <1>4 DEF Aura!InSession, Tab!InSession
<1>7. \A s, c, k : Aura!Candidates(s, c, k) = Tab!Candidates(s, c, k)
  BY <1>5 DEF Aura!Candidates, Tab!Candidates
<1> QED BY <1>1, <1>3, <1>6, <1>7

LEMMA AuraCalls ==
    /\ \A s, c, k, v : Aura!store(s, c, k, v) = Tab!store(s, c, k, v)
    /\ \A s, i : Aura!archive_session(s, i) = Tab!archive_session(s, i)
    /\ \A s, k : Aura!query(s, k) = Tab!query(s, k)
    /\ \A t, k, e : Aura!Put(t, k, e) = Tab!Put(t, k, e)
    /\ \A t, D : Aura!Restrict(t, D) = Tab!Restrict(t, D)
<1>1. \A t, k, e : Aura!Put(t, k, e) = Tab!Put(t, k, e)
  BY DEF Aura!Put, Tab!Put
<1>2. \A t, D : Aura!Restrict(t, D) = Tab!Restrict(t, D)
  BY DEF Aura!Restrict, Tab!Restrict
<1>3. \A s, c, k, v : Aura!store(s, c, k, v) = Tab!store(s, c, k, v)
  BY AuraOps, <1>1 DEF Aura!store, Tab!store
<1>4. \A s, i : Aura!archive_session(s, i) = Tab!archive_session(s, i)
  BY AuraOps, <1>2 DEF Aura!archive_session, Tab!archive_session
<1>5. \A s, k : Aura!query(s, k) = Tab!query(s, k)
  BY AuraOps DEF Aura!query, Tab!query
<1> QED BY <1>1, <1>2, <1>3, <1>4, <1>5

(* The string of a key in the global scope. *)
Shared(key) == Tab!composite_key(Tab!Global, key)

LEMMA SharedFacts ==
    ASSUME NEW parts, Kinds \subseteq parts, NEW key \in Seq(parts)
    PROVE  /\ Tab!Global \in ScopesOf(parts)
           /\ Shared(key) \in Seq(parts) /\ Shared(key)[1] = "global"
           /\ Len(Shared(key)) = 1 + Len(key)
           /\ \A i \in 1 .. Len(key) : Shared(key)[i + 1] = key[i]
<1> DEFINE k == Shared(key)
<1>1. Tab!Global \in ScopesOf(parts) /\ Tab!Global.kind = "global" /\ Tab!Global.id = <<>>
  BY DEF ScopesOf, Tab!Global
<1>2. Len(Tab!Global.id) = 0 /\ Tab!Global.id \o key = key /\ Len(key) \in Nat
  BY <1>1, EmptySeq, ConcatEmptySeq, LenProperties
<1>3. /\ k \in Seq(parts) /\ k[1] = Tab!Global.kind
      /\ Len(k) = Len(Tab!Global.id) + 1 + Len(key)
      /\ \A i \in 1 .. Len(Tab!Global.id) + Len(key) : (Tab!Global.id \o key)[i] = k[i + 1]
  BY <1>1, CompositeFacts DEF Shared
<1> HIDE DEF k
<1>4. \A i \in 1 .. Len(key) : key[i] = k[i + 1]
  BY <1>2, <1>3
<1> QED BY <1>1, <1>2, <1>3, <1>4 DEF k

LEMMA SharedOnce ==
    ASSUME NEW parts, Kinds \subseteq parts, NEW key \in Seq(parts),
           NEW scope \in ScopesOf(parts), NEW other \in Seq(parts),
           Tab!composite_key(scope, other) = Shared(key)
    PROVE  scope = Tab!Global /\ other = key
<1>1. scope = Tab!Global
  <2>1. Tab!composite_key(scope, other)[1] = scope.kind
    BY CompositeFacts
  <2>2. Shared(key)[1] = "global"
    BY SharedFacts
  <2> QED BY <2>1, <2>2, ScopeFacts
<1>2. /\ Len(Shared(key)) = 1 + Len(key) /\ Len(Shared(other)) = 1 + Len(other)
      /\ \A i \in 1 .. Len(key) : Shared(key)[i + 1] = key[i]
      /\ \A i \in 1 .. Len(other) : Shared(other)[i + 1] = other[i]
      /\ Len(key) \in Nat /\ Len(other) \in Nat
  BY SharedFacts, LenProperties
<1>3. Shared(other) = Shared(key)
  BY <1>1 DEF Shared
<1>4. Len(other) = Len(key) /\ \A i \in 1 .. Len(key) : other[i] = key[i]
  BY <1>2, <1>3
<1>5. other = key
  BY <1>4, SeqEqual
<1> QED BY <1>1, <1>5

(* What was stored in the global scope last is here, and Aura has that, or not the
   key at all, or is behind. *)
AuraInv(parts) ==
    /\ local = [entries |-> local.entries, archive |-> local.archive]
    /\ Tidy(local.entries, parts) /\ Tidy(local.archive, parts)
    /\ last = [k \in AuraKeys |-> last[k]]
    /\ \A k \in AuraKeys : last[k] # None =>
          /\ Shared(k) \in DOMAIN local.entries /\ local.entries[Shared(k)].value = last[k]
          /\ k \notin behind /\ Shared(k) \in DOMAIN aura => aura[Shared(k)] = from_utf8_lossy[last[k]]

LEMMA AuraInit ==
    ASSUME NEW parts, Aura!Init
    PROVE  AuraInv(parts)
<1>1. /\ local = [entries |-> Tab!NoEntries, archive |-> Tab!NoEntries]
      /\ last = [k \in AuraKeys |-> None]
  BY AuraOps DEF Aura!Init, Tab!NewStore
<1>2. DOMAIN Tab!NoEntries = {}
  BY DEF Tab!NoEntries
<1> QED BY <1>1, <1>2 DEF AuraInv, Tidy

(* The strings of other keys and scopes are other strings. *)
LEMMA StoredHere ==
    ASSUME NEW parts, NamesOf(parts), AuraInv(parts), NEW scope \in ScopesOf(parts),
           NEW key \in AuraKeys, NEW v, local' = Tab!store(local, scope, key, v)
    PROVE  /\ local' = [entries |-> local'.entries, archive |-> local'.archive]
           /\ Tidy(local'.entries, parts) /\ Tidy(local'.archive, parts)
           /\ scope = Tab!Global => /\ Shared(key) \in DOMAIN local'.entries
                                    /\ local'.entries[Shared(key)].value = v
           /\ \A k \in AuraKeys : Shared(k) \in DOMAIN local.entries /\ (scope # Tab!Global \/ k # key) =>
                 /\ Shared(k) \in DOMAIN local'.entries
                 /\ local'.entries[Shared(k)] = local.entries[Shared(k)]
<1> DEFINE c == Tab!composite_key(scope, key)
           e == [key |-> key, scope |-> scope, value |-> v]
<1>1. key \in Seq(parts) /\ Kinds \subseteq parts /\ AuraKeys \subseteq Seq(parts)
  BY DEF NamesOf
<1>2. /\ local = [entries |-> local.entries, archive |-> local.archive]
      /\ Tidy(local.entries, parts) /\ Tidy(local.archive, parts)
  BY DEF AuraInv
<1>3. /\ local' = [entries |-> local'.entries, archive |-> local.archive]
      /\ DOMAIN local'.entries = DOMAIN local.entries \cup {c} /\ local'.entries[c] = e
      /\ \A j \in DOMAIN local.entries \ {c} : local'.entries[j] = local.entries[j]
      /\ Tidy(local'.entries, parts)
  BY <1>1, <1>2, StoreTidy
<1>4. e.value = v
  OBVIOUS
<1> HIDE DEF c, e
<1>5. local'.archive = local.archive
  BY <1>3
<1>6. \A k \in AuraKeys : c = Shared(k) => scope = Tab!Global /\ k = key
  BY <1>1, SharedOnce DEF c
<1>7. scope = Tab!Global => c = Shared(key)
  BY DEF c, Shared
<1> QED BY <1>2, <1>3, <1>4, <1>5, <1>6, <1>7

(* A value of the global scope in this process alone. *)
LEMMA LocallyInv ==
    ASSUME NEW parts, NamesOf(parts), AuraInv(parts), NEW key \in AuraKeys, NEW v,
           Aura!Locally(key, v)
    PROVE  AuraInv(parts)'
<1>1. /\ local' = Tab!store(local, Tab!Global, key, v)
      /\ last' = [last EXCEPT ![key] = v] /\ UNCHANGED aura
      /\ behind' = behind \cup Aura!Missed(key)
  BY AuraCalls, AuraOps DEF Aura!Locally
<1>2. Tab!Global \in ScopesOf(parts)
  BY DEF ScopesOf
<1>3. /\ local' = [entries |-> local'.entries, archive |-> local'.archive]
      /\ Tidy(local'.entries, parts) /\ Tidy(local'.archive, parts)
      /\ Shared(key) \in DOMAIN local'.entries /\ local'.entries[Shared(key)].value = v
      /\ \A k \in AuraKeys : Shared(k) \in DOMAIN local.entries /\ k # key =>
            /\ Shared(k) \in DOMAIN local'.entries
            /\ local'.entries[Shared(k)] = local.entries[Shared(k)]
  BY <1>1, <1>2, StoredHere
<1>4. /\ last' = [k \in AuraKeys |-> last'[k]] /\ last'[key] = v
      /\ \A k \in AuraKeys \ {key} : last'[k] = last[k]
  BY <1>1 DEF AuraInv
<1>5. Shared(key) \in DOMAIN aura => key \in behind'
  BY <1>1, AuraOps DEF Aura!Missed, Shared
<1> QED BY <1>1, <1>3, <1>4, <1>5 DEF AuraInv, Tidy

LEMMA StoreKvInv ==
    ASSUME NEW parts, NamesOf(parts), AuraInv(parts), NEW key \in AuraKeys, NEW v,
           Aura!store_kv(key, v)
    PROVE  AuraInv(parts)'
<1>1. CASE Aura!Locally(key, v)
  BY <1>1, LocallyInv
<1>2. CASE /\ \E works \in BOOLEAN : Aura!aura_memory_add(key, v, works)
           /\ behind' = behind \cup Aura!Foreign(key) /\ UNCHANGED <<local, last>>
  <2>1. aura' = Tab!Put(aura, key, v) \/ aura' = aura
    BY <1>2, AuraCalls DEF Aura!aura_memory_add
  <2>2. \A k \in AuraKeys : k \notin behind' /\ Shared(k) \in DOMAIN aura' =>
            k \notin behind /\ Shared(k) \in DOMAIN aura /\ aura'[Shared(k)] = aura[Shared(k)]
    BY <1>2, <2>1, AuraOps DEF Aura!Foreign, Shared, Tab!Put
  <2> QED BY <1>2, <2>2 DEF AuraInv, Tidy
<1> QED BY <1>1, <1>2 DEF Aura!store_kv

LEMMA RemoveInv ==
    ASSUME NEW parts, NamesOf(parts), AuraInv(parts), NEW key \in AuraKeys, Aura!remove(key)
    PROVE  AuraInv(parts)'
<1>1. CASE Aura!Locally(key, "")
  BY <1>1, LocallyInv
<1>2. CASE /\ \E works \in BOOLEAN : Aura!aura_memory_rm(key, works)
           /\ UNCHANGED <<local, last, behind>>
  <2>1. aura' = Tab!Restrict(aura, DOMAIN aura \ {key}) \/ aura' = aura
    BY <1>2, AuraCalls DEF Aura!aura_memory_rm
  <2>2. \A k \in DOMAIN aura' : k \in DOMAIN aura /\ aura'[k] = aura[k]
    BY <2>1 DEF Tab!Restrict
  <2> QED BY <1>2, <2>2 DEF AuraInv, Tidy
<1> QED BY <1>1, <1>2 DEF Aura!remove

LEMMA AuraStoreInv ==
    ASSUME NEW parts, NamesOf(parts), AuraInv(parts), NEW scope \in ScopesOf(parts),
           NEW key \in AuraKeys, NEW v, Aura!aura_store(scope, key, v)
    PROVE  AuraInv(parts)'
<1>1. PICK taken \in BOOLEAN :
          /\ aura' = IF taken THEN Tab!Put(aura, Tab!composite_key(scope, key), from_utf8_lossy[v])
                     ELSE aura
          /\ behind' = IF scope # Tab!Global THEN behind
                       ELSE IF taken THEN behind \ {key} ELSE behind \cup Aura!Missed(key)
  BY AuraCalls, AuraOps DEF Aura!aura_store, Aura!aura_memory_add, Aura!aura_available
<1>2. /\ local' = Tab!store(local, scope, key, v)
      /\ last' = IF scope = Tab!Global THEN [last EXCEPT ![key] = v] ELSE last
  BY AuraCalls, AuraOps DEF Aura!aura_store
<1>3. /\ local' = [entries |-> local'.entries, archive |-> local'.archive]
      /\ Tidy(local'.entries, parts) /\ Tidy(local'.archive, parts)
      /\ scope = Tab!Global => /\ Shared(key) \in DOMAIN local'.entries
                               /\ local'.entries[Shared(key)].value = v
      /\ \A k \in AuraKeys : Shared(k) \in DOMAIN local.entries /\ (scope # Tab!Global \/ k # key) =>
            /\ Shared(k) \in DOMAIN local'.entries
            /\ local'.entries[Shared(k)] = local.entries[Shared(k)]
  BY <1>2, StoredHere
<1>4. \A k \in AuraKeys : Tab!composite_key(scope, key) = Shared(k) => scope = Tab!Global /\ k = key
  BY SharedOnce DEF NamesOf
<1>5. \A k \in AuraKeys : (scope # Tab!Global \/ k # key) /\ k \notin behind' /\ Shared(k) \in DOMAIN aura' =>
          k \notin behind /\ Shared(k) \in DOMAIN aura /\ aura'[Shared(k)] = aura[Shared(k)]
  BY <1>1, <1>4 DEF Tab!Put
<1>6. scope = Tab!Global /\ key \notin behind' /\ Shared(key) \in DOMAIN aura' => aura'[Shared(key)] = from_utf8_lossy[v]
  <2>1. Shared(key) \in DOMAIN aura => key \in Aura!Missed(key)
    BY AuraOps DEF Aura!Missed, Shared
  <2> QED BY <1>1, <2>1 DEF Tab!Put, Shared
<1>7. /\ last' = [k \in AuraKeys |-> last'[k]]
      /\ scope = Tab!Global => last'[key] = v
      /\ \A k \in AuraKeys : scope # Tab!Global \/ k # key => last'[k] = last[k]
  BY <1>2 DEF AuraInv
<1> QED BY <1>3, <1>5, <1>6, <1>7 DEF AuraInv, Tidy

LEMMA AuraArchivedInv ==
    ASSUME NEW parts, NamesOf(parts), AuraInv(parts), NEW s \in AuraScopes, s.kind = "session",
           Aura!aura_archive_session(s.id)
    PROVE  AuraInv(parts)'
<1> DEFINE i == s.id
           gone == Tab!InSession(local.entries, i)
<1>1. local' = Tab!archive_session(local, i) /\ UNCHANGED <<aura, last, behind>>
  BY AuraCalls DEF Aura!aura_archive_session
<1>2. /\ local' = [entries |-> local'.entries, archive |-> local'.archive]
      /\ DOMAIN local'.entries = DOMAIN local.entries \ gone
      /\ \A j \in DOMAIN local'.entries : local'.entries[j] = local.entries[j]
      /\ Tidy(local'.entries, parts) /\ Tidy(local'.archive, parts)
  <2>1. Tidy(local.entries, parts) /\ Tidy(local.archive, parts)
    BY DEF AuraInv
  <2> QED BY <1>1, <2>1, ArchiveTidy
<1>3. ASSUME NEW k \in AuraKeys PROVE Shared(k) \notin gone
  <2>1. /\ Shared(k) \in Seq(parts) /\ Shared(k)[1] = "global"
    BY SharedFacts DEF NamesOf
  <2> DEFINE p == Tab!prefix(Tab!Session(i))
  <2>2. p \in Seq(parts) /\ Len(p) \in Nat /\ Len(p) # 0 /\ p[1] = "session"
    <3>1. s \in ScopesOf(parts) /\ i \in Seq(parts)
      BY ScopeFacts DEF NamesOf
    <3>2. Tab!Session(i) \in ScopesOf(parts)
      BY <3>1 DEF ScopesOf
    <3>3. Tab!Session(i).kind = "session" /\ Tab!Session(i).id = i
      BY DEF Tab!Session
    <3>4. p \in Seq(parts) /\ Len(p) = Len(i) + 1 /\ p[1] = "session"
      BY <3>2, <3>3, ScopeFacts DEF NamesOf
    <3>5. Len(i) \in Nat
      BY <3>1, LenProperties
    <3> QED BY <3>4, <3>5
  <2> HIDE DEF p
  <2>3. ~ Tab!starts_with(Shared(k), p)
    <3> DEFINE t == SubSeq(Shared(k), 1, Len(p))
    <3>1. Len(Shared(k)) > Len(p) => t[1] = "global"
      BY <2>1, <2>2
    <3> QED BY <2>2, <3>1 DEF Tab!starts_with
  <2> QED BY <2>3 DEF Tab!InSession, p
<1> HIDE DEF gone
<1> QED BY <1>1, <1>2, <1>3 DEF AuraInv, Tidy

LEMMA AuraNext ==
    ASSUME NEW parts, NamesOf(parts), AuraInv(parts), [Aura!Next]_(Aura!vars)
    PROVE  AuraInv(parts)'
<1>1. ASSUME UNCHANGED <<aura, local, last, behind>> PROVE AuraInv(parts)'
  BY <1>1 DEF AuraInv, Tidy
<1>2. CASE UNCHANGED Aura!vars
  BY <1>1, <1>2 DEF Aura!vars
<1>3. CASE Aura!Flip
  BY <1>1, <1>3 DEF Aura!Flip
<1>4. ASSUME NEW k \in AuraKeys, NEW v \in AuraValues, NEW s \in AuraScopes, Aura!aura_store(s, k, v)
      PROVE  AuraInv(parts)'
  BY <1>4, AuraStoreInv DEF NamesOf
<1> QED BY <1>2, <1>3, <1>4, StoreKvInv, RemoveInv, AuraArchivedInv DEF Aura!Next

LEMMA AuraFresh ==
    ASSUME NEW parts, NamesOf(parts), AuraInv(parts)
    PROVE  Aura!Fresh
<1> SUFFICES ASSUME NEW k \in AuraKeys, last[k] # None, k \notin behind,
                    Tab!Candidates(local, "agent", k) = {}, Tab!Candidates(local, "session", k) = {},
                    NEW works \in BOOLEAN
             PROVE  \/ Aura!aura_query(k, works) = {last[k]}
                    \/ /\ Aura!aura_available /\ works /\ trim[from_utf8_lossy[last[k]]] # ""
                       /\ Aura!aura_query(k, works) = {trim[from_utf8_lossy[last[k]]]}
  BY AuraOps DEF Aura!Fresh
<1>1. /\ Shared(k) \in DOMAIN local.entries /\ local.entries[Shared(k)].value = last[k]
      /\ Shared(k) \in DOMAIN aura => aura[Shared(k)] = from_utf8_lossy[last[k]]
  BY DEF AuraInv
<1>2. Tab!query(local, k) = {local.entries[Shared(k)]}
  BY <1>1 DEF Tab!query, Shared
<1>3. Aura!Fallback(k) = {last[k]}
  BY <1>1, <1>2, AuraCalls DEF Aura!Fallback
<1> DEFINE shared == Aura!aura_memory_get(Shared(k), works)
           text == trim[from_utf8_lossy[last[k]]]
<1>4. shared = {} \/ (works /\ text # "" /\ shared = {text})
  <2> DEFINE printed == {trim[aura[j]] : j \in {Shared(k)} \cap DOMAIN aura}
  <2>1. shared = IF works THEN printed \ {""} ELSE {}
    BY DEF Aura!aura_memory_get
  <2>2. printed = {} \/ printed = {text}
    BY <1>1
  <2>3. CASE works = TRUE
    <3>1. shared = printed \ {""}
      BY <2>1, <2>3
    <3> HIDE DEF printed, shared, text
    <3> QED BY <2>2, <2>3, <3>1
  <2>4. CASE works = FALSE
    <3>1. shared = {}
      BY <2>1, <2>4
    <3> QED BY <3>1
  <2> QED BY <2>3, <2>4
<1>5. Aura!aura_query(k, works) = IF Aura!aura_available /\ shared # {} THEN shared ELSE Aura!Fallback(k)
  BY AuraOps DEF Aura!aura_query, Shared
<1> HIDE DEF shared, text
<1>6. CASE Aura!aura_available /\ shared # {}
  BY <1>4, <1>5, <1>6 DEF text
<1>7. CASE ~ (Aura!aura_available /\ shared # {})
  BY <1>3, <1>5, <1>7
<1> QED BY <1>6, <1>7

LEMMA AuraListed ==
    ASSUME NEW parts, NamesOf(parts), AuraInv(parts)
    PROVE  Aura!ListedFound
<1> SUFFICES ASSUME NEW works \in BOOLEAN, NEW entry \in Aura!list(works), trim[entry[2]] # ""
             PROVE  Aura!get_kv(entry[1], TRUE) # {}
  BY DEF Aura!ListedFound
<1>1. CASE Aura!aura_available
  <2>1. PICK k \in DOMAIN aura : entry = <<k, aura[k]>>
    BY <1>1 DEF Aura!list, Aura!aura_memory_ls
  <2>2. trim[aura[entry[1]]] \in Aura!aura_memory_get(entry[1], TRUE)
    BY <2>1 DEF Aura!aura_memory_get
  <2> QED BY <1>1, <2>2 DEF Aura!get_kv
<1>2. CASE ~ Aura!aura_available
  <2>1. PICK k \in DOMAIN local.entries :
            entry = <<local.entries[k].key, from_utf8_lossy[local.entries[k].value]>>
    BY <1>2 DEF Aura!list
  <2>2. Tab!query(local, local.entries[k].key) # {}
    BY QueryFinds DEF AuraInv, NamesOf
  <2>3. Aura!Fallback(entry[1]) # {}
    BY <2>1, <2>2, AuraCalls DEF Aura!Fallback
  <2> QED BY <1>2, <2>3 DEF Aura!get_kv
<1> QED BY <1>1, <1>2

--------------------------------------------------------------------------------
(* base64: what is encoded is decoded to the same, three bytes at a time, and the
   other way round, four characters at a time. *)

data == s1
text == s2
USE DEF data, text

AByte == 0 .. 255
AChar == 0 .. 64

Six == 0 .. 63

(* The bits of three bytes and of four characters. *)
First(a) == a \div 4
Second(a, b) == ((a % 4) * 16) + (b \div 16)
Third(b, d) == ((b % 16) * 4) + (d \div 64)
High(x, y) == ((x * 4) % 256) + (y \div 16)
Middle(y, z) == ((y * 16) % 256) + (z \div 4)
Low(z, v) == ((z * 64) % 256) + v

LEMMA EncodeBits ==
  ASSUME NEW a \in AByte, NEW b \in AByte, NEW d \in AByte
  PROVE  /\ First(a) \in Six /\ Second(a, b) \in Six /\ Third(b, d) \in Six /\ d % 64 \in Six
         /\ High(First(a), Second(a, b)) = a
         /\ Middle(Second(a, b), Third(b, d)) = b
         /\ Low(Third(b, d), d % 64) = d
<1>1. First(a) \in Six
  BY DEF First, AByte, Six
<1>2. Second(a, b) \in Six
  BY DEF Second, AByte, Six
<1>3. Third(b, d) \in Six
  BY DEF Third, AByte, Six
<1>4. d % 64 \in Six
  BY DEF AByte, Six
<1>5. High(First(a), Second(a, b)) = a
  BY DEF High, First, Second, AByte
<1>6. Middle(Second(a, b), Third(b, d)) = b
  BY DEF Middle, Second, Third, AByte
<1>7. Low(Third(b, d), d % 64) = d
  BY DEF Low, Third, AByte
<1> QED BY <1>1, <1>2, <1>3, <1>4, <1>5, <1>6, <1>7

LEMMA DecodeBits ==
  ASSUME NEW x \in Six, NEW y \in Six, NEW z \in Six, NEW v \in Six
  PROVE  /\ High(x, y) \in AByte /\ Middle(y, z) \in AByte /\ Low(z, v) \in AByte
         /\ First(High(x, y)) = x
         /\ Second(High(x, y), Middle(y, z)) = y
         /\ Third(Middle(y, z), Low(z, v)) = z
         /\ Low(z, v) % 64 = v
<1>1. High(x, y) \in AByte
  BY DEF High, AByte, Six
<1>2. Middle(y, z) \in AByte
  BY DEF Middle, AByte, Six
<1>3. Low(z, v) \in AByte
  BY DEF Low, AByte, Six
<1>4. First(High(x, y)) = x
  BY DEF High, First, Six
<1>5. Second(High(x, y), Middle(y, z)) = y
  BY DEF High, Middle, Second, Six
<1>6. Third(Middle(y, z), Low(z, v)) = z
  BY DEF Low, Middle, Third, Six
<1>7. Low(z, v) % 64 = v
  BY DEF Low, Six
<1> QED BY <1>1, <1>2, <1>3, <1>4, <1>5, <1>6, <1>7

(* A group of characters without anything but base64 in it; Pad may stand anywhere. *)
Decoded(p, q, r, s) ==
    LET h == High(p % 64, q % 64)
        m == Middle(q % 64, r % 64)
        l == Low(r % 64, s % 64)
    IN  IF r = 64 THEN IF s = 64 THEN <<h>> ELSE <<h, l>>
        ELSE IF s = 64 THEN <<h, m>> ELSE <<h, m, l>>

LEMMA DecodeFour ==
  ASSUME NEW p \in AChar, NEW q \in AChar, NEW r \in AChar, NEW s \in AChar
  PROVE  /\ Base!DecodeChunk(<<p, q, r, s>>) = Decoded(p, q, r, s)
         /\ High(p % 64, q % 64) \in AByte /\ Middle(q % 64, r % 64) \in AByte
         /\ Low(r % 64, s % 64) \in AByte
<1> DEFINE h == High(p % 64, q % 64)
           m == Middle(q % 64, r % 64)
           l == Low(r % 64, s % 64)
<1>1. Base!DecodeChunk(<<p, q, r, s>>) = <<h>> \o (IF r = 64 THEN <<>> ELSE <<m>>)
                                         \o (IF s = 64 THEN <<>> ELSE <<l>>)
  BY DEF Base!DecodeChunk, Base!val, Base!Pad, High, Middle, Low
<1>2. h \in AByte /\ m \in AByte /\ l \in AByte
  <2>1. \A x \in AChar : x % 64 \in Six
    BY DEF AChar, Six
  <2> QED BY <2>1, DecodeBits
<1> HIDE DEF h, m, l
<1>3. <<h>> \o <<>> = <<h>> /\ <<h>> \o <<m>> = <<h, m>> /\ <<h>> \o <<l>> = <<h, l>>
      /\ <<h, m>> \o <<>> = <<h, m>> /\ <<h, m>> \o <<l>> = <<h, m, l>>
  BY <1>2, ConcatOne, ConcatTwo
<1>4. Base!DecodeChunk(<<p, q, r, s>>) =
         IF r = 64 THEN IF s = 64 THEN <<h>> ELSE <<h, l>>
         ELSE IF s = 64 THEN <<h, m>> ELSE <<h, m, l>>
  <2>1. CASE r = 64
    BY <1>1, <1>3, <2>1
  <2>2. CASE r # 64
    BY <1>1, <1>3, <2>2
  <2> QED BY <2>1, <2>2
<1> QED BY <1>2, <1>4 DEF Decoded, h, m, l

LEMMA SixMod == \A x \in Six : x % 64 = x /\ x # 64 /\ x \in AChar
BY DEF Six, AChar

LEMMA EncodeOne ==
  ASSUME NEW a \in AByte
  PROVE  Base!EncodeChunk(<<a>>) = <<First(a), Second(a, 0), 64, 64>>
BY DEF Base!EncodeChunk, Base!Byte, Base!Pad, First, Second

LEMMA EncodeTwo ==
  ASSUME NEW a \in AByte, NEW b \in AByte
  PROVE  Base!EncodeChunk(<<a, b>>) = <<First(a), Second(a, b), Third(b, 0), 64>>
BY DEF Base!EncodeChunk, Base!Byte, Base!Pad, First, Second, Third

LEMMA EncodeThree ==
  ASSUME NEW a \in AByte, NEW b \in AByte, NEW d \in AByte
  PROVE  Base!EncodeChunk(<<a, b, d>>) = <<First(a), Second(a, b), Third(b, d), d % 64>>
BY DEF Base!EncodeChunk, Base!Byte, Base!Pad, First, Second, Third

(* Up to three bytes are encoded as four characters, which are decoded to them. *)
LEMMA EncodedChunk ==
  ASSUME NEW c \in Seq(AByte), Len(c) \in 1 .. 3
  PROVE  /\ Base!EncodeChunk(c) \in Seq(AChar) /\ Len(Base!EncodeChunk(c)) = 4
         /\ Base!DecodeChunk(Base!EncodeChunk(c)) = c
<1>1. 0 \in AByte /\ 64 \in AChar /\ 64 % 64 = 0
  BY DEF AByte, AChar
<1>2. CASE Len(c) = 1
  <2>1. PICK a \in AByte : c = <<a>>
    BY <1>2
  <2> DEFINE p == First(a)
             q == Second(a, 0)
  <2>2. p \in Six /\ q \in Six /\ High(p, q) = a
    BY <1>1, EncodeBits
  <2>3. Base!EncodeChunk(c) = <<p, q, 64, 64>>
    BY <2>1, EncodeOne
  <2> HIDE DEF p, q
  <2>4. Base!DecodeChunk(<<p, q, 64, 64>>) = <<a>>
    <3>1. p \in AChar /\ p % 64 = p /\ p # 64 /\ q \in AChar /\ q % 64 = q /\ q # 64
      BY <2>2, SixMod
    <3>2. Base!DecodeChunk(<<p, q, 64, 64>>) = Decoded(p, q, 64, 64)
      BY <1>1, <3>1, DecodeFour
    <3> QED BY <2>2, <3>1, <3>2 DEF Decoded
  <2>5. <<p, q, 64, 64>> \in Seq(AChar) /\ Len(<<p, q, 64, 64>>) = 4
    BY <1>1, <2>2, SixMod
  <2> QED BY <2>1, <2>3, <2>4, <2>5
<1>3. CASE Len(c) = 2
  <2>1. PICK a \in AByte, b \in AByte : c = <<a, b>>
    BY <1>3
  <2> DEFINE p == First(a)
             q == Second(a, b)
             r == Third(b, 0)
  <2>2. p \in Six /\ q \in Six /\ r \in Six /\ High(p, q) = a /\ Middle(q, r) = b
    BY <1>1, EncodeBits
  <2>3. Base!EncodeChunk(c) = <<p, q, r, 64>>
    BY <2>1, EncodeTwo
  <2> HIDE DEF p, q, r
  <2>4. Base!DecodeChunk(<<p, q, r, 64>>) = <<a, b>>
    <3>1. p \in AChar /\ p % 64 = p /\ p # 64 /\ q \in AChar /\ q % 64 = q /\ q # 64 /\ r \in AChar /\ r % 64 = r /\ r # 64
      BY <2>2, SixMod
    <3>2. Base!DecodeChunk(<<p, q, r, 64>>) = Decoded(p, q, r, 64)
      BY <1>1, <3>1, DecodeFour
    <3> QED BY <2>2, <3>1, <3>2 DEF Decoded
  <2>5. <<p, q, r, 64>> \in Seq(AChar) /\ Len(<<p, q, r, 64>>) = 4
    BY <1>1, <2>2, SixMod
  <2> QED BY <2>1, <2>3, <2>4, <2>5
<1>4. CASE Len(c) = 3
  <2>1. PICK a \in AByte, b \in AByte, d \in AByte : c = <<a, b, d>>
    BY <1>4
  <2> DEFINE p == First(a)
             q == Second(a, b)
             r == Third(b, d)
             s == d % 64
  <2>2. /\ p \in Six /\ q \in Six /\ r \in Six /\ s \in Six
        /\ High(p, q) = a /\ Middle(q, r) = b /\ Low(r, s) = d
    BY EncodeBits
  <2>3. Base!EncodeChunk(c) = <<p, q, r, s>>
    BY <2>1, EncodeThree
  <2> HIDE DEF p, q, r, s
  <2>4. Base!DecodeChunk(<<p, q, r, s>>) = <<a, b, d>>
    <3>1. p \in AChar /\ p % 64 = p /\ p # 64 /\ q \in AChar /\ q % 64 = q /\ q # 64 /\ r \in AChar /\ r % 64 = r /\ r # 64 /\ s \in AChar /\ s % 64 = s /\ s # 64
      BY <2>2, SixMod
    <3>2. Base!DecodeChunk(<<p, q, r, s>>) = Decoded(p, q, r, s)
      BY <3>1, DecodeFour
    <3> QED BY <2>2, <3>1, <3>2 DEF Decoded
  <2>5. <<p, q, r, s>> \in Seq(AChar) /\ Len(<<p, q, r, s>>) = 4
    BY <1>1, <2>2, SixMod
  <2> QED BY <2>1, <2>3, <2>4, <2>5
<1> QED BY <1>2, <1>3, <1>4

(* Four characters are decoded to as many bytes as the padding of the last two
   says, and three bytes are encoded to them again. *)
LEMMA DecodedChunk ==
  ASSUME NEW c \in Seq(AChar), Len(c) = 4
  PROVE  /\ Base!DecodeChunk(c) \in Seq(AByte)
         /\ Len(Base!DecodeChunk(c)) = 3 - (IF c[3] = 64 THEN 1 ELSE 0) - (IF c[4] = 64 THEN 1 ELSE 0)
         /\ (\A i \in 1 .. 4 : c[i] # 64) => Base!EncodeChunk(Base!DecodeChunk(c)) = c
<1>1. PICK p \in AChar, q \in AChar, r \in AChar, s \in AChar : c = <<p, q, r, s>>
  BY FourOf
<1> DEFINE x == p % 64
           y == q % 64
           z == r % 64
           v == s % 64
<1>2. x \in Six /\ y \in Six /\ z \in Six /\ v \in Six
  BY DEF AChar, Six
<1> DEFINE h == High(x, y)
           m == Middle(y, z)
           l == Low(z, v)
<1>3. /\ h \in AByte /\ m \in AByte /\ l \in AByte
      /\ Base!DecodeChunk(c) =
            IF r = 64 THEN IF s = 64 THEN <<h>> ELSE <<h, l>>
            ELSE IF s = 64 THEN <<h, m>> ELSE <<h, m, l>>
  BY <1>1, DecodeFour DEF Decoded
<1>4. (p # 64 => x = p) /\ (q # 64 => y = q) /\ (r # 64 => z = r) /\ (s # 64 => v = s)
  BY DEF AChar
<1> HIDE DEF x, y, z, v
<1>5. First(h) = x /\ Second(h, m) = y /\ Third(m, l) = z /\ l % 64 = v
  BY <1>2, DecodeBits
<1> HIDE DEF h, m, l
<1>6. c[1] = p /\ c[2] = q /\ c[3] = r /\ c[4] = s
  BY <1>1
<1>7. ASSUME \A i \in 1 .. 4 : c[i] # 64 PROVE Base!EncodeChunk(Base!DecodeChunk(c)) = c
  <2>1. p # 64 /\ q # 64 /\ r # 64 /\ s # 64
    BY <1>6, <1>7
  <2>2. Base!DecodeChunk(c) = <<h, m, l>>
    BY <1>3, <2>1
  <2>3. Base!EncodeChunk(<<h, m, l>>) = <<First(h), Second(h, m), Third(m, l), l % 64>>
    BY <1>3, EncodeThree
  <2> QED BY <1>1, <1>4, <1>5, <2>1, <2>2, <2>3
<1>8. /\ Base!DecodeChunk(c) \in Seq(AByte)
      /\ Len(Base!DecodeChunk(c)) = 3 - (IF r = 64 THEN 1 ELSE 0) - (IF s = 64 THEN 1 ELSE 0)
  <2>1. CASE r = 64 /\ s = 64
    BY <1>3, <2>1
  <2>2. CASE r = 64 /\ s # 64
    BY <1>3, <2>2
  <2>3. CASE r # 64 /\ s = 64
    BY <1>3, <2>3
  <2>4. CASE r # 64 /\ s # 64
    BY <1>3, <2>4
  <2> QED BY <2>1, <2>2, <2>3, <2>4
<1> QED BY <1>6, <1>7, <1>8

(* What Codec calls by the same names. *)
LEMMA CodecSame ==
  /\ \A s : Base!Joined(s) = Joined(s)
  /\ \A s, n : Base!Chunks(s, n) = Chunks(s, n)
  /\ \A S : Base!Cardinality(S) = Cardinality(S)
<1>1. \A s : Base!Joined(s) = Joined(s)
  BY DEF Base!Joined, Joined
<1>2. \A s, n : Base!Chunks(s, n) = Chunks(s, n)
  BY DEF Base!Chunks, Chunks
<1>3. \A S : Base!Cardinality(S) = Cardinality(S)
  BY Zenon DEF Base!Cardinality, Cardinality
<1> QED BY <1>1, <1>2, <1>3

(* The groups of a text, and the chunks they are decoded to. *)
Encoded(s) == [i \in DOMAIN Chunks(s, 3) |-> Base!EncodeChunk(Chunks(s, 3)[i])]
DecodedParts(s) == [i \in DOMAIN Chunks(s, 4) |-> Base!DecodeChunk(Chunks(s, 4)[i])]

LEMMA EncodeIs == \A s : Base!base64_encode(s) = Joined(Encoded(s))
BY CodecSame DEF Base!base64_encode, Encoded

LEMMA DecodeIs ==
  ASSUME NEW s \in Seq(AChar), Len(s) % 4 = 0
  PROVE  Base!base64_decode(s) = Joined(DecodedParts(s))
<1>1. ASSUME NEW i \in DOMAIN s PROVE s[i] # 65
  <2>1. s[i] \in AChar
    BY LenProperties
  <2>2. \A x \in AChar : x # 65
    BY DEF AChar
  <2> QED BY <2>1, <2>2
<1> QED BY <1>1, CodecSame DEF Base!base64_decode, DecodedParts, Base!Other

(* Every value comes back from its encoding. *)
LEMMA EncodeDecode ==
  ASSUME NEW s \in Seq(AByte)
  PROVE  /\ Base!base64_decode(Base!base64_encode(s)) = s
         /\ Len(Base!base64_encode(s)) % 4 = 0
<1> DEFINE C == Chunks(s, 3)
           E == Encoded(s)
           n == Len(C)
<1>1. 3 \in Widths /\ 4 \in Widths
  BY DEF Widths
<1>2. C \in Seq(Seq(AByte)) /\ n \in Nat /\ DOMAIN C = 1 .. n /\ \A i \in 1 .. n : Len(C[i]) \in 1 .. 3
  <2>1. C \in Seq(Seq(AByte)) /\ IsCut(C, s, 3)
    BY <1>1, ChunksType
  <2> HIDE DEF C
  <2> QED BY <2>1, LenProperties DEF IsCut
<1>3. \A i \in 1 .. n : E[i] = Base!EncodeChunk(C[i])
  BY <1>2 DEF Encoded
<1>4. DOMAIN E = 1 .. n /\ E = [i \in 1 .. n |-> E[i]]
  BY <1>2 DEF Encoded
<1> HIDE DEF C, E, n
<1>5. ASSUME NEW i \in 1 .. n
      PROVE E[i] \in Seq(AChar) /\ Len(E[i]) = 4 /\ Base!DecodeChunk(E[i]) = C[i]
  <2>1. C[i] \in Seq(AByte) /\ Len(C[i]) \in 1 .. 3
    BY <1>2 DEF n
  <2> QED BY <1>3, <2>1, EncodedChunk
<1>6. E \in Seq(Seq(AChar)) /\ Len(E) = n
  <2>1. E \in [1 .. n -> Seq(AChar)]
    BY <1>4, <1>5
  <2> QED BY <1>2, <2>1, LenProperties
<1>7. /\ Chunks(Joined(E), 4) = E /\ Len(Joined(E)) = 4 * n
      /\ Joined(E) \in Seq(AChar)
  BY <1>1, <1>5, <1>6, ChunksJoined, JoinedType
<1>8. Base!base64_encode(s) = Joined(E)
  BY EncodeIs DEF E
<1>9. Len(Joined(E)) % 4 = 0
  BY <1>2, <1>7
<1>10. DecodedParts(Joined(E)) = C
  <2>1. DecodedParts(Joined(E)) = [i \in 1 .. n |-> Base!DecodeChunk(E[i])]
    BY <1>4, <1>7 DEF DecodedParts
  <2>2. C = [i \in 1 .. n |-> C[i]]
    BY <1>2 DEF n
  <2> QED BY <1>5, <2>1, <2>2
<1>11. Base!base64_decode(Joined(E)) = s
  <2>1. Base!base64_decode(Joined(E)) = Joined(C)
    BY <1>7, <1>9, <1>10, DecodeIs
  <2> QED BY <1>1, <2>1, JoinedChunks DEF C
<1> QED BY <1>8, <1>9, <1>11

(* The places before 4 * k where padding is looked for and found. *)
PadsIn(s, k) == {i \in 1 .. 4 * k : s[i] = 64 /\ i % 4 \in {0, 3}}

LEMMA PadsGrow ==
  ASSUME NEW s, NEW k \in Nat
  PROVE  LET a == 4 * k + 3
             b == 4 * k + 4
         IN  /\ PadsIn(s, k + 1) = PadsIn(s, k) \cup (IF s[a] = 64 THEN {a} ELSE {})
                                   \cup (IF s[b] = 64 THEN {b} ELSE {})
             /\ a \notin PadsIn(s, k) /\ b \notin PadsIn(s, k) /\ a # b
<1> DEFINE a == 4 * k + 3
           b == 4 * k + 4
<1>1. \A i \in Int : i \in 1 .. 4 * (k + 1) /\ i % 4 \in {0, 3}
                      <=> (i \in 1 .. 4 * k /\ i % 4 \in {0, 3}) \/ i = a \/ i = b
  OBVIOUS
<1>2. a \in Int /\ b \in Int /\ a \notin 1 .. 4 * k /\ b \notin 1 .. 4 * k /\ a # b
  OBVIOUS
<1>3. \A i \in 1 .. 4 * k : i \in Int
  OBVIOUS
<1>4. \A i \in 1 .. 4 * (k + 1) : i \in Int
  OBVIOUS
<1> HIDE DEF a, b
<1>5. PadsIn(s, k + 1) = PadsIn(s, k) \cup (IF s[a] = 64 THEN {a} ELSE {})
                         \cup (IF s[b] = 64 THEN {b} ELSE {})
  BY <1>1, <1>2, <1>3, <1>4 DEF PadsIn
<1>6. a \notin PadsIn(s, k) /\ b \notin PadsIn(s, k)
  BY <1>2 DEF PadsIn
<1> QED BY <1>2, <1>5, <1>6 DEF a, b

LEMMA AddOne ==
  ASSUME NEW S, IsFiniteSet(S), NEW x, x \notin S, NEW c, c \in BOOLEAN
  PROVE  LET U == S \cup (IF c THEN {x} ELSE {})
         IN  IsFiniteSet(U) /\ Cardinality(U) = Cardinality(S) + (IF c THEN 1 ELSE 0)
<1>1. Cardinality(S) \in Nat
  BY FS_CardinalityType
<1>2. CASE c
  BY <1>1, <1>2, FS_AddElement
<1>3. CASE ~c
  <2>1. S \cup {} = S
    OBVIOUS
  <2> QED BY <1>1, <1>3, <2>1
<1> QED BY <1>2, <1>3

(* Any text of whole groups is decoded to as many bytes as its padding says, and
   one without padding is what they are encoded to. *)
LEMMA DecodeEncode ==
  ASSUME NEW s \in Seq(AChar), Len(s) % 4 = 0
  PROVE  LET bytes == Base!base64_decode(s)
         IN  /\ bytes \in Seq(AByte)
             /\ Len(bytes) = 3 * (Len(s) \div 4)
                             - Cardinality({i \in DOMAIN s : s[i] = 64 /\ i % 4 \in {0, 3}})
             /\ (\A i \in DOMAIN s : s[i] # 64) => Base!base64_encode(bytes) = s
<1> DEFINE C == Chunks(s, 4)
           E == DecodedParts(s)
           n == Len(C)
<1>1. 3 \in Widths /\ 4 \in Widths
  BY DEF Widths
<1>2. Len(s) \in Nat /\ n = (Len(s) + 4 - 1) \div 4 /\ n \in Nat /\ Len(s) = 4 * n
      /\ DOMAIN s = 1 .. Len(s)
  <2>1. Len(s) \in Nat /\ DOMAIN s = 1 .. Len(s)
    BY LenProperties
  <2>2. n = (Len(s) + 4 - 1) \div 4
    BY <1>1, ChunksType
  <2> DEFINE l == Len(s)
  <2>3. l \in Nat /\ n = (l + 3) \div 4 /\ l % 4 = 0
    <3>1. Len(s) + 4 - 1 = Len(s) + 3
      BY <2>1
    <3> QED BY <2>1, <2>2, <3>1
  <2> HIDE DEF n, l
  <2>4. n \in Nat /\ l = 4 * n
    BY <2>3
  <2> QED BY <2>1, <2>2, <2>4 DEF l
<1>3. /\ C \in Seq(Seq(AChar)) /\ DOMAIN C = 1 .. n
      /\ \A i \in 1 .. n : Len(C[i]) = (IF 4 * i < Len(s) THEN 4 * i ELSE Len(s)) - 4 * (i - 1)
                           /\ \A j \in 1 .. Len(C[i]) : C[i][j] = s[4 * (i - 1) + j]
  <2>1. C \in Seq(Seq(AChar)) /\ IsCut(C, s, 4)
    BY <1>1, ChunksType
  <2> HIDE DEF C
  <2> QED BY <2>1, LenProperties DEF IsCut, n
<1>4. \A i \in 1 .. n : E[i] = Base!DecodeChunk(C[i])
  BY <1>3 DEF DecodedParts
<1>5. DOMAIN E = 1 .. n /\ E = [i \in 1 .. n |-> E[i]]
  BY <1>3 DEF DecodedParts
<1> HIDE DEF C, E, n
<1>6. ASSUME NEW i \in 1 .. n
      PROVE  /\ C[i] \in Seq(AChar) /\ Len(C[i]) = 4
             /\ \A j \in 1 .. 4 : C[i][j] = s[4 * (i - 1) + j]
             /\ E[i] \in Seq(AByte)
             /\ Len(E[i]) = 3 - (IF s[4 * (i - 1) + 3] = 64 THEN 1 ELSE 0)
                              - (IF s[4 * (i - 1) + 4] = 64 THEN 1 ELSE 0)
             /\ (\A j \in 1 .. 4 : C[i][j] # 64) => Base!EncodeChunk(E[i]) = C[i]
  <2>1. C[i] \in Seq(AChar)
    BY <1>3 DEF n
  <2>2. Len(C[i]) = 4
    <3>1. (IF 4 * i < Len(s) THEN 4 * i ELSE Len(s)) - 4 * (i - 1) = 4
      BY <1>2
    <3> QED BY <1>3, <3>1
  <2>3. \A j \in 1 .. 4 : C[i][j] = s[4 * (i - 1) + j]
    BY <1>3, <2>2
  <2>4. C[i][3] = s[4 * (i - 1) + 3] /\ C[i][4] = s[4 * (i - 1) + 4]
    BY <2>3
  <2>5. /\ E[i] \in Seq(AByte)
        /\ Len(E[i]) = 3 - (IF C[i][3] = 64 THEN 1 ELSE 0) - (IF C[i][4] = 64 THEN 1 ELSE 0)
        /\ (\A j \in 1 .. 4 : C[i][j] # 64) => Base!EncodeChunk(E[i]) = C[i]
    <3> DEFINE c == C[i]
    <3>1. c \in Seq(AChar) /\ Len(c) = 4 /\ E[i] = Base!DecodeChunk(c)
      BY <1>4, <2>1, <2>2
    <3> HIDE DEF c
    <3>2. /\ Base!DecodeChunk(c) \in Seq(AByte)
          /\ Len(Base!DecodeChunk(c)) =
                3 - (IF c[3] = 64 THEN 1 ELSE 0) - (IF c[4] = 64 THEN 1 ELSE 0)
          /\ (\A j \in 1 .. 4 : c[j] # 64) => Base!EncodeChunk(Base!DecodeChunk(c)) = c
      BY <3>1, DecodedChunk
    <3> QED BY <3>1, <3>2 DEF c
  <2> QED BY <2>1, <2>2, <2>3, <2>4, <2>5
<1>7. E \in Seq(Seq(AByte)) /\ Len(E) = n
  <2>1. E \in [1 .. n -> Seq(AByte)]
    BY <1>5, <1>6
  <2> QED BY <1>2, <2>1, LenProperties
<1> DEFINE t == Joined(E)
<1>8. Base!base64_decode(s) = t
  BY DecodeIs DEF E
<1>9. t \in Seq(AByte)
  BY <1>7, JoinedType
<1>10. Len(t) = 3 * n - Cardinality(PadsIn(s, n))
  <2>1. PICK f \in [0 .. n -> Seq(AByte)] : Joins(f, E) /\ t = f[n]
    BY <1>7, JoiningType
  <2>2. f[0] = <<>> /\ \A i \in 1 .. n : f[i] = f[i - 1] \o E[i]
    BY <1>7, <2>1 DEF Joins
  <2> HIDE DEF t
  <2> DEFINE PadsCounted(k) == /\ IsFiniteSet(PadsIn(s, k))
                           /\ Len(f[k]) = 3 * k - Cardinality(PadsIn(s, k))
             D == {k \in Nat : k <= n => PadsCounted(k)}
  <2>3. 0 \in D
    <3>1. PadsIn(s, 0) = {}
      BY DEF PadsIn
    <3>2. Len(f[0]) = 0
      BY <2>2
    <3>3. IsFiniteSet({}) /\ Cardinality({}) = 0
      BY FS_EmptySet
    <3>4. 0 = 3 * 0 - 0
      OBVIOUS
    <3>5. PadsCounted(0)
      BY <3>1, <3>2, <3>3, <3>4
    <3> HIDE DEF PadsCounted
    <3> QED BY <3>5
  <2>4. ASSUME NEW k \in Nat, k \in D PROVE k + 1 \in D
    <3> SUFFICES ASSUME k + 1 <= n PROVE PadsCounted(k + 1)
      OBVIOUS
    <3> DEFINE a == 4 * k + 3
               b == 4 * k + 4
               P == PadsIn(s, k)
               Q == P \cup (IF s[a] = 64 THEN {a} ELSE {})
               R == Q \cup (IF s[b] = 64 THEN {b} ELSE {})
    <3>1. /\ k + 1 \in 1 .. n /\ (k + 1) - 1 = k /\ k \in 0 .. n
          /\ 4 * ((k + 1) - 1) + 3 = a /\ 4 * ((k + 1) - 1) + 4 = b
      BY <1>2
    <3>2. PadsIn(s, k + 1) = R /\ a \notin P /\ b \notin P /\ a # b
      BY PadsGrow
    <3>3. IsFiniteSet(P) /\ Len(f[k]) = 3 * k - Cardinality(P)
      BY <2>4, <3>1
    <3>4. f[k + 1] = f[k] \o E[k + 1] /\ f[k] \in Seq(AByte) /\ E[k + 1] \in Seq(AByte)
      BY <1>6, <2>1, <2>2, <3>1
    <3>5. Len(E[k + 1]) = 3 - (IF s[a] = 64 THEN 1 ELSE 0) - (IF s[b] = 64 THEN 1 ELSE 0)
      <4>1. Len(E[k + 1]) = 3 - (IF s[4 * ((k + 1) - 1) + 3] = 64 THEN 1 ELSE 0)
                              - (IF s[4 * ((k + 1) - 1) + 4] = 64 THEN 1 ELSE 0)
        BY <1>6, <3>1, Zenon
      <4> HIDE DEF a, b
      <4> QED BY <3>1, <4>1
    <3> HIDE DEF a, b, P
    <3>6. IsFiniteSet(Q) /\ Cardinality(Q) = Cardinality(P) + (IF s[a] = 64 THEN 1 ELSE 0)
      <4> DEFINE c == s[a] = 64
      <4>1. c \in BOOLEAN
        OBVIOUS
      <4> HIDE DEF c
      <4>2. LET U == P \cup (IF c THEN {a} ELSE {})
            IN  IsFiniteSet(U) /\ Cardinality(U) = Cardinality(P) + (IF c THEN 1 ELSE 0)
        BY <3>2, <3>3, <4>1, AddOne
      <4> QED BY <4>2 DEF c
    <3>7. b \notin Q
      BY <3>2
    <3> HIDE DEF Q
    <3>8. IsFiniteSet(R) /\ Cardinality(R) = Cardinality(Q) + (IF s[b] = 64 THEN 1 ELSE 0)
      <4> DEFINE c == s[b] = 64
      <4>1. c \in BOOLEAN
        OBVIOUS
      <4> HIDE DEF c
      <4>2. LET U == Q \cup (IF c THEN {b} ELSE {})
            IN  IsFiniteSet(U) /\ Cardinality(U) = Cardinality(Q) + (IF c THEN 1 ELSE 0)
        BY <3>6, <3>7, <4>1, AddOne
      <4> QED BY <4>2 DEF c
    <3> HIDE DEF R
    <3>9. Cardinality(P) \in Nat
      BY <3>3, FS_CardinalityType
    <3>10. Len(f[k + 1]) = Len(f[k]) + Len(E[k + 1])
      BY <3>4, ConcatProperties
    <3>11. Len(f[k + 1]) = 3 * (k + 1) - Cardinality(R)
      <4> DEFINE i == IF s[a] = 64 THEN 1 ELSE 0
                 j == IF s[b] = 64 THEN 1 ELSE 0
                 p == Cardinality(P)
      <4>1. i \in Int /\ j \in Int /\ p \in Int
        BY <3>9
      <4>2. Len(f[k]) = 3 * k - p /\ Len(E[k + 1]) = 3 - i - j
        BY <3>3, <3>5
      <4>3. Cardinality(R) = p + i + j
        BY <3>6, <3>8
      <4> HIDE DEF i, j, p
      <4> QED BY <3>10, <4>1, <4>2, <4>3
    <3> QED BY <3>2, <3>8, <3>11
  <2> HIDE DEF D
  <2>5. Nat \subseteq D
    BY <2>3, <2>4, SetInduction
  <2>6. PadsCounted(n)
    <3>1. n <= n
      BY <1>2
    <3> HIDE DEF PadsCounted
    <3> QED BY <1>2, <2>5, <3>1 DEF D
  <2> QED BY <2>1, <2>6
<1>11. /\ Len(s) \div 4 = n
       /\ PadsIn(s, n) = {i \in DOMAIN s : s[i] = 64 /\ i % 4 \in {0, 3}}
  BY <1>2 DEF PadsIn
<1>12. ASSUME \A i \in DOMAIN s : s[i] # 64 PROVE Base!base64_encode(t) = s
  <2>1. ASSUME NEW i \in 1 .. n PROVE Len(E[i]) = 3 /\ Base!EncodeChunk(E[i]) = C[i]
    <3>1. \A j \in 1 .. 4 : 4 * (i - 1) + j \in DOMAIN s
      BY <1>2
    <3>2. \A j \in 1 .. 4 : s[4 * (i - 1) + j] # 64
      BY <1>12, <3>1
    <3>3. s[4 * (i - 1) + 3] # 64 /\ s[4 * (i - 1) + 4] # 64
      BY <3>2
    <3>6. /\ \A j \in 1 .. 4 : C[i][j] = s[4 * (i - 1) + j]
          /\ (\A j \in 1 .. 4 : C[i][j] # 64) => Base!EncodeChunk(E[i]) = C[i]
      BY <1>6
    <3>4. \A j \in 1 .. 4 : C[i][j] # 64
      BY <3>2, <3>6
    <3>5. Len(E[i]) = 3 - 0 - 0
      BY <1>6, <3>3
    <3> QED BY <3>4, <3>5, <3>6
  <2>2. Chunks(t, 3) = E
    BY <1>1, <1>7, <2>1, ChunksJoined
  <2>3. Encoded(t) = C
    <3>1. Encoded(t) = [i \in 1 .. n |-> Base!EncodeChunk(E[i])]
      BY <1>5, <2>2 DEF Encoded
    <3>2. C = [i \in 1 .. n |-> C[i]]
      BY <1>3
    <3> QED BY <2>1, <3>1, <3>2
  <2>4. Base!base64_encode(t) = Joined(C)
    BY <2>3, EncodeIs
  <2> QED BY <1>1, <2>4, JoinedChunks DEF C
<1> HIDE DEF t
<1> QED BY <1>8, <1>9, <1>10, <1>11, <1>12

(* The inputs are bytes and characters. *)
CodeValues == Bytes \subseteq AByte /\ Chars \subseteq 0 .. 65

CodecInv == data \in Seq(AByte) /\ text \in Seq(0 .. 65)

LEMMA CodecInit ==
    ASSUME Base!Init
    PROVE  CodecInv
BY EmptySeq DEF Base!Init, CodecInv

LEMMA CodecNext ==
    ASSUME CodeValues, CodecInv, [Base!Next]_(Base!vars)
    PROVE  CodecInv'
<1>1. \A b \in Bytes : Append(data, b) \in Seq(AByte)
  BY AppendProperties DEF CodecInv, CodeValues
<1>2. \A c \in Chars : Append(text, c) \in Seq(0 .. 65)
  BY AppendProperties DEF CodecInv, CodeValues
<1> QED BY <1>1, <1>2 DEF CodecInv, Base!Next, Base!vars

LEMMA CodecReturns ==
    ASSUME CodecInv
    PROVE  Base!RoundTrip
<1> DEFINE bytes == Base!base64_decode(text)
<1>1. ASSUME bytes # Base!Error PROVE text \in Seq(AChar) /\ Len(text) % 4 = 0
  <2>1. ~ (Len(text) % 4 # 0 \/ \E i \in DOMAIN text : text[i] = Base!Other)
    BY <1>1 DEF Base!base64_decode
  <2>2. ASSUME NEW i \in 1 .. Len(text) PROVE text[i] \in AChar
    <3>1. text[i] \in 0 .. 65
      BY LenProperties DEF CodecInv
    <3>2. text[i] # 65
      BY <2>1, LenProperties DEF CodecInv, Base!Other
    <3> QED BY <3>1, <3>2 DEF AChar
  <2>3. Len(text) \in Nat /\ text = [i \in 1 .. Len(text) |-> text[i]]
    BY LenProperties DEF CodecInv
  <2>4. text \in [1 .. Len(text) -> AChar]
    BY <2>2, <2>3
  <2> QED BY <2>1, <2>3, <2>4, LenProperties
<1>2. ASSUME bytes # Base!Error
      PROVE  /\ \A i \in DOMAIN bytes : bytes[i] \in 0 .. 255
             /\ Len(bytes) = 3 * (Len(text) \div 4)
                  - Base!Cardinality({i \in DOMAIN text : text[i] = Base!Pad /\ i % 4 \in {0, 3}})
             /\ (\A i \in DOMAIN text : text[i] # Base!Pad) => Base!base64_encode(bytes) = text
  <2>1. /\ bytes \in Seq(AByte)
        /\ Len(bytes) = 3 * (Len(text) \div 4)
                        - Cardinality({i \in DOMAIN text : text[i] = 64 /\ i % 4 \in {0, 3}})
        /\ (\A i \in DOMAIN text : text[i] # 64) => Base!base64_encode(bytes) = text
    BY <1>1, <1>2, DecodeEncode
  <2> HIDE DEF bytes
  <2>2. \A i \in 1 .. Len(bytes) : bytes[i] \in AByte
    BY <2>1, ElementOfSeq
  <2>3. \A i \in DOMAIN bytes : bytes[i] \in 0 .. 255
    <3>1. DOMAIN bytes = 1 .. Len(bytes)
      BY <2>1, LenProperties
    <3> QED BY <2>2, <3>1 DEF AByte
  <2> QED BY <2>1, <2>3, CodecSame DEF Base!Pad
<1>3. Base!base64_decode(Base!base64_encode(data)) = data /\ Len(Base!base64_encode(data)) % 4 = 0
  BY EncodeDecode DEF CodecInv
<1> HIDE DEF bytes
<1>4. LET b == bytes
      IN  b # Base!Error =>
             /\ \A i \in DOMAIN b : b[i] \in 0 .. 255
             /\ Len(b) = 3 * (Len(text) \div 4)
                  - Base!Cardinality({i \in DOMAIN text : text[i] = Base!Pad /\ i % 4 \in {0, 3}})
             /\ (\A i \in DOMAIN text : text[i] # Base!Pad) => Base!base64_encode(b) = text
  BY <1>2
<1> QED BY <1>3, <1>4 DEF Base!RoundTrip, bytes

(* For names and keys of any parts, any values, and whatever the commands of Aura
   do: a query answers from the nearest scope that has the key, what was stored is
   kept or is in the archive, all of an archived session is in it, and beside Aura
   the value that was stored last is the one that is answered.  And whatever the
   bytes are that are stored as base64, they are what comes back. *)
THEOREM MemoryCorrect ==
    ASSUME NEW CONSTANT parts, NamesOf(parts), CodeValues
    PROVE  ServicesSpec => []MemorySound
<1> DEFINE Inv == /\ part = "memory" => MemoryInv(parts)
                  /\ part = "aura" => AuraInv(parts)
                  /\ part = "codec" => CodecInv
<1>1. ServicesInit => Inv
  BY Begins, MemoryInit, AuraInit, CodecInit
<1>2. Inv /\ [ServicesNext]_states => Inv'
  BY Moves, MemoryNext, AuraNext, CodecNext
<1>3. Inv => MemorySound
  BY MemoryAnswers, MemoryKept, MemoryArchives, AuraFresh, AuraListed, CodecReturns DEF MemorySound
<1> QED BY <1>1, <1>2, <1>3, PTL DEF ServicesSpec

--------------------------------------------------------------------------------
(* The healer, on the engine it shares its tables with: what SavepointProofs proves. *)

Proved == INSTANCE SavepointProofs WITH
    Agents <- HealedAgents,
    work <- s1, hidden <- s2, dirs <- s3, store <- s4, rows <- s5, manifest <- s6,
    clock <- s7, op <- s8, result <- s9, writes <- s10, faults <- s11, quiet <- s12,
    truth <- s13, heal <- s14, healing_events <- s15, outcome <- s16, before <- s17

(* What Savepoint assumes of its constants. *)
EngineConstants ==
    /\ MaxWrites \in Nat /\ MaxFaults \in Nat /\ IsFiniteSet(Files)
    /\ None \notin Contents /\ None \notin Files /\ None \notin Snaps
    /\ None \notin HealedAgents
    /\ None \notin [Files -> Contents \cup {None}]
    /\ None \notin [agent : HealedAgents, timestamp : Nat, file_count : Nat]
    /\ Lossy \in [Files -> Files] /\ \A f \in Files : Lossy[Lossy[f]] = Lossy[f]

LEMMA EngineAssumptions ==
    ASSUME EngineConstants
    PROVE  /\ Proved!IsFiniteSet(Files) /\ MaxWrites \in Nat /\ MaxFaults \in Nat
           /\ None \notin Contents /\ None \notin Files /\ None \notin Snaps
           /\ None \notin HealedAgents
           /\ None \notin Proved!Image /\ None \notin Proved!Row
           /\ Lossy \in [Files -> Files] /\ \A f \in Files : Lossy[Lossy[f]] = Lossy[f]
           /\ \A S : Proved!Cardinality(S) = Heal!Cardinality(S)
<1>1. Proved!IsFiniteSet(Files)
  BY DEF EngineConstants, Proved!IsFiniteSet, IsFiniteSet
<1>2. \A S : Proved!Cardinality(S) = Heal!Cardinality(S)
  BY DEF Proved!Cardinality, Heal!Cardinality
<1> QED BY <1>1, <1>2 DEF EngineConstants, Proved!Image, Proved!Row

(* Both instances are of the same operators. *)
LEMMA SameShapes ==
    /\ Heal!Idle = Proved!Idle /\ Heal!NoHeal = Proved!NoHeal /\ Heal!Nothing = Proved!Nothing
    /\ \A img : Heal!Present(img) = Proved!Present(img)
    /\ \A p, pc : Heal!At(p, pc) <=> Proved!At(p, pc)
    /\ \A p, l : Heal!Begin(p, l) <=> Proved!Begin(p, l)
    /\ \A p, l : Heal!Continue(p, l) <=> Proved!Continue(p, l)
    /\ \A p, o : Heal!Return(p, o) <=> Proved!Return(p, o)
    /\ \A p : Heal!Disturb(p) <=> Proved!Disturb(p)
    /\ \A a : Heal!RowsOf(a) = Proved!RowsOf(a) /\ Heal!Latest(a) = Proved!Latest(a)
    /\ \A pc : Heal!HealAt(pc) <=> Proved!HealAt(pc)
    /\ \A F : Heal!LossyNames(F) = Proved!LossyNames(F)
    /\ Heal!Seen = Proved!Seen /\ Heal!Listed = Proved!Listed
<1>1. Heal!Idle = Proved!Idle /\ Heal!NoHeal = Proved!NoHeal /\ Heal!Nothing = Proved!Nothing
  BY DEF Heal!Idle, Proved!Idle, Heal!NoHeal, Proved!NoHeal, Heal!Nothing, Proved!Nothing
<1>2. \A img : Heal!Present(img) = Proved!Present(img)
  BY DEF Heal!Present, Proved!Present
<1>3. \A p, pc : Heal!At(p, pc) <=> Proved!At(p, pc)
  BY DEF Heal!At, Proved!At
<1>4. /\ \A p, l : Heal!Begin(p, l) <=> Proved!Begin(p, l)
      /\ \A p, l : Heal!Continue(p, l) <=> Proved!Continue(p, l)
  BY DEF Heal!Begin, Proved!Begin, Heal!Continue, Proved!Continue
<1>5. \A p, o : Heal!Return(p, o) <=> Proved!Return(p, o)
  BY <1>1 DEF Heal!Return, Proved!Return
<1>6. \A p : Heal!Disturb(p) <=> Proved!Disturb(p)
  BY DEF Heal!Disturb, Proved!Disturb
<1>7. \A a : Heal!RowsOf(a) = Proved!RowsOf(a) /\ Heal!Latest(a) = Proved!Latest(a)
  BY DEF Heal!RowsOf, Proved!RowsOf, Heal!Latest, Proved!Latest
<1>8. \A pc : Heal!HealAt(pc) <=> Proved!HealAt(pc)
  BY DEF Heal!HealAt, Proved!HealAt
<1>9. \A F : Heal!LossyNames(F) = Proved!LossyNames(F)
  BY DEF Heal!LossyNames, Proved!LossyNames
<1>10. Heal!Seen = Proved!Seen /\ Heal!Listed = Proved!Listed
  BY <1>2 DEF Heal!Seen, Proved!Seen, Heal!Listed, Proved!Listed
<1> QED BY <1>1, <1>2, <1>3, <1>4, <1>5, <1>6, <1>7, <1>8, <1>9, <1>10

LEMMA SameCreate ==
    ASSUME EngineConstants, NEW p, Heal!CreateStep(p)
    PROVE  Proved!CreateStep(p)
BY ZenonT(60), SameShapes, EngineAssumptions
   DEF Heal!CreateStep, Proved!CreateStep,
   Heal!HashFile, Proved!HashFile, Heal!HashMissing, Proved!HashMissing,
   Heal!CopyFile, Proved!CopyFile, Heal!CopyMissing, Proved!CopyMissing,
   Heal!InsertRow, Proved!InsertRow, Heal!InsertFile, Proved!InsertFile,
   Heal!CreateReturn, Proved!CreateReturn, Heal!disk, Proved!disk, Heal!history, Proved!history

LEMMA SameRollback ==
    ASSUME EngineConstants, NEW p, Heal!RollbackStep(p) \/ Heal!Start(p) \/ Heal!Fault(p)
    PROVE  Proved!RollbackStep(p) \/ Proved!Start(p) \/ Proved!Fault(p)
BY ZenonT(60), SameShapes, EngineAssumptions
   DEF Heal!RollbackStep, Proved!RollbackStep, Heal!Start, Proved!Start,
   Heal!CreateBegin, Proved!CreateBegin, Heal!RollbackLatest, Proved!RollbackLatest,
   Heal!Rollback, Proved!Rollback, Heal!NotFound, Proved!NotFound,
   Heal!BeginRollback, Proved!BeginRollback, Heal!LoadManifest, Proved!LoadManifest,
   Heal!RestoreFile, Proved!RestoreFile, Heal!PruneBegin, Proved!PruneBegin,
   Heal!PruneFile, Proved!PruneFile, Heal!PruneMissing, Proved!PruneMissing,
   Heal!RollbackReturn, Proved!RollbackReturn, Heal!Fault, Proved!Fault,
   Heal!disk, Proved!disk, Heal!history, Proved!history

LEMMA HealerSame ==
    ASSUME EngineConstants
    PROVE  /\ Heal!HealerInit => Proved!HealerInit
           /\ [Heal!HealerNext]_(Heal!allVars) => [Proved!HealerNext]_(Proved!allVars)
<1>1. Heal!HealerInit => Proved!HealerInit
  BY SameShapes DEF Heal!HealerInit, Proved!HealerInit, Heal!Init, Proved!Init,
     Heal!Image, Proved!Image
<1>2. Heal!vars = Proved!vars /\ Heal!vars' = Proved!vars'
      /\ Heal!allVars = Proved!allVars /\ Heal!allVars' = Proved!allVars'
  BY DEF Heal!vars, Proved!vars, Heal!allVars, Proved!allVars, Heal!healerVars, Proved!healerVars
<1>3. Heal!Next => Proved!Next
  <2>1. ASSUME NEW f, Heal!AgentWrite(f) PROVE Proved!AgentWrite(f)
    BY <2>1 DEF Heal!AgentWrite, Proved!AgentWrite, Heal!disk, Proved!disk
  <2>2. ASSUME NEW f, Heal!Hide(f) PROVE Proved!Hide(f)
    BY <2>2 DEF Heal!Hide, Proved!Hide, Heal!disk, Proved!disk
  <2> QED BY <2>1, <2>2, SameCreate, SameRollback DEF Heal!Next, Proved!Next
<1>4. ASSUME NEW a, NEW n, NEW b, Heal!attempt_healing(a, n, b) PROVE Proved!attempt_healing(a, n, b)
  BY <1>2, <1>4, SameShapes DEF Heal!attempt_healing, Proved!attempt_healing
<1>5. Heal!HealStep => Proved!HealStep
  BY ZenonT(60), <1>2, SameShapes
     DEF Heal!HealStep, Proved!HealStep, Heal!SelectSnapshot, Proved!SelectSnapshot,
     Heal!ListPaths, Proved!ListPaths, Heal!CopiesDone, Proved!CopiesDone,
     Heal!QueryFails, Proved!QueryFails, Heal!log_event, Proved!log_event,
     Heal!LogFails, Proved!LogFails, Heal!CopyBack, Proved!CopyBack,
     Heal!CopyFails, Proved!CopyFails, Heal!disk, Proved!disk, Heal!history, Proved!history
<1>6. Heal!HealerNext => Proved!HealerNext
  BY <1>3, <1>4, <1>5 DEF Heal!HealerNext, Proved!HealerNext, Heal!EngineStep, Proved!EngineStep
<1> QED BY <1>1, <1>2, <1>6

LEMMA HealingInit ==
    ASSUME EngineConstants, Heal!HealerInit
    PROVE  Proved!HealInv
BY HealerSame, EngineAssumptions, Proved!HealInit

LEMMA HealingNext ==
    ASSUME EngineConstants, Proved!HealInv, [Heal!HealerNext]_(Heal!allVars)
    PROVE  Proved!HealInv'
BY HealerSame, EngineAssumptions, Proved!HealNext

LEMMA HealingSound ==
    ASSUME EngineConstants, Proved!HealInv
    PROVE  Heal!HealRestores /\ Heal!HealCounted
<1>1. Proved!HealRestores /\ Proved!HealCounted
  BY EngineAssumptions, Proved!HealSound
<1>2. Heal!HealRestores
  BY <1>1, SameShapes, EngineAssumptions DEF Heal!HealRestores, Proved!HealRestores
<1>3. \A a : Heal!get_history(a) = Proved!get_history(a)
  BY DEF Heal!get_history, Proved!get_history, Heal!Only, Proved!Only, Heal!Range, Proved!Range
<1>4. Heal!HealCounted
  BY <1>1, <1>3 DEF Heal!HealCounted, Proved!HealCounted
<1> QED BY <1>2, <1>4

(* Whatever fails: an undisturbed healing restores and counts the files of its
   snapshot and no event claims more than there were; a tool that the setup has
   reported as built is there; and of any shells started at once none runs a
   command that needs the database before it has its tables and its version. *)
THEOREM RecoveryCorrect ==
    ASSUME EngineConstants, ShellsAreCounted
    PROVE  ServicesSpec => []RecoverySound
<1> DEFINE Inv == /\ part = "healer" => Proved!HealInv
                  /\ part = "setup" => SetupInv
                  /\ part = "commands" => CommandsInv
<1>1. ServicesInit => Inv
  BY Begins, HealingInit, SetupInit, CommandsInit
<1>2. Inv /\ [ServicesNext]_states => Inv'
  BY Moves, HealingNext, SetupNext, CommandsNext
<1>3. Inv => RecoverySound
  BY HealingSound, CommandsReady DEF SetupInv, RecoverySound
<1> QED BY <1>1, <1>2, <1>3, PTL DEF ServicesSpec
================================================================================
