-------------------------------- MODULE Services --------------------------------
(***************************************************************************)
(* Components that keep to themselves: a behaviour picks one part and runs *)
(* it.  The variables of the part are the first of s1, s2, ..., in the     *)
(* order its module declares them.                                         *)
(***************************************************************************)
EXTENDS Naturals

CONSTANTS
    None,
    (* guard, resources *)
    Pids, Names, Requests, Manifests, Outputs, Scanners, MaxRows,
    Sizes, MemoryLimits, Megabyte, LongWord, Amounts, Word, Budget, MaxLives, MaxCalls,
    (* settings, router *)
    Setters, MaxSets, Configured, Agents, MaxQueued,
    (* nest, talons *)
    Clients, PackageNames, Versions, ManifestLines, MaxLines, MaxInstalls, Threads,
    (* patterns, sync *)
    Detectors, Trace, MaxId, Devices, Secrets, Items, MaxSyncs,
    (* audit, dashboard, client *)
    Verifiers, ActionTypes, Fields, Checks, MaxActions, MaxReports,
    AgentLists, AlertLists, Queries, Matches(_), Heights, MaxKeys, Methods, MaxSent, MaxRegistered,
    (* memory, aura, compress *)
    SessionIds, AgentIds, MemoryKeys, AuraKeys, AuraScopes, Values, MaxAuraWrites,
    AuraValues, from_utf8_lossy, trim,
    Contexts, Thresholds, SqzWords, MaxCompressions,
    (* codec *)
    Bytes, Chars, MaxBytes, MaxChars,
    (* healer *)
    Files, Contents, Snaps, HealedAgents, Procs, Lossy, MaxWrites, MaxFaults, MaxHeals,
    (* setup, commands *)
    Setups, AllTools, GoTools, CurlTools, Reachable, Options, MaxSetups,
    Shells, AgentPids, Arguments, MaxCommands

VARIABLES
    part,
    s1, s2, s3, s4, s5, s6, s7, s8, s9, s10, s11, s12, s13, s14, s15, s16, s17

(* The parts. *)
Watch == INSTANCE Guard WITH
    manifests <- s1, trusted <- s2, table <- s3, monitored <- s4, scan <- s5,
    decision <- s6, called <- s7, reused <- s8, book <- s9
Res == INSTANCE Resources WITH
    life <- s1, mem <- s2, limits <- s3, round <- s4, suspended <- s5, usage <- s6,
    own <- s7, culprits <- s8
Set == INSTANCE Settings WITH
    file <- s1, call <- s2, context <- s3, sets <- s4, asked <- s5, clash <- s6,
    broken <- s7
Route == INSTANCE Router WITH
    call <- s1, queued <- s2, answer <- s3
Market == INSTANCE Nest WITH
    MaxCalls <- MaxInstalls,
    installed_packages <- s1, package_index <- s2, call <- s3, done <- s4,
    manifest <- s5, calls <- s6
Plugin == INSTANCE Talons WITH
    records <- s1, instances <- s2, inside <- s3, fresh <- s4
Pat == INSTANCE Patterns WITH
    patterns <- s1, action_log <- s2, todo <- s3, existing <- s4, ids <- s5,
    decision <- s6, raced <- s7
Dev == INSTANCE Sync WITH
    MaxCalls <- MaxSyncs,
    engine <- s1, value <- s2, wire <- s3, clock <- s4, calls <- s5, queued <- s6,
    met <- s7
Aud == INSTANCE Audit WITH
    session_actions <- s1, op <- s2, verification_reports <- s3, cleaned <- s4
Eye == INSTANCE Dashboard WITH
    Agents <- AgentLists,
    agents <- s1, alerts <- s2, selected_agent <- s3, view <- s4, search_query <- s5,
    status_message <- s6, loop <- s7, raw <- s8, screen <- s9, rolled <- s10,
    keys <- s11
Sdk == INSTANCE Client WITH
    handlers <- s1, holder <- s2, poisoned <- s3, thread <- s4, inbox <- s5,
    memory <- s6, sent <- s7, registered <- s8, handled <- s9, subscriptions <- s10
Mem == INSTANCE Memory WITH
    KeyNames <- MemoryKeys,
    st <- s1, stored <- s2, closed <- s3
Aura == INSTANCE AuraMemory WITH
    KeyNames <- AuraKeys, Scopes <- AuraScopes, Values <- AuraValues, MaxWrites <- MaxAuraWrites,
    aura <- s1, local <- s2, up <- s3, last <- s4, behind <- s5, writes <- s6
Sqz == INSTANCE Compress WITH
    MaxCalls <- MaxCompressions,
    cache <- s1, per_agent <- s2, totals <- s3, running <- s4, answer <- s5,
    madeFor <- s6, calls <- s7
Base == INSTANCE Codec WITH
    data <- s1, text <- s2
Man == INSTANCE Manifest WITH
    doc <- s1, manifest <- s2
Heal == INSTANCE Healer WITH
    Agents <- HealedAgents,
    work <- s1, hidden <- s2, dirs <- s3, store <- s4, rows <- s5, manifest <- s6,
    clock <- s7, op <- s8, result <- s9, writes <- s10, faults <- s11, quiet <- s12,
    truth <- s13, heal <- s14, healing_events <- s15, outcome <- s16, before <- s17
Tools == INSTANCE Setup WITH
    all_tools <- AllTools,
    marker <- s1, binaries <- s2, tmp <- s3, setup <- s4, setups <- s5
Cli == INSTANCE Commands WITH
    Pids <- AgentPids, Names <- Arguments,
    dir <- s1, schema <- s2, versions <- s3, agents <- s4, alive <- s5, record <- s6,
    shell <- s7, typed <- s8, refused <- s9

--------------------------------------------------------------------------------
states == <<part, s1, s2, s3, s4, s5, s6, s7, s8, s9, s10, s11, s12, s13, s14, s15, s16, s17>>

(* The variables a part leaves unused, those after its last, stay 0. *)
After16 == <<s17>>
After15 == <<s16, After16>>
After14 == <<s15, After15>>
After13 == <<s14, After14>>
After12 == <<s13, After13>>
After11 == <<s12, After12>>
After10 == <<s11, After11>>
After9 == <<s10, After10>>
After8 == <<s9, After9>>
After7 == <<s8, After8>>
After6 == <<s7, After7>>
After5 == <<s6, After6>>
After4 == <<s5, After5>>
After3 == <<s4, After4>>
After2 == <<s3, After3>>
After1 == <<s2, After2>>
After0 == <<s1, After1>>

Zero16 == s17 = 0
Zero15 == s16 = 0 /\ Zero16
Zero14 == s15 = 0 /\ Zero15
Zero13 == s14 = 0 /\ Zero14
Zero12 == s13 = 0 /\ Zero13
Zero11 == s12 = 0 /\ Zero12
Zero10 == s11 = 0 /\ Zero11
Zero9 == s10 = 0 /\ Zero10
Zero8 == s9 = 0 /\ Zero9
Zero7 == s8 = 0 /\ Zero8
Zero6 == s7 = 0 /\ Zero7
Zero5 == s6 = 0 /\ Zero6
Zero4 == s5 = 0 /\ Zero5
Zero3 == s4 = 0 /\ Zero4
Zero2 == s3 = 0 /\ Zero3
Zero1 == s2 = 0 /\ Zero2
Zero0 == s1 = 0 /\ Zero1

ServicesInit ==
    \/ part = "guard" /\ Watch!Init /\ Zero9
    \/ part = "resources" /\ Res!Init /\ Zero8
    \/ part = "settings" /\ Set!Init /\ Zero7
    \/ part = "router" /\ Route!Init /\ Zero3
    \/ part = "nest" /\ Market!Init /\ Zero6
    \/ part = "talons" /\ Plugin!Init /\ Zero4
    \/ part = "patterns" /\ Pat!Init /\ Zero7
    \/ part = "sync" /\ Dev!Init /\ Zero7
    \/ part = "audit" /\ Aud!Init /\ Zero4
    \/ part = "dashboard" /\ Eye!Init /\ Zero11
    \/ part = "client" /\ Sdk!connect /\ Zero10
    \/ part = "memory" /\ Mem!Init /\ Zero3
    \/ part = "aura" /\ Aura!Init /\ Zero6
    \/ part = "compress" /\ Sqz!Init /\ Zero7
    \/ part = "codec" /\ Base!Init /\ Zero2
    \/ part = "manifest" /\ Man!Init /\ Zero2
    \/ part = "healer" /\ Heal!HealerInit
    \/ part = "setup" /\ Tools!Init /\ Zero5
    \/ part = "commands" /\ Cli!Init /\ Zero9

ServicesNext ==
    \/ part = "guard" /\ Watch!Next /\ UNCHANGED <<part, After9>>
    \/ part = "resources" /\ Res!Next /\ UNCHANGED <<part, After8>>
    \/ part = "settings" /\ Set!Next /\ UNCHANGED <<part, After7>>
    \/ part = "router" /\ Route!Next /\ UNCHANGED <<part, After3>>
    \/ part = "nest" /\ Market!Next /\ UNCHANGED <<part, After6>>
    \/ part = "talons" /\ Plugin!Next /\ UNCHANGED <<part, After4>>
    \/ part = "patterns" /\ Pat!Next /\ UNCHANGED <<part, After7>>
    \/ part = "sync" /\ Dev!Next /\ UNCHANGED <<part, After7>>
    \/ part = "audit" /\ Aud!Next /\ UNCHANGED <<part, After4>>
    \/ part = "dashboard" /\ Eye!Next /\ UNCHANGED <<part, After11>>
    \/ part = "client" /\ Sdk!Next /\ UNCHANGED <<part, After10>>
    \/ part = "memory" /\ Mem!Next /\ UNCHANGED <<part, After3>>
    \/ part = "aura" /\ Aura!Next /\ UNCHANGED <<part, After6>>
    \/ part = "compress" /\ Sqz!Next /\ UNCHANGED <<part, After7>>
    \/ part = "codec" /\ Base!Next /\ UNCHANGED <<part, After2>>
    \/ part = "manifest" /\ Man!Next /\ UNCHANGED <<part, After2>>
    \/ part = "healer" /\ Heal!HealerNext /\ UNCHANGED part
    \/ part = "setup" /\ Tools!Next /\ UNCHANGED <<part, After5>>
    \/ part = "commands" /\ Cli!Next /\ UNCHANGED <<part, After9>>

ServicesSpec == ServicesInit /\ [][ServicesNext]_states

--------------------------------------------------------------------------------
(* Properties, each of one part or of two that share their code's purpose *)

(* PermissionGuard and WatchEngine: more than the manifest is allowed only to a
   trusted name or to whoever got a trusted number, and what the scans return is
   what the report shows. *)
GuardSound == part = "guard" => Watch!GuardSound

(* ResourceMonitor and TokenTracker: a process is suspended, and called over its
   budget, only for what a process of its number did, or for a limit of that number
   that does not fit into 64 bits. *)
NumbersSound == part = "resources" => Res!NumbersSound

(* ConfigEngine and the manifest parser: configuration stops loading only after a
   set that reported success, the mode that was set is the mode a daemon starts in,
   and the TOML of a manifest that was accepted is parsed to the same. *)
SettingsSound ==
    /\ part = "settings" => Set!LoadsUnlessSet /\ Set!ModeKept
    /\ part = "manifest" => Man!WrittenBack

(* LlmRouter and AirGap: the first provider in order that may be used and answers
   answers, and a request is queued only when all of them have refused. *)
RouterSound == part = "router" => Route!BestAnswer

(* NestClient: an install is recorded once, a search finds what is indexed, and a
   package is published under no version but that of its manifest. *)
NestSound ==
    part = "nest" => Market!InstalledOnce /\ Market!SearchFinds /\ Market!PublishedVersion

(* TalonRegistry and PatternDetector: a plugin's status is true of its instance; a
   user's decision stays in the row of its pattern, which is one unless processes
   race or a look-up fails, and no row counts more than was repeated. *)
PluginsSound ==
    /\ part = "talons" => Plugin!StatusTrue
    /\ part = "patterns" => Pat!DecisionStays /\ Pat!CountsTrue

(* SyncEngine: devices with one passphrase agree, a change queued offline is kept
   until it is sent, and a conflict loses nothing without saying so. *)
SyncSound == part = "sync" => Dev!Agree /\ Dev!QueueKept /\ Dev!Lossless

(* VerificationEngine and `hawk verify`: an agent is never blamed for another
   resource, and a report is no better than what it was made of. *)
AuditSound == part = "audit" => Aud!AuditSound

(* HawkClient: a publisher's messages are handled once and in order at each receiver,
   by the first handler of their method, one at a time and none after a panic. *)
ClientSound == part = "client" => Sdk!ClientSound

(* InMemoryStore, its two interfaces and AuraBackedStore: a query answers from
   the nearest scope, nothing stored is lost, an archive is complete, Aura answers
   with the text of what was stored last, trimmed, or this process with its bytes,
   and the base64 that values are stored in is decoded to what was encoded. *)
MemorySound ==
    /\ part = "memory" => Mem!ScopeOrder /\ Mem!NothingLost /\ Mem!ArchiveComplete
    /\ part = "aura" => Aura!Fresh /\ Aura!ListedFound
    /\ part = "codec" => Base!RoundTrip

(* ContextCompressor: what a call returns fits the threshold it was asked for or
   says so, and the totals are the sums over the agents. *)
CompressSound == part = "compress" => Sqz!WithinThreshold /\ Sqz!StatsAddUp

(* SelfHealer, `hawk setup` and the opening of the database: a healing restores
   and counts the files of its snapshot, a tool reported as built is there, and
   no command runs without its tables. *)
RecoverySound ==
    /\ part = "healer" => Heal!HealRestores /\ Heal!HealCounted
    /\ part = "setup" => Tools!ClaimsInstalled
    /\ part = "commands" => Cli!DatabaseReady

(* App: the dashboard hides no alert newer than one it shows. *)
ScreenSound == part = "dashboard" => Eye!NewestShown

(* App: an undo rolls back the agent that the dashboard showed as selected, or one
   that it had no room for. *)
UndoesHighlighted == [][part = "dashboard" => Eye!UndoHighlighted]_states
================================================================================
