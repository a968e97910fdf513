SPECIFICATION FairSpec
CONSTANTS
    MaxParts = 4
    MaxAnd = 2
    MaxEdits = 2
    None = None
    Pids = {1}
    Names = {"n1", "n2"}
    Requests = {"r"}
    Manifests <- TwoManifests
    Outputs <- ScannerOutputs
    Scanners = {"s1"}
    MaxRows = 2
    Sizes = {2, 3}
    MemoryLimits = {1, 4}
    Megabyte = 2
    LongWord = 8
    Amounts = {1, 2}
    Word = 4
    Budget = 3
    MaxLives = 2
    MaxCalls = 2
    Setters = {1, 2}
    MaxSets = 2
    Configured <- ThreeProviders
    Agents = {1, 2}
    MaxQueued = 1
    Clients = {1, 2}
    PackageNames <- TwoPackages
    Versions = {"1", "2"}
    ManifestLines <- VersionLines
    MaxLines = 2
    MaxInstalls = 3
    Threads = {"1", "2"}
    Detectors = {1, 2}
    Trace <- TwoTraces
    MaxId = 2
    Devices = {1, 2}
    Secrets = {"s", "t"}
    Items = {"i"}
    MaxSyncs = 5
    Verifiers = {1}
    ActionTypes = {"api_call", "file_write"}
    Fields = {"path", "url"}
    Checks = {"PASS", "FAIL", "UNVERIFIABLE"}
    MaxActions = 2
    MaxReports = 1
    AgentLists <- ThreeLists
    AlertLists <- OneAlertList
    Queries = {"", "b"}
    Matches <- SameName
    Heights = {1, 6}
    MaxKeys = 5
    Methods = {"m"}
    MaxSent = 2
    MaxRegistered = 2
    SessionIds <- MemorySessions
    AgentIds = {"t"}
    MemoryKeys <- TwoKeys
    AuraKeys <- GlobalKeys
    AuraScopes <- ThreeScopes
    Values = {"a", ""}
    MaxAuraWrites = 3
    AuraValues = {"raw", " "}
    from_utf8_lossy <- NearestText
    trim <- TrimmedText
    Contexts <- TwoContexts
    Thresholds = {1, 2, 4}
    SqzWords = {0, 6}
    MaxCompressions = 3
    Bytes = {0, 1, 3, 15, 63, 128, 255}
    Chars = {0, 1, 15, 63, 64, 65}
    MaxBytes = 4
    MaxChars = 5
    Files = {"f1", "f2"}
    Contents = {"x", "y"}
    Snaps = {"s1"}
    HealedAgents = {"a1"}
    Procs = {"p1"}
    Lossy <- OneNameEach
    MaxWrites = 1
    MaxFaults = 1
    MaxHeals = 1
    Setups = {1, 2}
    AllTools <- SetupTools
    GoTools = {"etch"}
    CurlTools = {"sqz"}
    Reachable = {"sqz"}
    Options <- ThreeOptions
    MaxSetups = 2
    Shells = {1, 2}
    AgentPids = {"7"}
    Arguments = {"x"}
    MaxCommands = 3
INVARIANTS
    GuardSound
    NumbersSound
    SettingsSound
    RouterSound
    MemorySound
    PlanInOrder
    NestSound
    PluginsSound
    CompressSound
    SyncSound
    AuditSound
    RecoverySound
    ClientSound
    ScreenSound
PROPERTIES
    UndoesHighlighted
    Progress
CHECK_DEADLOCK FALSE
