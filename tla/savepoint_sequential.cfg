SPECIFICATION FairSpec
CONSTANTS
    Files = {"f1", "f2"}
    Contents = {c1, c2}
    Snaps = {s1, s2}
    Agents = {a1}
    Procs = {p1}
    Lossy <- NearestNames
    None = None
    MaxWrites = 3
    MaxFaults = 0
INVARIANTS
    ManifestTrue
PROPERTY
    OperationsEnd
