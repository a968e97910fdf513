SPECIFICATION Spec
CONSTANTS
    Files = {"f1", "f2", "f3"}
    Contents = {c1, c2}
    Snaps = {s1}
    Agents = {a1}
    Procs = {p1, p2}
    Lossy <- NearestNames
    None = None
    MaxWrites = 1
    MaxFaults = 1
SYMMETRY Symmetry
INVARIANTS
    TypeOK
    Recoverable
PROPERTY
    CatalogSpec
