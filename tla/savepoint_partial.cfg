SPECIFICATION Spec
CONSTANTS
    Files = {"f1", "f3"}
    Contents = {c1, c2}
    Snaps = {s1}
    Agents = {a1}
    Procs = {p1}
    Lossy <- NearestNames
    None = None
    MaxWrites = 0
    MaxFaults = 1
INVARIANT
    PruneSparesSnapshot
