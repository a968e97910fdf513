SPECIFICATION Spec
CONSTANTS
    Keys = {k1}
    Values = {v1}
    Passphrases = {p1}
    Procs = {w1, w2}
    MaxCrashes = 1
    MaxFaults = 1
    Salts <- TwoSalts
    Randoms <- TwoRandoms
    s1 = s1
    s2 = s2
    r1 = r1
    r2 = r2
    None = None
SYMMETRY Symmetric
VIEW View
INVARIANTS
    TypeOK
    SecretsKept
PROPERTY
    RefinesStore
