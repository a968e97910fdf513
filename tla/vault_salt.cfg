SPECIFICATION Spec
CONSTANTS
    Keys = {k1}
    Passphrases = {p1}
    Procs = {w1, w2}
    MaxCrashes = 0
    MaxFaults = 0
    Values = {v1}
    Salts <- TwoSalts
    Randoms <- TwoRandoms
    s1 = s1
    s2 = s2
    r1 = r1
    r2 = r2
    None = None
PROPERTIES
    SaltStays
