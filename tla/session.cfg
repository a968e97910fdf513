SPECIFICATION Spec
CONSTANTS
    Recorders = {r1, r2}
    Sessions = {s1, s2}
    Retentions = {0, 1}
    MaxSteps = 3
    MaxTime = 3
    None = None
INVARIANTS
    TypeOK
    Numbered
PROPERTY
    LogGrows
