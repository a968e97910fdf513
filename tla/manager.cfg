SPECIFICATION FairSpec
CONSTANTS
    Pids = {p1}
    Threads = {t1, t2}
    MaxGen = 2
    MaxFaults = 1
    MaxRestarts = 1
    None = None
INVARIANTS
    TypeOK
    AgentsInHand
PROPERTY
    CallsEnd
