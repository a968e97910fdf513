SPECIFICATION HistorySpec
CONSTANTS
    Pids = {a1, a2}
    Topics = {t1}
    Messages = {m1, m2, m3}
    Chans = {c1, c2}
    Tasks = {k1, k2}
    Capacity = 1
    MaxQueue = 2
    Retention = 1
    MaxTime = 2
    None = None
SYMMETRY Symmetry
INVARIANTS
    TypeOK
    DeliveryExact
CHECK_DEADLOCK FALSE
