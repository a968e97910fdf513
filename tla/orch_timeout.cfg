SPECIFICATION Spec
CONSTANTS
    a1 = a1
    a2 = a2
    Agents = {a1, a2}
    Orch = o
    Registries <- Both
    Plans <- InOrder
    Chans = {c1, c2, c3, c4, c5, c6}
    Ids = {1, 2}
    Capacity = 1
    Inbox = inbox
    None = None
INVARIANT
    TimeoutIsFailure
