\* An order book that may become empty.
CONSTANTS
    p1 = p1
    o1 = o1
    Players = {p1}
    Items = {i1}
    Orders = {o1, o2}
    Pollers = {c1}
    BatchSize = 1
    Wants <- AllWanted
    MayEmpty = TRUE
    MaxFaults = 0
    NoItem = NoItem
SPECIFICATION Spec
INVARIANT OwedNeverSeen
