\* Two overlapping pollers of one item with crashes and failing chat writes.
CONSTANTS
    p1 = p1
    o1 = o1
    Players = {p1}
    Items = {i1}
    Orders = {o1, o2}
    Pollers = {c1, c2}
    BatchSize = 1
    Wants <- AllWanted
    MayEmpty = FALSE
    MaxFaults = 1
    NoItem = NoItem
SYMMETRY Symmetry
SPECIFICATION Spec
INVARIANTS
    TypeOK
    OwedNeverSeen
PROPERTIES
    ImplementsAlerting
